-------------------------- MODULE Sessions_proof --------------------------
(***************************************************************************)
(* What holds of the sign-in for any number of tabs, requests, tokens and  *)
(* logins: every variable keeps its type, a login never has two sessions   *)
(* that can be used, and no expired token signs an operator out.           *)
(***************************************************************************)
EXTENDS Sessions, FiniteSetTheorems, TLAPS

-----------------------------------------------------------------------------
(* The inductive invariant *)

\* Who waits for a refresh waits for one of its own tab, which is heard.
Awaited ==
    \A q \in Call : request[q].awaits # None =>
        /\ refresh[request[q].awaits].heard
        /\ TabOf(request[q].awaits) = TabOf(q)

\* A refresh in flight was asked for with a token.
HasToken ==
    \A q \in Call : refresh[q].step \in {"sent", "read", "rotating"} => refresh[q].token # None

\* The numbers of logins are handed out in order, each to one tab; a number
\* that is still pending is not yet the number of any session.
LoginsApart ==
    /\ \A t \in Tab : tab[t].loggingIn <= logins
    /\ \A s \in Token : session[s] # None => session[s].login <= logins
    /\ \A t, u \in Tab :
          t # u /\ tab[t].loggingIn # 0 => tab[t].loggingIn # tab[u].loggingIn
    /\ \A t \in Tab : \A s \in Token :
          tab[t].loggingIn # 0 /\ session[s] # None => session[s].login # tab[t].loggingIn

\* A refresh past its conditional update has a login to itself: the only
\* session of that login that can still be used is the one it replaces.
RotatesAlone ==
    /\ \A q \in Call : refresh[q].step = "rotating" =>
          /\ refresh[q].token \in Token
          /\ session[refresh[q].token] # None
          /\ \A s \in Token :
                Usable(s) /\ session[s].login = session[refresh[q].token].login
                => s = refresh[q].token
    /\ \A q, p \in Call :
          q # p /\ refresh[q].step = "rotating" /\ refresh[p].step = "rotating"
          => session[refresh[q].token].login # session[refresh[p].token].login

Inv == TypeOK /\ Awaited /\ HasToken /\ LoginsApart /\ RotatesAlone /\ OneSessionPerLogin

-----------------------------------------------------------------------------
(* Types *)

(* What the browser holds, apart from what the API stores. *)
BrowserOK ==
    /\ storage \in Storage
    /\ tab \in [Tab -> TabState]
    /\ request \in [Call -> Request]
    /\ refresh \in [Call -> Refresh]

ServerOK ==
    /\ user \in User
    /\ session \in [Token -> SessionRow \cup {None}]
    /\ valid \subseteq Token
    /\ logins \in 0 .. MaxLogins /\ expiries \in 0 .. MaxExpiries
    /\ troubles \in 0 .. MaxTroubles

LEMMA TypeParts == BrowserOK /\ ServerOK /\ Awaited => TypeOK
BY DEF BrowserOK, ServerOK, Awaited, TypeOK

LEMMA TypeSplit == TypeOK => BrowserOK /\ ServerOK
BY DEF BrowserOK, ServerOK, TypeOK

LEMMA TabOfType == \A q \in Call : TabOf(q) \in Tab
BY CallAssumption DEF TabOf

LEMMA NoneTypes ==
    /\ NoRequest \in Request /\ NoRequest.awaits = None
    /\ NoRefresh \in Refresh /\ NoRefresh.step = "none"
    /\ Cleared \in Storage
BY DEF NoRequest, Request, NoRefresh, Refresh, Cleared, Storage

(* A refresh that is no longer heard goes on where it was, or is over. *)
LEMMA DroppedType ==
    ASSUME NEW f \in Refresh
    PROVE  /\ Dropped(f) \in Refresh
           /\ Dropped(f).step \in {"none", f.step}
           /\ Dropped(f).step # "none" => Dropped(f).token = f.token
           /\ f.step = "none" => Dropped(f) = NoRefresh
BY NoneTypes DEF Dropped, Refresh

(* A page loaded anew forgets its own requests only, and hears no refresh of
   its own any more. *)
LEMMA LoadedType ==
    ASSUME BrowserOK, Awaited, NEW t \in Tab, NEW page \in {"closed", "app", "login"},
           NEW stored \in Storage, Loaded(t, page, stored)
    PROVE  BrowserOK' /\ Awaited'
<1>1. storage' \in Storage /\ tab' \in [Tab -> TabState]
  <2> DEFINE signedIn == stored.isAuthenticated /\ stored.access # None
  <2>1. /\ tab' = [tab EXCEPT ![t] = [page |-> page, isAuthenticated |-> signedIn,
                                      loggingIn |-> 0]]
        /\ storage' = [stored EXCEPT !.isAuthenticated = signedIn]
    BY Zenon DEF Loaded
  <2>2. signedIn \in BOOLEAN
    OBVIOUS
  <2> HIDE DEF signedIn
  <2>3. [page |-> page, isAuthenticated |-> signedIn, loggingIn |-> 0] \in TabState
    BY <2>2, BoundsAssumption DEF TabState
  <2>4. [stored EXCEPT !.isAuthenticated = signedIn] \in Storage
    BY <2>2 DEF Storage
  <2> QED BY <2>1, <2>3, <2>4 DEF BrowserOK
<1>2. request' \in [Call -> Request]
  BY NoneTypes DEF BrowserOK, Loaded
<1>3. refresh' \in [Call -> Refresh]
  <2>1. \A q \in Call : Dropped(refresh[q]) \in Refresh
    BY DroppedType DEF BrowserOK
  <2> QED BY <2>1 DEF BrowserOK, Loaded
<1>4. Awaited'
  <2> SUFFICES ASSUME NEW q \in Call, request'[q].awaits # None
               PROVE  /\ refresh'[request'[q].awaits].heard
                      /\ TabOf(request'[q].awaits) = TabOf(q)
    BY DEF Awaited
  <2>1. TabOf(q) # t /\ request'[q] = request[q]
    BY NoneTypes DEF Loaded
  <2>2. request[q].awaits \in Call /\ TabOf(request[q].awaits) = TabOf(q)
    BY <2>1 DEF BrowserOK, Request, Awaited
  <2>3. refresh'[request[q].awaits] = refresh[request[q].awaits]
    BY <2>1, <2>2 DEF Loaded
  <2> QED BY <2>1, <2>2, <2>3 DEF Awaited
<1> QED BY <1>1, <1>2, <1>3, <1>4 DEF BrowserOK

LEMMA SignOutType ==
    ASSUME BrowserOK, Awaited, NEW q \in Call, SignOut(q)
    PROVE  BrowserOK' /\ Awaited'
<1>1. CASE tab[TabOf(q)].page = "login"
  <2>1. BrowserOK'
    BY <1>1, NoneTypes, DroppedType DEF BrowserOK, SignOut
  <2>2. Awaited'
    <3> SUFFICES ASSUME NEW p \in Call, request'[p].awaits # None
                 PROVE  /\ refresh'[request'[p].awaits].heard
                        /\ TabOf(request'[p].awaits) = TabOf(p)
      BY DEF Awaited
    <3>1. request'[p] = request[p] /\ ~(TabOf(p) = TabOf(q) /\ request[p].awaits = q)
      BY <1>1, NoneTypes DEF SignOut
    <3>2. request[p].awaits \in Call /\ TabOf(request[p].awaits) = TabOf(p)
      BY <3>1 DEF BrowserOK, Request, Awaited
    <3>3. refresh'[request[p].awaits] = refresh[request[p].awaits]
      BY <1>1, <3>1, <3>2 DEF SignOut, BrowserOK
    <3> QED BY <3>1, <3>2, <3>3 DEF Awaited
  <2> QED BY <2>1, <2>2
<1>2. CASE tab[TabOf(q)].page # "login"
  BY <1>2, TabOfType, NoneTypes, LoadedType DEF SignOut
<1> QED BY <1>1, <1>2

(* The next state of a refresh changes nothing of who waits for it. *)
LEMMA ToType ==
    ASSUME BrowserOK, Awaited, NEW q \in Call,
           NEW step \in {"none", "sent", "read", "rotating", "done", "failed"},
           To(q, step), UNCHANGED <<storage, tab, request>>
    PROVE  BrowserOK' /\ Awaited'
<1>1. BrowserOK'
  BY DEF BrowserOK, To, Refresh
<1>2. \A p \in Call : refresh'[p].heard = refresh[p].heard
  BY DEF BrowserOK, To, Refresh
<1>3. \A p \in Call : request[p].awaits # None => request[p].awaits \in Call
  BY DEF BrowserOK, Request
<1> QED BY <1>1, <1>2, <1>3 DEF Awaited

(* If neither requests nor refreshes change, who waits still does. *)
LEMMA SameWait ==
    ASSUME Awaited, UNCHANGED <<request, refresh>>
    PROVE  Awaited'
BY DEF Awaited

LEMMA SendType ==
    ASSUME BrowserOK, Awaited, NEW q \in Call, Send(q)
    PROVE  BrowserOK' /\ Awaited'
<1>1. [NoRequest EXCEPT !.step = "sent", !.access = storage.access] \in Request
  BY DEF BrowserOK, NoRequest, Request, Storage
<1>2. [NoRequest EXCEPT !.step = "sent", !.access = storage.access].awaits = None
  BY DEF NoRequest
<1>3. BrowserOK'
  BY <1>1 DEF BrowserOK, Send
<1>4. Awaited'
  BY <1>2 DEF BrowserOK, Send, Awaited
<1> QED BY <1>3, <1>4

LEMMA AnswerType ==
    ASSUME BrowserOK, Awaited, NEW q \in Call, Answer(q)
    PROVE  BrowserOK' /\ Awaited'
<1>1. BrowserOK'
  BY NoneTypes DEF BrowserOK, Answer
<1>2. Awaited'
  BY NoneTypes DEF BrowserOK, Answer, Awaited
<1> QED BY <1>1, <1>2

(* A request waits for a refresh of its own tab that is heard, be it in flight
   or begun by the request itself. *)
LEMMA RefusedType ==
    ASSUME BrowserOK, Awaited, NEW q \in Call, Refused(q)
    PROVE  BrowserOK' /\ Awaited'
<1> DEFINE Wait(p) == request' = [request EXCEPT ![q] =
              [@ EXCEPT !.step = "waiting", !.retried = TRUE, !.awaits = p]]
           Asked == [step |-> "sent", token |-> storage.refresh, next |-> None, heard |-> TRUE]
<1>1. ASSUME NEW p \in Call, Wait(p)
      PROVE  /\ request' \in [Call -> Request]
             /\ request'[q].awaits = p
             /\ \A r \in Call \ {q} : request'[r] = request[r]
  BY <1>1 DEF BrowserOK, Request
<1>2. CASE /\ \E p \in InFlight(TabOf(q)) : Wait(p)
           /\ UNCHANGED <<storage, tab, refresh>>
  <2>1. PICK p \in InFlight(TabOf(q)) : Wait(p)
    BY <1>2
  <2>2. p \in Call /\ TabOf(p) = TabOf(q) /\ refresh[p].heard
    BY DEF InFlight
  <2>3. BrowserOK'
    BY <1>1, <1>2, <2>1, <2>2 DEF BrowserOK
  <2>4. Awaited'
    BY <1>1, <1>2, <2>1, <2>2 DEF Awaited
  <2> QED BY <2>3, <2>4
<1>3. CASE /\ InFlight(TabOf(q)) = {} /\ refresh[q].step = "none" /\ storage.refresh # None
           /\ Wait(q)
           /\ refresh' = [refresh EXCEPT ![q] = Asked]
           /\ UNCHANGED <<storage, tab>>
  <2>1. Asked \in Refresh /\ Asked.heard
    BY DEF BrowserOK, Refresh, Storage
  <2>2. BrowserOK'
    BY <1>1, <1>3, <2>1 DEF BrowserOK
  <2>3. \A p \in Call : refresh[p].heard => refresh'[p].heard
    BY <1>3, <2>1 DEF BrowserOK
  <2>4. refresh'[q].heard
    BY <1>3, <2>1 DEF BrowserOK
  <2>5. \A r \in Call : request[r].awaits # None => request[r].awaits \in Call
    BY DEF BrowserOK, Request
  <2>6. Awaited'
    BY <1>1, <1>3, <2>3, <2>4, <2>5 DEF Awaited
  <2> QED BY <2>2, <2>6
<1>4. CASE SignOut(q)
  BY <1>4, SignOutType
<1> QED BY <1>2, <1>3, <1>4 DEF Refused

LEMMA RefreshedType ==
    ASSUME BrowserOK, Awaited, NEW q \in Call, Refreshed(q)
    PROVE  BrowserOK' /\ Awaited'
<1>1. refresh[q].next \in Token \cup {None}
  BY DEF BrowserOK, Refresh
<1>2. [storage EXCEPT !.access = refresh[q].next, !.refresh = refresh[q].next] \in Storage
  BY <1>1 DEF BrowserOK, Storage
<1>3. \A p \in Call : [request[p] EXCEPT !.step = "sent", !.access = refresh[q].next,
                                         !.awaits = None] \in Request
  BY <1>1 DEF BrowserOK, Request
<1>4. BrowserOK'
  BY <1>2, <1>3, NoneTypes DEF BrowserOK, Refreshed
<1>5. Awaited'
  <2> SUFFICES ASSUME NEW p \in Call, request'[p].awaits # None
               PROVE  /\ refresh'[request'[p].awaits].heard
                      /\ TabOf(request'[p].awaits) = TabOf(p)
    BY DEF Awaited
  <2>1. [request[p] EXCEPT !.step = "sent", !.access = refresh[q].next,
                           !.awaits = None].awaits = None
    BY DEF BrowserOK, Request
  <2>2. request'[p] = request[p] /\ ~(TabOf(p) = TabOf(q) /\ request[p].awaits = q)
    BY <2>1 DEF Refreshed
  <2>3. request[p].awaits \in Call /\ TabOf(request[p].awaits) = TabOf(p)
    BY <2>2 DEF BrowserOK, Request, Awaited
  <2>4. refresh'[request[p].awaits] = refresh[request[p].awaits]
    BY <2>2, <2>3 DEF Refreshed, BrowserOK
  <2> QED BY <2>2, <2>3, <2>4 DEF Awaited
<1> QED BY <1>4, <1>5

(* Nobody waits for a refresh that is not heard. *)
LEMMA UnheardType ==
    ASSUME BrowserOK, Awaited, NEW q \in Call, Unheard(q)
    PROVE  BrowserOK' /\ Awaited'
<1>1. BrowserOK'
  BY NoneTypes DEF BrowserOK, Unheard
<1>2. \A p \in Call : request[p].awaits # None => request[p].awaits \in Call \ {q}
  BY DEF BrowserOK, Request, Awaited, Unheard
<1>3. Awaited'
  BY <1>2 DEF BrowserOK, Unheard, Awaited
<1> QED BY <1>1, <1>3

(* The token that is issued is in Fresh. *)
LEMMA IssuedFresh ==
    ASSUME Fresh # {}
    PROVE  Issued \in Fresh /\ Issued \in Token
BY DEF Issued, Fresh

LEMMA CreateType ==
    ASSUME ServerOK, NEW n \in Token, NEW login \in 1 .. MaxLogins
    PROVE  CreateRefreshSession(n, login) \in [Token -> SessionRow \cup {None}]
BY DEF ServerOK, CreateRefreshSession, SessionRow

LEMMA OperatorType ==
    ASSUME BrowserOK, ServerOK, Awaited, NEW t \in Tab, Operator(t)
    PROVE  BrowserOK' /\ ServerOK' /\ Awaited'
<1> USE BoundsAssumption
<1>1. CASE LogIn(t)
  <2>1. logins' \in 1 .. MaxLogins
    BY <1>1 DEF LogIn, ServerOK
  <2>2. tab' \in [Tab -> TabState]
    BY <1>1, <2>1 DEF LogIn, BrowserOK, TabState
  <2> QED BY <1>1, <2>1, <2>2, SameWait DEF LogIn, BrowserOK, ServerOK
<1>2. CASE LoggedIn(t)
  <2>1. Issued \in Token
    BY <1>2, IssuedFresh DEF LoggedIn
  <2>2. tab[t].loggingIn \in 1 .. MaxLogins
    BY <1>2 DEF LoggedIn, BrowserOK, TabState
  <2>3. session' \in [Token -> SessionRow \cup {None}]
    BY <1>2, <2>1, <2>2, CreateType DEF LoggedIn
  <2>4. storage' \in Storage
    BY <1>2, <2>1 DEF LoggedIn, Storage
  <2>5. tab' \in [Tab -> TabState]
    <3> DEFINE idle == [tab[t] EXCEPT !.loggingIn = 0]
    <3>1. idle \in TabState
      BY DEF BrowserOK, TabState
    <3>2. tab' = [tab EXCEPT ![t] = [idle EXCEPT !.isAuthenticated = TRUE]]
      BY <1>2 DEF LoggedIn, BrowserOK, TabState
    <3> HIDE DEF idle
    <3>3. [idle EXCEPT !.isAuthenticated = TRUE] \in TabState
      BY <3>1 DEF TabState
    <3> QED BY <3>2, <3>3 DEF BrowserOK
  <2> QED BY <1>2, <2>1, <2>3, <2>4, <2>5, SameWait DEF LoggedIn, BrowserOK, ServerOK
<1>3. CASE LogOut(t)
  <2>1. tab' \in [Tab -> TabState]
    BY <1>3 DEF LogOut, BrowserOK, TabState
  <2> QED BY <1>3, <2>1, NoneTypes, SameWait DEF LogOut, BrowserOK, ServerOK, server
<1>4. CASE Reload(t)
  <2>1. tab[t].page \in {"closed", "app", "login"} /\ storage \in Storage
    BY DEF BrowserOK, TabState
  <2>2. BrowserOK' /\ Awaited'
    BY <1>4, <2>1, LoadedType DEF Reload
  <2>3. troubles' \in 0 .. MaxTroubles
    BY <1>4 DEF Reload, Trouble, ServerOK
  <2> QED BY <1>4, <2>2, <2>3 DEF Reload, ServerOK
<1>5. CASE Redirect(t)
  <2>1. tab' \in [Tab -> TabState] /\ storage' \in Storage
    <3>1. /\ [tab[t] EXCEPT !.page = "login"] \in TabState
          /\ [tab[t] EXCEPT !.page = "app"] \in TabState
          /\ [tab[t] EXCEPT !.isAuthenticated = FALSE] \in TabState
          /\ [storage EXCEPT !.isAuthenticated = FALSE] \in Storage
      BY DEF BrowserOK, TabState, Storage
    <3> QED BY <1>5, <3>1 DEF Redirect, BrowserOK
  <2> QED BY <1>5, <2>1, SameWait DEF Redirect, BrowserOK, ServerOK, server
<1> QED BY <1>1, <1>2, <1>3, <1>4, <1>5 DEF Operator

LEMMA HandledType ==
    ASSUME BrowserOK, ServerOK, Awaited, RotatesAlone, NEW q \in Call, Handled(q)
    PROVE  BrowserOK' /\ ServerOK' /\ Awaited'
<1>1. CASE Answer(q)
  BY <1>1, AnswerType DEF Answer, server, ServerOK
<1>2. CASE Refused(q)
  BY <1>2, RefusedType DEF Refused, server, ServerOK
<1>3. CASE Refreshed(q)
  BY <1>3, RefreshedType DEF Refreshed, server, ServerOK
<1>4. CASE RefreshFailed(q)
  BY <1>4, SignOutType DEF RefreshFailed, server, ServerOK
<1>5. CASE Unheard(q)
  BY <1>5, UnheardType DEF Unheard, server, ServerOK
<1>6. CASE ReadSession(q)
  BY <1>6, ToType DEF ReadSession, server, ServerOK
<1>7. CASE RevokeOld(q)
  BY <1>7, ToType DEF RevokeOld, server, ServerOK
<1>8. CASE Rotate(q) /\ refresh[q].token \in Token /\ session[refresh[q].token] # None
  <2> DEFINE old == refresh[q].token
             created == CreateRefreshSession(Issued, session[old].login)
             moved == [refresh[q] EXCEPT !.step = "done"]
  <2>1. Issued \in Token
    BY <1>8, IssuedFresh DEF Rotate
  <2>2. session[old].login \in 1 .. MaxLogins
    BY <1>8 DEF ServerOK, SessionRow
  <2>3. created \in [Token -> SessionRow \cup {None}] /\ created[old] \in SessionRow
    <3>1. created \in [Token -> SessionRow \cup {None}]
      BY <2>1, <2>2, CreateType
    <3>2. created[old] \in SessionRow
      BY <1>8, <2>1, <2>2 DEF CreateRefreshSession, ServerOK, SessionRow
    <3> QED BY <3>1, <3>2
  <2>4. session' = [created EXCEPT ![old].revoked = TRUE]
    BY <1>8 DEF Rotate
  <2>5. session' \in [Token -> SessionRow \cup {None}]
    <3> HIDE DEF created, old
    <3> QED BY <2>3, <2>4 DEF SessionRow
  <2>6. moved \in Refresh /\ moved.heard = refresh[q].heard
    BY DEF BrowserOK, Refresh
  <2>7. refresh' = [refresh EXCEPT ![q] = [moved EXCEPT !.next = Issued]]
    BY <1>8 DEF Rotate, BrowserOK, Refresh
  <2>8. [moved EXCEPT !.next = Issued] \in Refresh /\ [moved EXCEPT !.next = Issued].heard = refresh[q].heard
    <3> HIDE DEF moved
    <3> QED BY <2>1, <2>6 DEF Refresh
  <2>9. BrowserOK' /\ \A p \in Call : refresh'[p].heard = refresh[p].heard
    BY <1>8, <2>7, <2>8 DEF Rotate, BrowserOK
  <2>10. \A r \in Call : request[r].awaits # None => request[r].awaits \in Call
    BY DEF BrowserOK, Request
  <2>11. Awaited'
    BY <1>8, <2>9, <2>10 DEF Rotate, Awaited
  <2> QED BY <1>8, <2>1, <2>5, <2>9, <2>11 DEF Rotate, ServerOK
<1>9. Rotate(q) => refresh[q].token \in Token /\ session[refresh[q].token] # None
  BY DEF Rotate, At, RotatesAlone
<1> QED BY <1>1, <1>2, <1>3, <1>4, <1>5, <1>6, <1>7, <1>8, <1>9 DEF Handled

LEMMA OutsideType ==
    ASSUME BrowserOK, ServerOK, Awaited, Outside
    PROVE  BrowserOK' /\ ServerOK' /\ Awaited'
<1> USE BoundsAssumption
<1>1. Trouble => troubles' \in 0 .. MaxTroubles
  BY DEF Trouble, ServerOK
<1>2. \A s \in Token : session[s] # None =>
         /\ [session[s] EXCEPT !.revoked = TRUE] \in SessionRow
         /\ [session[s] EXCEPT !.expired = TRUE] \in SessionRow
  BY DEF ServerOK, SessionRow
<1>3. ASSUME NEW q \in Call, Lose(q) PROVE BrowserOK' /\ ServerOK' /\ Awaited'
  <2>1. ServerOK'
    BY <1>1, <1>3 DEF Lose, ServerOK
  <2> QED BY <1>3, <2>1, ToType, SignOutType DEF Lose
<1>4. CASE ResetPassword
  <2>1. user' \in User
    BY <1>4 DEF ResetPassword, ServerOK, User
  <2>2. session' \in [Token -> SessionRow \cup {None}]
    BY <1>2, <1>4 DEF ResetPassword
  <2> QED BY <1>1, <1>4, <2>1, <2>2, SameWait DEF ResetPassword, BrowserOK, ServerOK
<1>5. CASE SetActive
  <2>1. user' \in User
    BY <1>5 DEF SetActive, ServerOK, User
  <2> QED BY <1>1, <1>5, <2>1, SameWait DEF SetActive, BrowserOK, ServerOK
<1>6. ASSUME NEW s \in Token, EndSession(s) PROVE BrowserOK' /\ ServerOK' /\ Awaited'
  <2>1. session' \in [Token -> SessionRow \cup {None}]
    BY <1>2, <1>6 DEF EndSession, ServerOK, Usable
  <2> QED BY <1>1, <1>6, <2>1, SameWait DEF EndSession, BrowserOK, ServerOK
<1>7. ASSUME NEW n \in Token, ExpireAccess(n) PROVE BrowserOK' /\ ServerOK' /\ Awaited'
  <2>1. expiries' \in 0 .. MaxExpiries /\ valid' \subseteq Token
    BY <1>7 DEF ExpireAccess, ServerOK
  <2> QED BY <1>7, <2>1, SameWait DEF ExpireAccess, BrowserOK, ServerOK
<1> QED BY <1>3, <1>4, <1>5, <1>6, <1>7 DEF Outside

LEMMA TypeStep ==
    ASSUME Inv, [Next]_vars
    PROVE  TypeOK' /\ Awaited'
<1>1. BrowserOK /\ ServerOK /\ Awaited /\ RotatesAlone
  BY TypeSplit DEF Inv
<1>2. BrowserOK' /\ ServerOK' /\ Awaited'
  <2>1. ASSUME NEW q \in Call, Send(q) PROVE BrowserOK' /\ ServerOK' /\ Awaited'
    BY <1>1, <2>1, SendType DEF Send, server, ServerOK
  <2>2. CASE UNCHANGED vars
    BY <1>1, <2>2, SameWait DEF vars, BrowserOK, ServerOK
  <2> QED BY <1>1, <2>1, <2>2, HandledType, OperatorType, OutsideType DEF Next
<1>3. TypeOK'
  BY <1>2 DEF BrowserOK, ServerOK, Awaited, TypeOK
<1> QED BY <1>2, <1>3

(* Only a request that begins a refresh gives it a token, the one that is
   stored. *)
LEMMA HasTokenStep ==
    ASSUME BrowserOK, HasToken, [Next]_vars
    PROVE  HasToken'
<1> DEFINE Kept == \A q \in Call : refresh'[q].step \in {"sent", "read", "rotating"} =>
              /\ refresh[q].step \in {"sent", "read", "rotating"}
              /\ refresh'[q].token = refresh[q].token
<1>1. Kept => HasToken'
  BY DEF HasToken
<1>2. UNCHANGED refresh => Kept
  OBVIOUS
<1>3. ASSUME NEW t \in Tab, NEW page, NEW stored, Loaded(t, page, stored) PROVE Kept
  BY <1>3, DroppedType DEF Loaded, BrowserOK
<1>4. ASSUME NEW q \in Call,
             \/ refresh' = [refresh EXCEPT ![q] = NoRefresh]
             \/ refresh' = [refresh EXCEPT ![q] = Dropped(@)]
      PROVE  Kept
  BY <1>4, NoneTypes, DroppedType DEF BrowserOK
<1>5. ASSUME NEW q \in Call, SignOut(q) PROVE Kept
  BY <1>3, <1>4, <1>5, TabOfType DEF SignOut
<1>6. ASSUME NEW q \in Call, NEW step, To(q, step),
             step \in {"failed", "done"} \/ refresh[q].step \in {"sent", "read"}
      PROVE  Kept
  BY <1>6 DEF To, BrowserOK, Refresh
<1>7. ASSUME NEW q \in Call, Send(q) \/ Handled(q) PROVE HasToken'
  <2>1. CASE Refused(q)
    <3>1. CASE /\ storage.refresh # None
               /\ refresh' = [refresh EXCEPT ![q] =
                     [step |-> "sent", token |-> storage.refresh, next |-> None, heard |-> TRUE]]
      BY <3>1 DEF HasToken, BrowserOK
    <3>2. CASE UNCHANGED refresh \/ SignOut(q)
      BY <1>1, <1>2, <1>5, <3>2
    <3> QED BY <2>1, <3>1, <3>2 DEF Refused
  <2>2. CASE Send(q) \/ Answer(q)
    BY <1>1, <1>2, <2>2 DEF Send, Answer
  <2>3. CASE Refreshed(q) \/ Unheard(q)
    BY <1>1, <1>4, <2>3 DEF Refreshed, Unheard
  <2>4. CASE RefreshFailed(q)
    BY <1>1, <1>5, <2>4 DEF RefreshFailed
  <2>5. CASE ReadSession(q) \/ RevokeOld(q)
    BY <1>1, <1>6, <2>5 DEF ReadSession, RevokeOld, At
  <2>6. CASE Rotate(q)
    BY <1>1, <2>6 DEF Rotate, BrowserOK, Refresh
  <2> QED BY <1>7, <2>1, <2>2, <2>3, <2>4, <2>5, <2>6 DEF Handled
<1>8. ASSUME NEW t \in Tab, Operator(t) PROVE HasToken'
  <2>1. CASE Reload(t)
    BY <1>1, <1>3, <2>1 DEF Reload
  <2>2. CASE LogIn(t) \/ LoggedIn(t) \/ LogOut(t) \/ Redirect(t)
    BY <1>1, <1>2, <2>2 DEF LogIn, LoggedIn, LogOut, Redirect
  <2> QED BY <1>8, <2>1, <2>2 DEF Operator
<1>9. CASE Outside
  <2>1. ASSUME NEW q \in Call, Lose(q) PROVE HasToken'
    BY <1>1, <1>5, <1>6, <2>1 DEF Lose
  <2>2. Outside => UNCHANGED refresh \/ \E q \in Call : Lose(q)
    BY DEF Outside, ResetPassword, SetActive, EndSession, ExpireAccess
  <2> QED BY <1>1, <1>2, <1>9, <2>1, <2>2
<1>10. CASE UNCHANGED vars
  BY <1>1, <1>2, <1>10 DEF vars
<1> QED BY <1>7, <1>8, <1>9, <1>10 DEF Next

-----------------------------------------------------------------------------
(* Sessions *)

SessionsApart == LoginsApart /\ RotatesAlone /\ OneSessionPerLogin

(* What a step that neither makes a session nor begins to make one may do:
   sessions end, transactions are abandoned, logins are given up. *)
SessionsEnd ==
    \A s \in Token : /\ session'[s] = None <=> session[s] = None
                     /\ session[s] # None => session'[s].login = session[s].login
                     /\ Usable(s)' => Usable(s)

RotationsEnd ==
    \A q \in Call : refresh'[q].step = "rotating" =>
        refresh[q].step = "rotating" /\ refresh'[q].token = refresh[q].token

LoginsEnd == logins' = logins /\ \A t \in Tab : tab'[t].loggingIn \in {0, tab[t].loggingIn}

LEMMA Bystander ==
    ASSUME ServerOK, SessionsApart, SessionsEnd, RotationsEnd, LoginsEnd
    PROVE  SessionsApart'
<1>1. LoginsApart'
  <2>1. logins \in Nat
    BY BoundsAssumption DEF ServerOK
  <2>2. \A t \in Tab : tab'[t].loggingIn <= logins'
    BY <2>1 DEF SessionsApart, LoginsEnd, LoginsApart
  <2>3. \A s \in Token : session'[s] # None => session'[s].login <= logins'
    BY DEF SessionsApart, SessionsEnd, LoginsEnd, LoginsApart
  <2>4. \A t, u \in Tab :
           t # u /\ tab'[t].loggingIn # 0 => tab'[t].loggingIn # tab'[u].loggingIn
    BY DEF SessionsApart, LoginsEnd, LoginsApart
  <2>5. \A t \in Tab : \A s \in Token :
           tab'[t].loggingIn # 0 /\ session'[s] # None => session'[s].login # tab'[t].loggingIn
    BY DEF SessionsApart, SessionsEnd, LoginsEnd, LoginsApart
  <2> QED BY <2>2, <2>3, <2>4, <2>5 DEF LoginsApart
<1>2. RotatesAlone'
  BY DEF SessionsApart, SessionsEnd, RotationsEnd, RotatesAlone, Usable
<1>3. OneSessionPerLogin'
  BY DEF SessionsApart, SessionsEnd, OneSessionPerLogin, Usable
<1> QED BY <1>1, <1>2, <1>3 DEF SessionsApart

LEMMA SameSessions ==
    ASSUME UNCHANGED session
    PROVE  SessionsEnd
BY DEF SessionsEnd, Usable

LEMMA SameLogins ==
    ASSUME UNCHANGED <<tab, logins>>
    PROVE  LoginsEnd
BY DEF LoginsEnd

LEMMA SameRotations ==
    ASSUME UNCHANGED refresh
    PROVE  RotationsEnd
BY DEF RotationsEnd

LEMMA LoadedEnds ==
    ASSUME BrowserOK, NEW t \in Tab, NEW page, NEW stored, Loaded(t, page, stored),
           UNCHANGED logins
    PROVE  LoginsEnd /\ RotationsEnd
<1>1. LoginsEnd
  <2>1. \A u \in Tab : tab'[u].loggingIn \in {0, tab[u].loggingIn}
    BY DEF BrowserOK, Loaded, TabState
  <2> QED BY <2>1 DEF LoginsEnd
<1>2. RotationsEnd
  <2>1. \A q \in Call : refresh'[q].step = "rotating" => refresh[q].step = "rotating"
    BY DroppedType DEF BrowserOK, Loaded
  <2>2. \A q \in Call : refresh'[q].step = "rotating" => refresh'[q].token = refresh[q].token
    BY DroppedType DEF BrowserOK, Loaded
  <2> QED BY <2>1, <2>2 DEF RotationsEnd
<1> QED BY <1>1, <1>2

LEMMA SignOutEnds ==
    ASSUME BrowserOK, NEW q \in Call, SignOut(q), UNCHANGED logins
    PROVE  LoginsEnd /\ RotationsEnd
<1>1. CASE tab[TabOf(q)].page = "login"
  <2>1. LoginsEnd
    BY <1>1 DEF SignOut, LoginsEnd
  <2>2. RotationsEnd
    BY <1>1, DroppedType DEF SignOut, RotationsEnd, BrowserOK
  <2> QED BY <2>1, <2>2
<1>2. CASE tab[TabOf(q)].page # "login"
  BY <1>2, TabOfType, LoadedEnds DEF SignOut
<1> QED BY <1>1, <1>2

LEMMA ToEnds ==
    ASSUME BrowserOK, NEW q \in Call, NEW step, step # "rotating", To(q, step)
    PROVE  RotationsEnd
BY DEF BrowserOK, To, RotationsEnd, Refresh

(* A login gets a number above all that were handed out. *)
LEMMA LogInKeeps ==
    ASSUME BrowserOK, ServerOK, SessionsApart, NEW t \in Tab, LogIn(t)
    PROVE  SessionsApart'
<1>1. SessionsEnd /\ RotationsEnd
  BY SameSessions, SameRotations DEF LogIn
<1>2. logins \in Nat /\ logins' = logins + 1
  BY BoundsAssumption DEF LogIn, ServerOK
<1>3. /\ tab'[t].loggingIn = logins + 1
      /\ \A u \in Tab \ {t} : tab'[u].loggingIn = tab[u].loggingIn
  BY <1>2 DEF LogIn, BrowserOK, TabState
<1>4. /\ \A u \in Tab : tab[u].loggingIn \in Nat
      /\ \A s \in Token : session[s] # None => session[s].login \in Nat
  BY BoundsAssumption DEF BrowserOK, TabState, ServerOK, SessionRow
<1>5. LoginsApart'
  <2>1. \A u \in Tab : tab'[u].loggingIn <= logins'
    BY <1>2, <1>3, <1>4 DEF SessionsApart, LoginsApart
  <2>2. \A s \in Token : session'[s] # None => session'[s].login <= logins'
    BY <1>2, <1>4 DEF SessionsApart, LoginsApart, LogIn
  <2>3. \A u, v \in Tab :
           u # v /\ tab'[u].loggingIn # 0 => tab'[u].loggingIn # tab'[v].loggingIn
    BY <1>2, <1>3, <1>4 DEF SessionsApart, LoginsApart
  <2>4. \A u \in Tab : \A s \in Token :
           tab'[u].loggingIn # 0 /\ session'[s] # None => session'[s].login # tab'[u].loggingIn
    BY <1>2, <1>3, <1>4 DEF SessionsApart, LoginsApart, LogIn
  <2> QED BY <2>1, <2>2, <2>3, <2>4 DEF LoginsApart
<1>6. RotatesAlone' /\ OneSessionPerLogin'
  <2>1. UNCHANGED <<session, refresh>>
    BY DEF LogIn
  <2> QED BY <2>1 DEF SessionsApart, RotatesAlone, OneSessionPerLogin, Usable
<1> QED BY <1>5, <1>6 DEF SessionsApart

(* The row of the issued token is new; no row that can be used, or that a
   transaction is about to replace, is overwritten. *)
LEMMA IssuedIsFree ==
    ASSUME Fresh # {}
    PROVE  /\ Issued \in Token /\ ~Usable(Issued)
           /\ \A q \in Call : refresh[q].token # Issued
BY IssuedFresh DEF Fresh

(* The session is the first of its login. *)
LEMMA LoggedInKeeps ==
    ASSUME BrowserOK, ServerOK, SessionsApart, NEW t \in Tab, LoggedIn(t)
    PROVE  SessionsApart'
<1> DEFINE l == tab[t].loggingIn
           row == [login |-> l, revoked |-> FALSE, expired |-> FALSE]
<1>1. Issued \in Token /\ \A q \in Call : refresh[q].token # Issued
  BY IssuedIsFree DEF LoggedIn
<1>2. session' = [session EXCEPT ![Issued] = row]
  BY DEF LoggedIn, CreateRefreshSession
<1>3. /\ session'[Issued] = row /\ row.login = l
      /\ \A s \in Token \ {Issued} : session'[s] = session[s]
  BY <1>1, <1>2 DEF ServerOK
<1>4. UNCHANGED <<refresh, logins>>
  BY DEF LoggedIn
<1>5. /\ tab'[t].loggingIn = 0
      /\ \A u \in Tab \ {t} : tab'[u].loggingIn = tab[u].loggingIn
  BY DEF LoggedIn, BrowserOK, TabState
<1>6. l # 0 /\ l <= logins /\ logins \in Nat
  BY BoundsAssumption DEF LoggedIn, ServerOK, SessionsApart, LoginsApart
<1>7. \A s \in Token \ {Issued} : session'[s] # None => session'[s].login # l
  BY <1>3, <1>6 DEF SessionsApart, LoginsApart
<1> HIDE DEF row, l
<1>8. LoginsApart'
  <2>1. \A u \in Tab : tab'[u].loggingIn <= logins'
    BY <1>4, <1>5, <1>6 DEF SessionsApart, LoginsApart
  <2>2. \A s \in Token : session'[s] # None => session'[s].login <= logins'
    BY <1>3, <1>4, <1>6 DEF SessionsApart, LoginsApart
  <2>3. \A u, v \in Tab :
           u # v /\ tab'[u].loggingIn # 0 => tab'[u].loggingIn # tab'[v].loggingIn
    BY <1>5 DEF SessionsApart, LoginsApart
  <2>4. \A u \in Tab : \A s \in Token :
           tab'[u].loggingIn # 0 /\ session'[s] # None => session'[s].login # tab'[u].loggingIn
    BY <1>3, <1>5 DEF l, SessionsApart, LoginsApart
  <2> QED BY <2>1, <2>2, <2>3, <2>4 DEF LoginsApart
<1>9. \A s \in Token : Usable(s)' /\ s # Issued => Usable(s)
  BY <1>3 DEF Usable
<1>10. RotatesAlone'
  <2>1. \A q \in Call : refresh[q].step = "rotating" =>
           /\ refresh[q].token \in Token \ {Issued}
           /\ session'[refresh[q].token] = session[refresh[q].token]
    BY <1>1, <1>3 DEF SessionsApart, RotatesAlone
  <2>2. \A q \in Call : refresh[q].step = "rotating" => session[refresh[q].token].login # l
    BY <1>7, <2>1 DEF SessionsApart, RotatesAlone
  <2> QED BY <1>3, <1>4, <1>9, <2>1, <2>2 DEF SessionsApart, RotatesAlone
<1>11. OneSessionPerLogin'
  BY <1>3, <1>7, <1>9 DEF SessionsApart, OneSessionPerLogin, Usable
<1> QED BY <1>8, <1>10, <1>11 DEF SessionsApart

(* The conditional update meets a session that can be used; another rotation
   of that login would have this very token, and its row lock is waited for. *)
LEMMA RevokeOldKeeps ==
    ASSUME BrowserOK, ServerOK, HasToken, SessionsApart, NEW q \in Call, RevokeOld(q)
    PROVE  SessionsApart'
<1> DEFINE old == refresh[q].token
<1>1. UNCHANGED <<session, tab, logins>>
  BY DEF RevokeOld, server
<1>2. CASE To(q, "failed")
  <2>1. RotationsEnd
    BY <1>2, ToEnds
  <2> QED BY <1>1, <2>1, SameSessions, SameLogins, Bystander
<1>3. CASE /\ Usable(old) /\ To(q, "rotating")
           /\ \A p \in Call \ {q} : At(p, "rotating") => refresh[p].token # old
  <2>1. /\ old \in Token /\ session[old] # None
    BY <1>3 DEF RevokeOld, At, HasToken, BrowserOK, Refresh, Usable
  <2>2. /\ \A p \in Call : refresh'[p].token = refresh[p].token
        /\ \A p \in Call \ {q} : refresh'[p].step = refresh[p].step
    BY <1>3 DEF BrowserOK, To, Refresh
  <2>3. ASSUME NEW p \in Call \ {q}, refresh[p].step = "rotating"
        PROVE  session[refresh[p].token].login # session[old].login
    BY <1>3, <2>1, <2>3 DEF At, SessionsApart, RotatesAlone
  <2>4. RotatesAlone'
    <3>1. ASSUME NEW p \in Call, refresh'[p].step = "rotating"
          PROVE  /\ refresh[p].token \in Token
                 /\ session[refresh[p].token] # None
                 /\ \A s \in Token :
                       Usable(s) /\ session[s].login = session[refresh[p].token].login
                       => s = refresh[p].token
      <4>1. CASE p = q
        BY <1>3, <2>1, <4>1 DEF SessionsApart, OneSessionPerLogin
      <4>2. CASE p # q
        BY <2>2, <3>1, <4>2 DEF SessionsApart, RotatesAlone
      <4> QED BY <4>1, <4>2
    <3>2. ASSUME NEW p \in Call, NEW r \in Call, p # r,
                 refresh'[p].step = "rotating", refresh'[r].step = "rotating"
          PROVE  session[refresh[p].token].login # session[refresh[r].token].login
      BY <2>2, <2>3, <3>2 DEF SessionsApart, RotatesAlone
    <3> QED BY <1>1, <2>2, <3>1, <3>2 DEF RotatesAlone, Usable
  <2>5. LoginsApart' /\ OneSessionPerLogin'
    BY <1>1 DEF SessionsApart, LoginsApart, OneSessionPerLogin, Usable
  <2> QED BY <2>4, <2>5 DEF SessionsApart
<1> QED BY <1>2, <1>3 DEF RevokeOld

(* The new session takes the place of the only one its login had. *)
LEMMA RotateKeeps ==
    ASSUME BrowserOK, ServerOK, SessionsApart, NEW q \in Call, Rotate(q)
    PROVE  SessionsApart'
<1> DEFINE old == refresh[q].token
           l == session[old].login
           row == [login |-> l, revoked |-> FALSE, expired |-> FALSE]
<1>1. /\ old \in Token /\ session[old] # None
      /\ \A s \in Token : Usable(s) /\ session[s].login = l => s = old
  BY DEF Rotate, At, SessionsApart, RotatesAlone
<1>2. /\ Issued \in Token /\ Issued # old
      /\ \A p \in Call : refresh[p].token # Issued
  BY IssuedIsFree DEF Rotate
<1>3. /\ session'[Issued] = row /\ row.login = l
      /\ session'[old] = [session[old] EXCEPT !.revoked = TRUE]
      /\ \A s \in Token \ {Issued, old} : session'[s] = session[s]
  BY <1>1, <1>2 DEF Rotate, CreateRefreshSession, ServerOK
<1>4. session[old] \in SessionRow
  BY <1>1 DEF ServerOK
<1>5. session'[old] # None /\ session'[old].login = l /\ session'[old].revoked
  BY <1>3, <1>4, NoneAssumption DEF SessionRow
<1>6. UNCHANGED <<tab, logins>>
  BY DEF Rotate
<1>7. /\ refresh'[q].step = "done"
      /\ \A p \in Call \ {q} : refresh'[p] = refresh[p]
  BY DEF Rotate, BrowserOK, Refresh
<1>8. l <= logins /\ \A t \in Tab : tab[t].loggingIn # 0 => l # tab[t].loggingIn
  BY <1>1 DEF SessionsApart, LoginsApart
<1> HIDE DEF row, l, old
<1>9. LoginsApart'
  <2>1. \A s \in Token : session'[s] # None =>
           session'[s].login = l \/ (session[s] # None /\ session'[s] = session[s])
    BY <1>3, <1>5
  <2> QED BY <1>6, <1>8, <2>1 DEF SessionsApart, LoginsApart
<1>10. \A s \in Token : Usable(s)' => s = Issued \/ (Usable(s) /\ session'[s].login # l)
  BY <1>1, <1>3, <1>5 DEF Usable
<1>11. OneSessionPerLogin'
  <2>1. \A s \in Token : Usable(s)' /\ s # Issued => session'[s] = session[s]
    BY <1>3, <1>5 DEF Usable
  <2> QED BY <1>3, <1>10, <2>1 DEF SessionsApart, OneSessionPerLogin
<1>12. RotatesAlone'
  <2>1. ASSUME NEW p \in Call, refresh'[p].step = "rotating"
        PROVE  /\ p # q /\ refresh'[p] = refresh[p] /\ refresh[p].step = "rotating"
               /\ refresh[p].token \in Token \ {Issued, old}
               /\ session'[refresh[p].token] = session[refresh[p].token]
               /\ session[refresh[p].token].login # l
    <3>1. p # q /\ refresh'[p] = refresh[p] /\ refresh[p].step = "rotating"
      BY <1>7, <2>1
    <3>2. session[refresh[p].token].login # l
      BY <3>1 DEF Rotate, At, SessionsApart, RotatesAlone, l, old
    <3>3. refresh[p].token \in Token \ {Issued, old}
      BY <1>2, <3>1, <3>2 DEF SessionsApart, RotatesAlone, l
    <3> QED BY <1>3, <3>1, <3>2, <3>3
  <2>2. ASSUME NEW p \in Call, refresh'[p].step = "rotating", NEW s \in Token, Usable(s)',
               session'[s].login = session'[refresh'[p].token].login
        PROVE  s = refresh'[p].token
    <3>1. s # Issued
      BY <1>3, <2>1, <2>2
    <3>2. Usable(s) /\ session'[s] = session[s]
      BY <1>3, <1>5, <1>10, <2>2, <3>1 DEF Usable
    <3> QED BY <2>1, <2>2, <3>2 DEF SessionsApart, RotatesAlone
  <2>3. \A p \in Call : refresh'[p].step = "rotating" =>
           refresh'[p].token \in Token /\ session'[refresh'[p].token] # None
    BY <2>1 DEF SessionsApart, RotatesAlone
  <2>4. ASSUME NEW p \in Call, NEW r \in Call, p # r,
               refresh'[p].step = "rotating", refresh'[r].step = "rotating"
        PROVE  session'[refresh'[p].token].login # session'[refresh'[r].token].login
    BY <2>1, <2>4 DEF SessionsApart, RotatesAlone
  <2> QED BY <2>2, <2>3, <2>4 DEF RotatesAlone
<1> QED BY <1>9, <1>11, <1>12 DEF SessionsApart

LEMMA HandledKeeps ==
    ASSUME BrowserOK, ServerOK, HasToken, SessionsApart, NEW q \in Call, Handled(q)
    PROVE  SessionsApart'
<1>1. CASE Answer(q)
  BY <1>1, SameSessions, SameLogins, SameRotations, Bystander DEF Answer, server
<1>2. CASE Refused(q)
  <2>1. SessionsEnd /\ UNCHANGED logins
    BY <1>2, SameSessions DEF Refused, server
  <2>2. CASE SignOut(q)
    BY <2>1, <2>2, SignOutEnds, Bystander
  <2>3. CASE UNCHANGED <<tab, refresh>>
    BY <2>1, <2>3, SameLogins, SameRotations, Bystander
  <2>4. CASE /\ UNCHANGED tab
             /\ refresh' = [refresh EXCEPT ![q] =
                   [step |-> "sent", token |-> storage.refresh, next |-> None, heard |-> TRUE]]
    <3>1. RotationsEnd
      BY <2>4 DEF RotationsEnd, BrowserOK
    <3> QED BY <2>1, <2>4, <3>1, SameLogins, Bystander
  <2> QED BY <1>2, <2>2, <2>3, <2>4 DEF Refused
<1>3. CASE Refreshed(q) \/ Unheard(q)
  <2>1. RotationsEnd
    BY <1>3, NoneTypes DEF Refreshed, Unheard, RotationsEnd, BrowserOK
  <2> QED BY <1>3, <2>1, SameSessions, SameLogins, Bystander DEF Refreshed, Unheard, server
<1>4. CASE RefreshFailed(q)
  BY <1>4, SameSessions, SignOutEnds, Bystander DEF RefreshFailed, server
<1>5. CASE ReadSession(q)
  <2>1. RotationsEnd
    BY <1>5, ToEnds DEF ReadSession
  <2> QED BY <1>5, <2>1, SameSessions, SameLogins, Bystander DEF ReadSession, server
<1> QED BY <1>1, <1>2, <1>3, <1>4, <1>5, RevokeOldKeeps, RotateKeeps DEF Handled

LEMMA OperatorKeeps ==
    ASSUME BrowserOK, ServerOK, SessionsApart, NEW t \in Tab, Operator(t)
    PROVE  SessionsApart'
<1>1. CASE LogOut(t) \/ Redirect(t)
  <2>1. LoginsEnd
    BY <1>1 DEF LogOut, Redirect, LoginsEnd, BrowserOK, TabState, server
  <2> QED BY <1>1, <2>1, SameSessions, SameRotations, Bystander DEF LogOut, Redirect, server
<1>2. CASE Reload(t)
  BY <1>2, SameSessions, LoadedEnds, Bystander DEF Reload
<1> QED BY <1>1, <1>2, LogInKeeps, LoggedInKeeps DEF Operator

(* What comes from outside ends sessions and abandons transactions. *)
LEMMA OutsideKeeps ==
    ASSUME BrowserOK, ServerOK, SessionsApart, Outside
    PROVE  SessionsApart'
<1>1. \A s \in Token : session[s] # None =>
         /\ [session[s] EXCEPT !.revoked = TRUE] # None
         /\ [session[s] EXCEPT !.revoked = TRUE].login = session[s].login
         /\ [session[s] EXCEPT !.revoked = TRUE].revoked
         /\ [session[s] EXCEPT !.expired = TRUE] # None
         /\ [session[s] EXCEPT !.expired = TRUE].login = session[s].login
         /\ [session[s] EXCEPT !.expired = TRUE].expired
  BY NoneAssumption DEF ServerOK, SessionRow
<1>2. ASSUME NEW q \in Call, Lose(q) PROVE SessionsApart'
  <2>1. RotationsEnd /\ LoginsEnd
    BY <1>2, ToEnds, SignOutEnds, SameLogins DEF Lose
  <2> QED BY <1>2, <2>1, SameSessions, Bystander DEF Lose
<1>3. CASE ResetPassword
  <2>1. SessionsEnd
    BY <1>1, <1>3 DEF ResetPassword, SessionsEnd, Usable
  <2> QED BY <1>3, <2>1, SameLogins, SameRotations, Bystander DEF ResetPassword
<1>4. CASE SetActive
  BY <1>4, SameSessions, SameLogins, SameRotations, Bystander DEF SetActive
<1>5. ASSUME NEW n \in Token, EndSession(n) PROVE SessionsApart'
  <2>1. SessionsEnd
    <3>1. /\ session[n] # None
          /\ \A s \in Token \ {n} : session'[s] = session[s]
          /\ \/ session'[n] = [session[n] EXCEPT !.revoked = TRUE]
             \/ session'[n] = [session[n] EXCEPT !.expired = TRUE]
      BY <1>5 DEF EndSession, ServerOK, Usable
    <3> QED BY <1>1, <3>1 DEF SessionsEnd, Usable
  <2> QED BY <1>5, <2>1, SameLogins, SameRotations, Bystander DEF EndSession
<1>6. ASSUME NEW n \in Token, ExpireAccess(n) PROVE SessionsApart'
  BY <1>6, SameSessions, SameLogins, SameRotations, Bystander DEF ExpireAccess
<1> QED BY <1>2, <1>3, <1>4, <1>5, <1>6 DEF Outside

-----------------------------------------------------------------------------
(* Staying signed in *)

\* Nothing is asked for from a tab that is closed.
ClosedIdle ==
    /\ \A q \in Call : tab[TabOf(q)].page = "closed" =>
          request[q].step = "none" /\ refresh[q].step = "none"
    /\ \A t \in Tab : tab[t].page = "closed" => tab[t].loggingIn = 0

\* One tab is open, and nothing has come from outside.
Alone == troubles = 0 /\ \E t \in Tab : Open = {t}

\* Then there is one refresh at a time; its page hears it, and it has not failed.
OneRefresh ==
    /\ \A q \in Call : refresh[q].step # "none" => refresh[q].heard /\ refresh[q].step # "failed"
    /\ \A q, p \in Call : refresh[q].step # "none" /\ refresh[p].step # "none" => q = p

\* Its token can still be used, and after the rotation the one that replaces it
\* can; so can the stored one, unless its successor is on the way.
TokensGood ==
    /\ \A q \in Call : refresh[q].step \in {"sent", "read", "rotating"} => Usable(refresh[q].token)
    /\ \A q \in Call : refresh[q].step = "done" => Usable(refresh[q].next) /\ refresh[q].next \in valid
    /\ storage.refresh # None =>
          Usable(storage.refresh) \/ \E q \in Call : refresh[q].step = "done"

\* A request that was refused and is sent again is not refused again.
RetriedGood ==
    \A q \in Call : request[q].retried /\ request[q].step = "sent" => request[q].access \in valid

Good == MayEnter /\ OneRefresh /\ TokensGood /\ RetriedGood

Smooth == Alone => Good

OpenKept == \A t \in Tab : tab'[t].page = "closed" <=> tab[t].page = "closed"

(* Only an open page is loaded anew, and what is asked for ends there. *)
LEMMA LoadedIdle ==
    ASSUME BrowserOK, ClosedIdle, NEW t \in Tab, tab[t].page # "closed",
           NEW page, page # "closed", NEW stored, Loaded(t, page, stored)
    PROVE  ClosedIdle' /\ OpenKept
<1>1. tab'[t].page = page /\ \A u \in Tab \ {t} : tab'[u] = tab[u]
  BY DEF Loaded, BrowserOK
<1>2. \A q \in Call : TabOf(q) # t => request'[q] = request[q] /\ refresh'[q] = refresh[q]
  BY DEF Loaded
<1> QED BY <1>1, <1>2, TabOfType DEF ClosedIdle, OpenKept

LEMMA SignOutIdle ==
    ASSUME BrowserOK, ClosedIdle, NEW q \in Call, tab[TabOf(q)].page # "closed", SignOut(q)
    PROVE  ClosedIdle' /\ OpenKept
<1>1. CASE tab[TabOf(q)].page = "login"
  <2>1. \A p \in Call : /\ request'[p] = request[p] \/ request'[p].step = "none"
                        /\ p # q => refresh'[p] = refresh[p]
    BY <1>1, NoneTypes DEF SignOut, BrowserOK, NoRequest
  <2> QED BY <1>1, <2>1 DEF SignOut, ClosedIdle, OpenKept
<1>2. CASE tab[TabOf(q)].page # "login"
  BY <1>2, TabOfType, LoadedIdle DEF SignOut
<1> QED BY <1>1, <1>2

(* A step by which requests and refreshes go on or end, and no page changes. *)
LEMMA GoOnIdle ==
    ASSUME BrowserOK, ClosedIdle, UNCHANGED tab,
           \A q \in Call : tab[TabOf(q)].page = "closed" =>
              request'[q].step = "none" /\ refresh'[q].step = "none"
    PROVE  ClosedIdle' /\ OpenKept
BY DEF ClosedIdle, OpenKept

LEMMA ToIdle ==
    ASSUME BrowserOK, ClosedIdle, NEW q \in Call, NEW step, To(q, step),
           refresh[q].step # "none", UNCHANGED <<tab, request>>
    PROVE  ClosedIdle' /\ OpenKept
BY GoOnIdle DEF To, BrowserOK, ClosedIdle

LEMMA HandledIdle ==
    ASSUME BrowserOK, ClosedIdle, Awaited, NEW q \in Call, Handled(q)
    PROVE  ClosedIdle' /\ OpenKept
<1>1. CASE Answer(q)
  BY <1>1, GoOnIdle DEF Answer, BrowserOK, ClosedIdle, NoRequest
<1>2. CASE Refused(q)
  <2>1. request[q].step = "sent" /\ tab[TabOf(q)].page # "closed"
    BY <1>2 DEF Refused, ClosedIdle
  <2>2. CASE SignOut(q)
    BY <2>1, <2>2, SignOutIdle
  <2>3. CASE /\ UNCHANGED tab
             /\ \A p \in Call \ {q} : request'[p] = request[p] /\ refresh'[p] = refresh[p]
    BY <2>1, <2>3, GoOnIdle DEF ClosedIdle
  <2> QED BY <1>2, <2>2, <2>3 DEF Refused, BrowserOK
<1>3. CASE Refreshed(q)
  <2>1. tab[TabOf(q)].page # "closed"
    BY <1>3 DEF Refreshed, ClosedIdle
  <2>2. \A p \in Call : TabOf(p) # TabOf(q) =>
           request'[p] = request[p] /\ refresh'[p] = refresh[p]
    BY <1>3 DEF Refreshed, BrowserOK
  <2> QED BY <1>3, <2>1, <2>2, GoOnIdle DEF Refreshed, ClosedIdle
<1>4. CASE RefreshFailed(q)
  BY <1>4, SignOutIdle DEF RefreshFailed, ClosedIdle
<1>5. CASE Unheard(q)
  BY <1>5, NoneTypes, GoOnIdle DEF Unheard, BrowserOK, ClosedIdle
<1>6. CASE ReadSession(q) \/ RevokeOld(q)
  BY <1>6, ToIdle DEF ReadSession, RevokeOld, At
<1>7. CASE Rotate(q)
  BY <1>7, GoOnIdle DEF Rotate, At, BrowserOK, ClosedIdle
<1> QED BY <1>1, <1>2, <1>3, <1>4, <1>5, <1>6, <1>7 DEF Handled

LEMMA OperatorIdle ==
    ASSUME BrowserOK, ClosedIdle, NEW t \in Tab, Operator(t)
    PROVE  ClosedIdle' /\ OpenKept
<1>1. CASE Reload(t)
  BY <1>1, LoadedIdle DEF Reload
<1>2. CASE LogIn(t) \/ LoggedIn(t) \/ LogOut(t) \/ Redirect(t)
  <2>1. tab[t].page # "closed"
    BY <1>2 DEF LogIn, LoggedIn, LogOut, Redirect, ClosedIdle
  <2>2. /\ tab'[t].page # "closed" /\ \A u \in Tab \ {t} : tab'[u] = tab[u]
        /\ UNCHANGED <<request, refresh>>
    BY <1>2, <2>1 DEF LogIn, LoggedIn, LogOut, Redirect, BrowserOK, TabState
  <2> QED BY <2>1, <2>2, TabOfType DEF ClosedIdle, OpenKept
<1> QED BY <1>1, <1>2 DEF Operator

(* The tabs that are open stay so, and no other asks for anything. *)
LEMMA IdleStep ==
    ASSUME BrowserOK, ClosedIdle, Awaited, [Next]_vars
    PROVE  ClosedIdle' /\ OpenKept
<1>1. ASSUME NEW q \in Call, Send(q) PROVE ClosedIdle' /\ OpenKept
  BY <1>1, GoOnIdle DEF Send, BrowserOK, ClosedIdle
<1>2. CASE Outside
  <2>1. ASSUME NEW q \in Call, Lose(q) PROVE ClosedIdle' /\ OpenKept
    <3>1. tab[TabOf(q)].page # "closed"
      BY <2>1 DEF Lose, ClosedIdle
    <3> QED BY <2>1, <3>1, ToIdle, SignOutIdle DEF Lose
  <2>2. CASE UNCHANGED <<tab, request, refresh>>
    BY <2>2, GoOnIdle DEF ClosedIdle
  <2> QED BY <1>2, <2>1, <2>2 DEF Outside, ResetPassword, SetActive, EndSession, ExpireAccess
<1>3. CASE UNCHANGED vars
  BY <1>3, GoOnIdle DEF vars, ClosedIdle
<1> QED BY <1>1, <1>2, <1>3, HandledIdle, OperatorIdle DEF Next

(* With one tab open, what the tab waits for is all that is in flight. *)
LEMMA NothingFlies ==
    ASSUME BrowserOK, ClosedIdle, Alone, OneRefresh, NEW q \in Call,
           request[q].step # "none", InFlight(TabOf(q)) = {}
    PROVE  \A p \in Call : refresh[p].step = "none"
<1> SUFFICES ASSUME NEW p \in Call, refresh[p].step # "none"
             PROVE  FALSE
  OBVIOUS
<1>1. TabOf(p) \in Open /\ TabOf(q) \in Open
  BY TabOfType DEF ClosedIdle, Open
<1>2. TabOf(p) = TabOf(q) /\ refresh[p].heard
  BY <1>1 DEF Alone, OneRefresh
<1> QED BY <1>2 DEF InFlight

(* With nothing in flight, requests may end and tokens be forgotten. *)
LEMMA ForgetGood ==
    ASSUME Good, UNCHANGED <<user, session, valid>>,
           storage'.refresh \in {None, storage.refresh},
           \A q \in Call : /\ refresh[q].step = "none" /\ refresh'[q].step = "none"
                           /\ request'[q] \in {NoRequest, request[q]}
    PROVE  Good'
<1>1. MayEnter' /\ OneRefresh'
  BY DEF Good, MayEnter, OneRefresh
<1>2. TokensGood'
  BY DEF Good, TokensGood, Usable
<1>3. RetriedGood'
  BY DEF Good, RetriedGood, NoRequest
<1> QED BY <1>1, <1>2, <1>3 DEF Good

LEMMA LoadedGood ==
    ASSUME BrowserOK, Good, NEW t \in Tab, NEW page, NEW stored \in Storage,
           Loaded(t, page, stored), UNCHANGED <<user, session, valid>>,
           stored.refresh \in {None, storage.refresh},
           \A q \in Call : refresh[q].step = "none"
    PROVE  Good'
<1>1. storage'.refresh = stored.refresh
  BY DEF Loaded, Storage
<1>2. \A q \in Call : /\ refresh'[q].step = "none"
                      /\ request'[q] \in {NoRequest, request[q]}
  BY NoneTypes, DroppedType DEF Loaded, BrowserOK
<1> QED BY <1>1, <1>2, ForgetGood

LEMMA SignOutGood ==
    ASSUME BrowserOK, Good, NEW q \in Call, SignOut(q), UNCHANGED <<user, session, valid>>,
           \A p \in Call : refresh[p].step = "none"
    PROVE  Good'
<1>1. Cleared \in Storage /\ Cleared.refresh = None
  BY NoneTypes DEF Cleared
<1>2. CASE tab[TabOf(q)].page = "login"
  <2>1. \A p \in Call : /\ refresh'[p].step = "none"
                        /\ request'[p] \in {NoRequest, request[p]}
    BY <1>2, NoneTypes, DroppedType DEF SignOut, BrowserOK
  <2> QED BY <1>1, <1>2, <2>1, ForgetGood DEF SignOut
<1>3. CASE tab[TabOf(q)].page # "login"
  BY <1>1, <1>3, TabOfType, LoadedGood DEF SignOut
<1> QED BY <1>2, <1>3

(* Who has been sent again is not refused, and a tab that is refused with no
   refresh in flight begins one with a token that can be used. *)
LEMMA RefusedGood ==
    ASSUME BrowserOK, ClosedIdle, Alone, Good, NEW q \in Call, Refused(q)
    PROVE  Good' /\ (storage'.refresh = None => storage.refresh = None)
<1> DEFINE Wait(p) == request' = [request EXCEPT ![q] =
              [@ EXCEPT !.step = "waiting", !.retried = TRUE, !.awaits = p]]
           Asked == [step |-> "sent", token |-> storage.refresh, next |-> None, heard |-> TRUE]
<1>1. UNCHANGED <<user, session, valid>> /\ request[q].step = "sent" /\ ~request[q].retried
  BY DEF Refused, server, Good, RetriedGood
<1>2. MayEnter'
  BY <1>1 DEF Good, MayEnter
<1>3. ASSUME NEW p, Wait(p) PROVE RetriedGood'
  <2>1. request'[q].step = "waiting" /\ \A r \in Call \ {q} : request'[r] = request[r]
    BY <1>3 DEF BrowserOK, Request
  <2> QED BY <1>1, <2>1 DEF Good, RetriedGood
<1>4. CASE /\ \E p \in InFlight(TabOf(q)) : Wait(p)
           /\ UNCHANGED <<storage, tab, refresh>>
  <2>1. RetriedGood'
    BY <1>3, <1>4
  <2>2. OneRefresh' /\ TokensGood'
    BY <1>1, <1>4 DEF Good, OneRefresh, TokensGood, Usable
  <2> QED BY <1>2, <1>4, <2>1, <2>2 DEF Good
<1>5. CASE InFlight(TabOf(q)) = {}
  <2>1. \A p \in Call : refresh[p].step = "none"
    BY <1>1, <1>5, NothingFlies DEF Good
  <2>2. CASE /\ storage.refresh # None /\ Wait(q)
             /\ refresh' = [refresh EXCEPT ![q] = Asked]
             /\ UNCHANGED <<storage, tab>>
    <3>1. RetriedGood'
      BY <1>3, <2>2
    <3>2. refresh'[q] = Asked /\ \A p \in Call \ {q} : refresh'[p].step = "none"
      BY <2>1, <2>2 DEF BrowserOK
    <3>3. OneRefresh'
      BY <3>2 DEF OneRefresh
    <3>4. Usable(storage.refresh)
      BY <2>1, <2>2 DEF Good, TokensGood
    <3>5. TokensGood'
      BY <1>1, <2>2, <3>2, <3>4 DEF TokensGood, Usable
    <3> QED BY <1>2, <2>2, <3>1, <3>3, <3>5 DEF Good
  <2>3. CASE SignOut(q) /\ storage.refresh = None
    BY <1>1, <2>1, <2>3, SignOutGood
  <2> QED BY <1>1, <1>5, <2>2, <2>3 DEF Refused
<1> QED BY <1>1, <1>4, <1>5, Zenon DEF Refused

(* A step in which no session and no refresh changes. *)
LEMMA BystanderGood ==
    ASSUME Good, UNCHANGED <<user, session, valid, refresh>>,
           storage'.refresh \in {None, storage.refresh},
           \A q \in Call : request'[q] = request[q] \/ ~request'[q].retried
    PROVE  Good'
<1>1. MayEnter' /\ OneRefresh'
  BY DEF Good, MayEnter, OneRefresh
<1>2. TokensGood'
  BY DEF Good, TokensGood, Usable
<1>3. RetriedGood'
  BY DEF Good, RetriedGood
<1> QED BY <1>1, <1>2, <1>3 DEF Good

(* The new tokens can be used, and who waited is sent again with them. *)
LEMMA RefreshedGood ==
    ASSUME BrowserOK, ServerOK, Good, NEW q \in Call, Refreshed(q)
    PROVE  Good' /\ storage'.refresh # None
<1>1. /\ UNCHANGED <<user, session, valid>>
      /\ Usable(refresh[q].next) /\ refresh[q].next \in valid
  BY DEF Refreshed, server, Good, TokensGood
<1>2. storage'.refresh = refresh[q].next
  BY DEF Refreshed, BrowserOK, Storage
<1>3. \A p \in Call : refresh'[p].step = "none"
  BY NoneTypes DEF Refreshed, BrowserOK, Good, OneRefresh
<1>4. MayEnter' /\ OneRefresh' /\ TokensGood'
  BY <1>1, <1>2, <1>3 DEF Good, MayEnter, OneRefresh, TokensGood, Usable
<1>5. RetriedGood'
  <2>1. \A p \in Call : request'[p] = request[p] \/ request'[p].access = refresh[q].next
    BY DEF Refreshed, BrowserOK, Request
  <2> QED BY <1>1, <2>1 DEF Good, RetriedGood
<1>6. refresh[q].next # None
  BY <1>1, NoneAssumption DEF ServerOK
<1> QED BY <1>2, <1>4, <1>5, <1>6 DEF Good

(* Nothing stands in the way of the only refresh there is. *)
LEMMA AskedGood ==
    ASSUME BrowserOK, Good, NEW q \in Call, ReadSession(q) \/ RevokeOld(q)
    PROVE  Good'
<1>1. PICK step \in {"read", "rotating"} : To(q, step)
  BY DEF ReadSession, RevokeOld, At, Good, TokensGood
<1>2. /\ refresh[q].step \in {"sent", "read"}
      /\ UNCHANGED <<user, session, valid, storage, request>>
  BY DEF ReadSession, RevokeOld, At, server
<1>3. /\ refresh'[q].step = step /\ refresh'[q].heard = refresh[q].heard
      /\ refresh'[q].token = refresh[q].token
      /\ \A p \in Call \ {q} : refresh'[p] = refresh[p]
  BY <1>1 DEF To, BrowserOK, Refresh
<1>4. MayEnter' /\ OneRefresh' /\ RetriedGood'
  BY <1>2, <1>3 DEF Good, MayEnter, OneRefresh, RetriedGood
<1>5. TokensGood'
  BY <1>2, <1>3 DEF Good, TokensGood, OneRefresh, Usable
<1> QED BY <1>4, <1>5 DEF Good

LEMMA CreatedUsable ==
    ASSUME NEW n \in Token, NEW login \in 1 .. MaxLogins,
           session'[n] = [login |-> login, revoked |-> FALSE, expired |-> FALSE]
    PROVE  Usable(n)'
<1> DEFINE row == [login |-> login, revoked |-> FALSE, expired |-> FALSE]
<1>1. row \in SessionRow
  BY DEF SessionRow
<1>2. row # None
  BY <1>1, NoneAssumption
<1> QED BY <1>2 DEF Usable

(* The row that is written can be used, and only the old one no longer. *)
LEMMA RotateGood ==
    ASSUME BrowserOK, ServerOK, RotatesAlone, Good, NEW q \in Call, Rotate(q)
    PROVE  Good'
<1>1. PICK n \in Token : n = Issued
  BY IssuedIsFree DEF Rotate
<1>2. refresh[q].token # n /\ refresh[q].step = "rotating"
  BY <1>1, IssuedIsFree DEF Rotate, At
<1>3. session[refresh[q].token].login \in 1 .. MaxLogins
  BY <1>2 DEF RotatesAlone, ServerOK, SessionRow
<1>4. session'[n] = [login |-> session[refresh[q].token].login,
                     revoked |-> FALSE, expired |-> FALSE]
  BY <1>1, <1>2 DEF Rotate, CreateRefreshSession, ServerOK
<1>5. Usable(n)' /\ n \in valid'
  BY <1>1, <1>3, <1>4, CreatedUsable DEF Rotate
<1>6. /\ refresh'[q].step = "done" /\ refresh'[q].next = n
      /\ refresh'[q].heard = refresh[q].heard
      /\ \A p \in Call \ {q} : refresh'[p] = refresh[p]
  BY <1>1 DEF Rotate, BrowserOK, Refresh
<1>7. \A p \in Call \ {q} : refresh'[p].step = "none"
  BY <1>2, <1>6 DEF Good, OneRefresh
<1>8. MayEnter' /\ RetriedGood'
  BY DEF Rotate, Good, MayEnter, RetriedGood
<1>9. OneRefresh'
  BY <1>2, <1>6, <1>7 DEF Good, OneRefresh
<1>10. TokensGood'
  BY <1>5, <1>6, <1>7 DEF TokensGood, Usable
<1> QED BY <1>8, <1>9, <1>10 DEF Good

(* A login adds a session that can be used and stores its tokens. *)
LEMMA LoggedInGood ==
    ASSUME BrowserOK, ServerOK, HasToken, Good, NEW t \in Tab, LoggedIn(t)
    PROVE  Good' /\ storage'.refresh # None
<1>1. PICK n \in Token : n = Issued
  BY IssuedIsFree DEF LoggedIn
<1>2. tab[t].loggingIn \in 1 .. MaxLogins
  BY BoundsAssumption DEF LoggedIn, BrowserOK, TabState
<1>3. /\ session'[n] = [login |-> tab[t].loggingIn, revoked |-> FALSE, expired |-> FALSE]
      /\ \A s \in Token \ {n} : session'[s] = session[s]
  BY <1>1 DEF LoggedIn, CreateRefreshSession, ServerOK
<1>4. Usable(n)'
  BY <1>2, <1>3, CreatedUsable
<1>5. \A s \in Token : Usable(s) => Usable(s)'
  BY <1>3, <1>4 DEF Usable
<1>6. MayEnter' /\ OneRefresh' /\ RetriedGood'
  BY DEF LoggedIn, Good, MayEnter, OneRefresh, RetriedGood
<1>7. storage'.refresh = n /\ n # None
  BY <1>1, NoneAssumption DEF LoggedIn
<1>8. TokensGood'
  <2>1. \A q \in Call : refresh[q].step \in {"sent", "read", "rotating"} =>
           refresh[q].token \in Token
    BY DEF HasToken, BrowserOK, Refresh
  <2>2. UNCHANGED refresh /\ valid \subseteq valid' /\ valid \subseteq Token
    BY DEF LoggedIn, ServerOK
  <2>3. \A q \in Call : refresh'[q].step \in {"sent", "read", "rotating"} =>
           Usable(refresh[q].token)'
    BY <1>5, <2>1, <2>2 DEF Good, TokensGood, Usable
  <2>4. \A q \in Call : refresh'[q].step = "done" =>
           Usable(refresh[q].next)' /\ refresh'[q].next \in valid'
    BY <1>5, <2>2 DEF Good, TokensGood, Usable
  <2>5. Usable(storage.refresh)'
    BY <1>4, <1>7 DEF Usable
  <2> QED BY <2>3, <2>4, <2>5 DEF TokensGood
<1> QED BY <1>6, <1>7, <1>8 DEF Good

(* An access token may expire but for one that was just issued. *)
LEMMA ExpireGood ==
    ASSUME Good, NEW n \in Token, ExpireAccess(n)
    PROVE  Good'
<1>1. MayEnter' /\ OneRefresh' /\ RetriedGood'
  BY DEF ExpireAccess, Good, MayEnter, OneRefresh, RetriedGood
<1>2. TokensGood'
  BY DEF ExpireAccess, Good, TokensGood, Usable
<1> QED BY <1>1, <1>2 DEF Good

(* One step of a lone tab, of the API, or from outside: unless trouble comes,
   all is well after it, and only the operator gives the refresh token up. *)
GoneOn ==
    troubles' = 0 =>
        /\ Good'
        /\ storage'.refresh = None => storage.refresh = None \/ \E t \in Open : LogOut(t)

LEMMA HandledGood ==
    ASSUME BrowserOK, ServerOK, RotatesAlone, ClosedIdle, Alone, Good,
           NEW q \in Call, Handled(q)
    PROVE  GoneOn
<1>1. CASE Answer(q)
  <2>1. \A p \in Call : request'[p] = request[p] \/ ~request'[p].retried
    BY <1>1 DEF Answer, NoRequest, BrowserOK
  <2> QED BY <1>1, <2>1, BystanderGood DEF Answer, server, GoneOn
<1>2. CASE Refused(q)
  BY <1>2, RefusedGood DEF GoneOn
<1>3. CASE Refreshed(q)
  BY <1>3, RefreshedGood DEF GoneOn
<1>4. CASE RefreshFailed(q) \/ Unheard(q)
  BY <1>4 DEF RefreshFailed, Unheard, Good, OneRefresh
<1>5. CASE ReadSession(q) \/ RevokeOld(q)
  BY <1>5, AskedGood DEF ReadSession, RevokeOld, GoneOn
<1>6. CASE Rotate(q)
  BY <1>6, RotateGood DEF Rotate, GoneOn
<1> QED BY <1>1, <1>2, <1>3, <1>4, <1>5, <1>6 DEF Handled

LEMMA OperatorGood ==
    ASSUME BrowserOK, ServerOK, HasToken, ClosedIdle, Alone, Good, NEW t \in Tab, Operator(t)
    PROVE  GoneOn
<1>1. CASE LoggedIn(t)
  BY <1>1, LoggedInGood DEF GoneOn
<1>2. CASE Reload(t)
  <2>1. storage \in Storage /\ storage'.refresh = storage.refresh
    BY <1>2 DEF BrowserOK, Storage, Reload, Loaded
  <2>2. CASE \E q \in Call : TabOf(q) = t /\ refresh[q].heard
    BY <1>2, <2>1, <2>2 DEF Reload, Trouble, Alone, GoneOn
  <2>3. CASE \A q \in Call : TabOf(q) = t => ~refresh[q].heard
    <3>1. \A q \in Call : refresh[q].step = "none"
      <4> SUFFICES ASSUME NEW q \in Call, refresh[q].step # "none" PROVE FALSE
        OBVIOUS
      <4>1. TabOf(q) \in Open /\ t \in Open
        BY <1>2, TabOfType DEF ClosedIdle, Open, Reload
      <4> QED BY <2>3, <4>1 DEF Alone, Good, OneRefresh
    <3> QED BY <1>2, <2>1, <3>1, LoadedGood DEF Reload, GoneOn
  <2> QED BY <2>2, <2>3
<1>3. CASE LogIn(t) \/ LogOut(t) \/ Redirect(t)
  <2>1. UNCHANGED <<user, session, valid, request, refresh>>
    BY <1>3 DEF LogIn, LogOut, Redirect, server
  <2>2. storage'.refresh \in {None, storage.refresh}
    BY <1>3 DEF LogIn, LogOut, Redirect, Cleared, BrowserOK, Storage
  <2>3. LogOut(t) => t \in Open
    BY DEF LogOut, Open
  <2>4. storage'.refresh = storage.refresh \/ LogOut(t)
    BY <1>3 DEF LogIn, Redirect, BrowserOK, Storage
  <2> QED BY <2>1, <2>2, <2>3, <2>4, BystanderGood DEF GoneOn
<1> QED BY <1>1, <1>2, <1>3 DEF Operator

LEMMA NextGood ==
    ASSUME Inv, ClosedIdle, Alone, Good, [Next]_vars
    PROVE  GoneOn
<1>1. BrowserOK /\ ServerOK /\ HasToken /\ RotatesAlone
  BY TypeSplit DEF Inv
<1>2. ASSUME NEW q \in Call, Send(q) PROVE GoneOn
  <2>1. \A p \in Call : request'[p] = request[p] \/ ~request'[p].retried
    BY <1>1, <1>2 DEF Send, NoRequest, BrowserOK
  <2> QED BY <1>2, <2>1, BystanderGood DEF Send, server, GoneOn
<1>3. CASE Outside
  <2>1. \A n \in Token : ExpireAccess(n) => UNCHANGED storage
    BY DEF ExpireAccess
  <2>2. Trouble \/ \E n \in Token : ExpireAccess(n)
    BY <1>3 DEF Outside, ResetPassword, SetActive, Lose, EndSession
  <2>3. Trouble => troubles' # 0
    BY DEF Trouble, Alone
  <2> QED BY <2>1, <2>2, <2>3, ExpireGood DEF GoneOn
<1>4. CASE UNCHANGED vars
  BY <1>4, BystanderGood DEF vars, GoneOn
<1> QED BY <1>1, <1>2, <1>3, <1>4, HandledGood, OperatorGood DEF Next

LEMMA TroublesGrow ==
    ASSUME [Next]_vars
    PROVE  troubles' = troubles \/ troubles' = troubles + 1
<1>1. ASSUME NEW q \in Call, Send(q) \/ Handled(q) PROVE UNCHANGED troubles
  BY <1>1 DEF Send, Handled, Answer, Refused, Refreshed, RefreshFailed, Unheard,
              ReadSession, RevokeOld, Rotate, server
<1>2. ASSUME NEW t \in Tab, Operator(t) PROVE UNCHANGED troubles \/ Trouble
  BY <1>2 DEF Operator, LogIn, LoggedIn, LogOut, Reload, Redirect, server
<1>3. Outside => UNCHANGED troubles \/ Trouble
  BY DEF Outside, ResetPassword, SetActive, Lose, EndSession, ExpireAccess
<1> QED BY <1>1, <1>2, <1>3 DEF Next, Trouble, vars

LEMMA SmoothStep ==
    ASSUME Inv, ClosedIdle, Smooth, [Next]_vars
    PROVE  Smooth'
<1> SUFFICES ASSUME Alone' PROVE Good'
  BY DEF Smooth
<1>1. BrowserOK /\ ServerOK /\ Awaited
  BY TypeSplit DEF Inv
<1>2. troubles \in Nat
  BY <1>1, BoundsAssumption DEF ServerOK
<1>3. troubles = 0
  <2>1. troubles' = troubles \/ troubles' = troubles + 1
    BY <1>1, TroublesGrow
  <2> QED BY <1>2, <2>1 DEF Alone
<1>4. Open' = Open
  BY <1>1, IdleStep DEF OpenKept, Open
<1>5. Alone /\ Good
  BY <1>3, <1>4 DEF Alone, Smooth
<1> QED BY <1>5, NextGood DEF GoneOn, Alone

-----------------------------------------------------------------------------
(* The theorems *)

LEMMA InvInit == Init => Inv
<1> SUFFICES ASSUME Init PROVE Inv
  OBVIOUS
<1>1. TypeOK
  <2>1. tab \in [Tab -> TabState]
    BY BoundsAssumption DEF Init, TabState
  <2>2. user \in User
    BY DEF Init, User
  <2> QED BY <2>1, <2>2, NoneTypes, BoundsAssumption DEF Init, TypeOK
<1>2. Awaited /\ HasToken
  BY NoneTypes DEF Init, Awaited, HasToken
<1>3. LoginsApart
  BY DEF Init, LoginsApart
<1>4. RotatesAlone /\ OneSessionPerLogin
  BY NoneTypes DEF Init, RotatesAlone, OneSessionPerLogin, Usable
<1> QED BY <1>1, <1>2, <1>3, <1>4 DEF Inv

LEMMA InvNext == Inv /\ [Next]_vars => Inv'
<1> SUFFICES ASSUME Inv, [Next]_vars PROVE Inv'
  OBVIOUS
<1>1. BrowserOK /\ ServerOK /\ HasToken /\ SessionsApart
  BY TypeSplit DEF Inv, SessionsApart
<1>2. SessionsApart'
  <2>1. ASSUME NEW q \in Call, Send(q) PROVE SessionsApart'
    BY <1>1, <2>1, SameSessions, SameLogins, SameRotations, Bystander DEF Send, server
  <2>2. CASE UNCHANGED vars
    BY <1>1, <2>2, SameSessions, SameLogins, SameRotations, Bystander DEF vars
  <2> QED BY <1>1, <2>1, <2>2, HandledKeeps, OperatorKeeps, OutsideKeeps DEF Next
<1> QED BY <1>1, <1>2, TypeStep, HasTokenStep DEF Inv, SessionsApart

THEOREM InvAlways == Spec => []Inv
BY InvInit, InvNext, PTL DEF Spec

(* Every variable keeps its type, and no request waits for a refresh that is
   over: the interceptor of http-client.ts leaves no waiter behind. *)
THEOREM TypeCorrect == Spec => []TypeOK
<1>1. Inv => TypeOK
  BY DEF Inv
<1> QED BY <1>1, InvAlways, PTL

(* However many refreshes of a token race, in however many tabs, a login never
   has two sessions that can be used: the conditional update of auth.service.ts
   refresh lets one of them rotate. *)
THEOREM RotationIsSingle == Spec => []OneSessionPerLogin
<1>1. Inv => OneSessionPerLogin
  BY DEF Inv
<1> QED BY <1>1, InvAlways, PTL

LEMMA SmoothAlways == Spec => [](Inv /\ ClosedIdle /\ Smooth)
<1>1. Init => ClosedIdle /\ Smooth
  <2> SUFFICES ASSUME Init PROVE ClosedIdle /\ Smooth
    OBVIOUS
  <2>1. \A q \in Call : /\ request[q].step = "none" /\ ~request[q].retried
                        /\ refresh[q].step = "none"
    BY DEF Init, NoRequest, NoRefresh
  <2>2. ClosedIdle
    BY <2>1 DEF Init, ClosedIdle
  <2>3. Good
    BY <2>1 DEF Init, Cleared, Good, MayEnter, OneRefresh, TokensGood, RetriedGood
  <2> QED BY <2>2, <2>3 DEF Smooth
<1>2. Inv /\ ClosedIdle /\ Smooth /\ [Next]_vars => ClosedIdle' /\ Smooth'
  BY IdleStep, SmoothStep, TypeSplit DEF Inv
<1> QED BY <1>1, <1>2, InvAlways, PTL DEF Spec

(* An operator who works in one tab is never signed out by access tokens that
   expire, however many requests are refused, at once or late: if no answer is
   lost and the session is not ended from outside, the refresh token stays
   stored until the operator signs out (http-client.ts refreshPromise). *)
THEOREM StaysSignedInAlways == Spec => StaysSignedIn
<1>1. Inv /\ ClosedIdle /\ Smooth /\ [Next]_vars =>
        [/\ storage.refresh # None /\ storage'.refresh = None
         /\ Cardinality(Open) = 1 /\ troubles' = 0
         => \E t \in Open : LogOut(t)]_vars
  <2> SUFFICES ASSUME Inv, ClosedIdle, Smooth, [Next]_vars,
                      storage.refresh # None, storage'.refresh = None,
                      Cardinality(Open) = 1, troubles' = 0
               PROVE  \E t \in Open : LogOut(t)
    OBVIOUS
  <2>1. IsFiniteSet(Open)
    BY TabAssumption, FS_Subset DEF Open
  <2>2. PICK t : Open = {t}
    BY <2>1, FS_Singleton
  <2>3. t \in Tab
    BY <2>2 DEF Open
  <2>4. troubles \in Nat /\ (troubles' = troubles \/ troubles' = troubles + 1)
    BY TroublesGrow, BoundsAssumption DEF Inv, TypeOK
  <2>5. Alone /\ Good
    BY <2>2, <2>3, <2>4 DEF Alone, Smooth
  <2> QED BY <2>5, NextGood DEF GoneOn
<1> QED BY <1>1, SmoothAlways, PTL DEF Spec, StaysSignedIn

=============================================================================
