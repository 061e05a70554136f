-------------------------- MODULE DashboardSession ---------------------------
(***************************************************************************)
(* Staying signed in to the dashboard (apps/dashboard/src/stores/auth.ts,  *)
(* services/api.ts, components/ProtectedRoute.tsx) against the rotation of *)
(* refresh tokens (backend auth/service.py, repositories/                  *)
(* session_repository.py).  Each browser tab keeps its tokens in memory    *)
(* and writes the refresh token to a storage all tabs share, which is read *)
(* when a page is loaded and at no other time.                             *)
(*                                                                         *)
(* A token is named by its session and its place in the session's          *)
(* rotations.  The browser, the network and the database are external.     *)
(***************************************************************************)
EXTENDS Naturals, FiniteSets

CONSTANTS
    Tabs,
    Exchanges,      \* refreshes under way at one time
    MaxLogins,      \* bound: sessions
    MaxRotations,   \* bound: refresh tokens of one session
    MaxSlips        \* bound: answers mislaid, server errors

ASSUME DashboardSessionAssumption ==
    MaxLogins \in Nat /\ MaxRotations \in Nat /\ MaxSlips \in Nat

VARIABLES
    row,         \* row[s]: the session's row, and how many tokens it had
    logins,      \* sessions 1..logins exist
    remember,    \* "Remember me" was chosen
    storedToken,      \* the refresh token in the shared storage
    tab,         \* tab[t]: its access token and refresh token, in memory
    exchange,    \* exchange[x]: a POST /v1/auth/refresh
    opened,      \* tabs that were ever open
    mislaid,        \* an answer did not reach the page that asked
    left,        \* somebody signed out, or read the storage again beside another tab
    slips

sessionVars ==
    <<row, logins, remember, storedToken, tab, exchange, opened, mislaid, left, slips>>

Sessions == 1..MaxLogins
Token(s, n) == [session |-> s, number |-> n]
NoToken == Token(0, 0)
Idle == [at |-> "idle", tab |-> {}, token |-> NoToken, new |-> NoToken, mount |-> FALSE]

Slip == slips < MaxSlips /\ slips' = slips + 1
-----------------------------------------------------------------------------
DashboardInit ==
    /\ row = [s \in Sessions |-> [active |-> FALSE, number |-> 0, issued |-> 0]]
    /\ logins = 0 /\ remember \in BOOLEAN
    /\ storedToken = NoToken
    /\ tab = [t \in Tabs |-> [access |-> FALSE, token |-> NoToken]]
    /\ exchange = [x \in Exchanges |-> Idle]
    /\ opened = {} /\ mislaid = FALSE /\ left = FALSE /\ slips = 0
-----------------------------------------------------------------------------
(* Mutation: the refresh token is written whatever was chosen.           *)
SetAlways(t, access, token) ==
    /\ tab' = [tab EXCEPT ![t] = [access |-> access, token |-> token]]
    /\ storedToken' = token

(* Mutation: the refresh token is written at login only.                 *)
SetInMemory(t, access, token) ==
    /\ tab' = [tab EXCEPT ![t] = [access |-> access, token |-> token]]
    /\ storedToken' = IF remember /\ token.number <= 1 THEN token ELSE storedToken

(* The store of a tab: persist writes the tab's own refresh token to the   *)
(* storage with every set().                                               *)
Set(t, access, token) ==
    /\ tab' = [tab EXCEPT ![t] = [access |-> access, token |-> token]]
    /\ storedToken' = IF remember THEN token ELSE NoToken

ClearAuth(t) == Set(t, FALSE, NoToken)

(* updateUser and other writes of the store                                *)
WriteStore(t) ==
    /\ tab[t].access
    /\ Set(t, TRUE, tab[t].token)
    /\ UNCHANGED <<row, logins, remember, exchange, opened, mislaid, left, slips>>

(* The login form, or the website's handoff                                *)
LoginIn(t) ==
    /\ t \in opened /\ ~tab[t].access
    /\ logins < MaxLogins
    /\ logins' = logins + 1
    /\ row' = [row EXCEPT ![logins + 1] = [active |-> TRUE, number |-> 1, issued |-> 1]]
    /\ Set(t, TRUE, Token(logins + 1, 1))
    /\ UNCHANGED <<remember, exchange, opened, mislaid, left, slips>>

(* handleSignOut: the session itself is not told.                          *)
SignOut(t) ==
    /\ tab[t].access
    /\ ClearAuth(t)
    /\ left' = TRUE
    /\ UNCHANGED <<row, logins, remember, exchange, opened, mislaid, slips>>
-----------------------------------------------------------------------------
(* refreshAccessToken and ProtectedRoute's silent refresh                  *)

Refreshing(t) == \E x \in Exchanges : exchange[x].tab = {t}

(* Mutation: every 401 refreshes for itself.                             *)
NoneInFlight(t) == TRUE

(* One promise is shared by all requests of the tab.                       *)
MayRefresh(t) == ~Refreshing(t)

SendRefresh(t, x, token, mount) ==
    /\ exchange[x] = Idle
    /\ exchange' = [exchange EXCEPT ![x] = [Idle EXCEPT !.at = "sent", !.tab = {t},
                                                        !.token = token, !.mount = mount]]

(* The access token has expired: a request was answered 401.               *)
RefreshOn401(t, x) ==
    /\ tab[t].access /\ tab[t].token # NoToken
    /\ MayRefresh(t)
    /\ SendRefresh(t, x, tab[t].token, FALSE)
    /\ UNCHANGED <<row, logins, remember, storedToken, tab, opened, mislaid, left, slips>>

(* A page is loaded; what its tab was waiting for never arrives, though    *)
(* the server may still do it.                                             *)
LoadPage(t) ==
    /\ tab' = [tab EXCEPT ![t] = [access |-> FALSE, token |-> storedToken]]
    /\ mislaid' = (mislaid \/ Refreshing(t))
    /\ opened' = opened \cup {t}
    /\ left' = (left \/ (t \in opened /\ (~remember \/ opened # {t})))
    /\ UNCHANGED <<row, logins, remember, storedToken, slips>>

Abandoned(t) == [x \in Exchanges |->
    IF exchange[x].tab # {t} THEN exchange[x]
    ELSE IF exchange[x].at \in {"sent", "found"} THEN [exchange[x] EXCEPT !.tab = {}]
    ELSE Idle]

OpenSignedOut(t) ==
    /\ storedToken = NoToken
    /\ LoadPage(t)
    /\ exchange' = Abandoned(t)

OpenAndRefresh(t, x) ==
    /\ storedToken # NoToken
    /\ LoadPage(t)
    /\ exchange[x] = Idle
    /\ exchange' = [Abandoned(t) EXCEPT ![x] = [Idle EXCEPT !.at = "sent", !.tab = {t},
                                                            !.token = storedToken, !.mount = TRUE]]
-----------------------------------------------------------------------------
(* AuthService.refresh                                                     *)

IsPresent(token) ==
    token # NoToken /\ row[token.session].active /\ row[token.session].number = token.number

RefreshAnswered(x, at, new) ==
    exchange' = [exchange EXCEPT ![x] = IF exchange[x].tab = {} /\ at # "found" THEN Idle
                                        ELSE [exchange[x] EXCEPT !.at = at, !.new = new]]

(* get_active_by_token_hash                                                *)
FindSession(x) ==
    /\ exchange[x].at = "sent"
    /\ RefreshAnswered(x, IF IsPresent(exchange[x].token) THEN "found" ELSE "refused", NoToken)
    /\ UNCHANGED <<row, logins, remember, storedToken, tab, opened, mislaid, left, slips>>

(* rotate(), by the session's id: whoever is last decides.                 *)
Rotate(x) ==
    LET s == exchange[x].token.session  n == row[s].issued + 1 IN
    /\ exchange[x].at = "found"
    /\ n <= MaxRotations
    /\ row' = [row EXCEPT ![s].number = n, ![s].issued = n]
    /\ RefreshAnswered(x, "ok", Token(s, n))
    /\ UNCHANGED <<logins, remember, storedToken, tab, opened, mislaid, left, slips>>

(* An error of the server, which undoes the rotation, is as good as a      *)
(* refusal to both callers.                                                *)
RefreshFails(x) ==
    /\ Slip
    /\ exchange[x].at \in {"sent", "found"}
    /\ RefreshAnswered(x, "refused", NoToken)
    /\ UNCHANGED <<row, logins, remember, storedToken, tab, opened, mislaid, left>>

(* The network, or the timeout of 10 seconds                               *)
AnswerLost(x) ==
    /\ Slip
    /\ exchange[x].tab # {} /\ exchange[x].at \in {"sent", "ok", "refused"}
    /\ mislaid' = TRUE
    /\ RefreshAnswered(x, "mislaid", NoToken)
    /\ UNCHANGED <<row, logins, remember, storedToken, tab, opened, left>>

Receive(x) ==
    /\ exchange[x].tab # {}
    /\ exchange' = [exchange EXCEPT ![x] = Idle]
    /\ UNCHANGED <<row, logins, remember, opened, mislaid, left, slips>>

(* setLogin, whatever the store holds by now                               *)
Refreshed(x) ==
    /\ exchange[x].at = "ok"
    /\ Receive(x)
    /\ \A t \in exchange[x].tab : Set(t, TRUE, exchange[x].new)

Refused(x) ==
    /\ exchange[x].at = "refused"
    /\ Receive(x)
    /\ \A t \in exchange[x].tab : ClearAuth(t)

(* A page load gives up; a request keeps the tokens it had.                *)
Unanswered(x) ==
    /\ exchange[x].at = "mislaid"
    /\ Receive(x)
    /\ IF exchange[x].mount THEN \A t \in exchange[x].tab : ClearAuth(t)
                            ELSE UNCHANGED <<tab, storedToken>>

(* The session ends elsewhere: a new password, 30 days                     *)
EndSession(s) ==
    /\ row[s].active
    /\ row' = [row EXCEPT ![s].active = FALSE]
    /\ UNCHANGED <<logins, remember, storedToken, tab, exchange, opened, mislaid, left, slips>>
-----------------------------------------------------------------------------
DashboardNext ==
    \/ \E t \in Tabs :
          \/ WriteStore(t) \/ LoginIn(t) \/ SignOut(t) \/ OpenSignedOut(t)
          \/ \E x \in Exchanges : RefreshOn401(t, x) \/ OpenAndRefresh(t, x)
    \/ \E x \in Exchanges :
          \/ FindSession(x) \/ Rotate(x) \/ RefreshFails(x) \/ AnswerLost(x)
          \/ Refreshed(x) \/ Refused(x) \/ Unanswered(x)
    \/ \E s \in Sessions : EndSession(s)

DashboardSpec == DashboardInit /\ [][DashboardNext]_sessionVars
-----------------------------------------------------------------------------
Tokens == [session : 0..MaxLogins, number : 0..MaxRotations]

DashboardTypeOK ==
    /\ row \in [Sessions -> [active : BOOLEAN, number : 0..MaxRotations, issued : 0..MaxRotations]]
    /\ logins \in 0..MaxLogins /\ slips \in 0..MaxSlips
    /\ storedToken \in Tokens /\ (~remember => storedToken = NoToken)
    /\ \A t \in Tabs : tab[t].token \in Tokens /\ tab[t].access \in BOOLEAN
    /\ \A x \in Exchanges :
          exchange[x].at \in {"idle", "sent", "found", "ok", "refused", "mislaid"}
    /\ {mislaid, left} \subseteq BOOLEAN

(* "The session survives page reloads" (stores/auth.ts): in a browser with *)
(* one tab, however requests, expiries and reloads interleave, the token   *)
(* it would refresh with next is the session's present one, unless an      *)
(* answer was mislaid (by the network or a reload) or the session ended.   *)
OneTabKeepsSession ==
    Cardinality(opened) <= 1 /\ ~mislaid =>
        \A t \in opened :
            tab[t].token # NoToken /\ ~Refreshing(t) /\ row[tab[t].token.session].active
                => IsPresent(tab[t].token)

(* With several tabs a tab that comes late is signed out, but one of them  *)
(* keeps the session: its present token is in a tab or on its way to one,  *)
(* as long as nobody signs out or in again, no answer is mislaid and no    *)
(* page reads again the storage that the signed-out tab cleared.           *)
SomeTabKeepsSession ==
    logins = 1 /\ row[1].active /\ ~mislaid /\ ~left /\ slips = 0 =>
        \/ \E t \in Tabs : IsPresent(tab[t].token)
        \/ \E x \in Exchanges : IsPresent(exchange[x].new) \/ IsPresent(exchange[x].token)

(* stores/auth.ts and the refresh endpoint: the tabs of a browser do not   *)
(* lose a session that nobody ended.                                       *)
SessionIsKept == OneTabKeepsSession /\ SomeTabKeepsSession
=============================================================================
