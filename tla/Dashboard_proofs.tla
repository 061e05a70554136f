-------------------------- MODULE Dashboard_proofs ---------------------------
(***************************************************************************)
(* The dashboard: its tabs do not lose a session nobody ended, whatever    *)
(* refreshes, sign-outs and lost answers cross; what a live view shows     *)
(* came from its own organization's stream; and the totals and breakdowns  *)
(* of an answer add up to what was spent.                                  *)
(***************************************************************************)
EXTENDS DashboardSession, DashboardLive, DashboardReads, SumLemmas, FiniteSetTheorems, SequenceTheorems, TLAPS


-----------------------------------------------------------------------------
(* Staying signed in.  A token somebody holds was issued, and is at most   *)
(* the present one of its session; a tab has one exchange at a time, and   *)
(* one whose tab gave it up is a mislaid answer.                           *)

Held == [session : Nat, number : Nat]
Exchanged == [at : {"idle", "sent", "found", "ok", "refused", "mislaid"}, tab : SUBSET Tabs,
              token : Held, new : Held, mount : BOOLEAN]

SessionTypes ==
    /\ row \in [Sessions -> [active : BOOLEAN, number : Nat, issued : Nat]]
    /\ logins \in 0..MaxLogins /\ slips \in Nat /\ mislaid \in BOOLEAN /\ left \in BOOLEAN
    /\ remember \in BOOLEAN /\ storedToken \in Held
    /\ tab \in [Tabs -> [access : BOOLEAN, token : Held]]
    /\ exchange \in [Exchanges -> Exchanged]
    /\ opened \subseteq Tabs /\ IsFiniteSet(opened)

Issued(k) == k = NoToken \/ (k.session \in 1..logins /\ k.number <= row[k.session].number)

(* Not of a session that goes on with another token.                       *)
Current(k) == row[k.session].active => row[k.session].number = k.number

TokensIssued ==
    /\ \A s \in Sessions : row[s].number = row[s].issued
    /\ Issued(storedToken) /\ \A t \in Tabs : Issued(tab[t].token)
    /\ \A x \in Exchanges : Issued(exchange[x].token) /\ Issued(exchange[x].new)

(* The storage of a browser with one tab is that tab's.                    *)
StorageFollows ==
    /\ \A t \in Tabs \ opened : ~tab[t].access /\ tab[t].token = NoToken
    /\ opened = {} => storedToken = NoToken
    /\ \A t \in Tabs : opened = {t} => storedToken = IF remember THEN tab[t].token ELSE NoToken

ExchangeOK(e, gaveUp, clean) ==
    \/ e = Idle
    \/ /\ e.at # "idle" /\ e.token # NoToken
       /\ (e.tab = {} /\ gaveUp) \/ \E t \in opened : e.tab = {t}
       /\ IF e.at = "ok"
          THEN e.new # NoToken /\ e.new.session = e.token.session /\ e.token.number < e.new.number
          ELSE e.new = NoToken
       /\ e.at = "mislaid" => gaveUp
       /\ e.at = "refused" /\ clean => ~IsPresent(e.token)

OnePerTab ==
    \A x, y \in Exchanges, t \in Tabs : exchange[x].tab = {t} /\ exchange[y].tab = {t} => x = y

(* Until somebody signs out or in again, a tab refreshes what it holds.    *)
RefreshesOwn ==
    logins <= 1 /\ ~left /\ ~mislaid =>
        \A x \in Exchanges, t \in Tabs : exchange[x].tab = {t} => tab[t].token = exchange[x].token

(* The one tab of a browser holds a current token or is about to.          *)
OneTabCurrent ==
    \A t \in Tabs : opened = {t} /\ ~mislaid =>
        /\ ~Refreshing(t) /\ tab[t].token # NoToken => Current(tab[t].token)
        /\ \A x \in Exchanges : exchange[x].tab = {t} =>
              /\ exchange[x].at \in {"sent", "found"} => Current(exchange[x].token)
              /\ exchange[x].at = "ok" => Current(exchange[x].new)

SessionInv ==
    /\ SessionTypes /\ TokensIssued /\ StorageFollows
    /\ \A x \in Exchanges : ExchangeOK(exchange[x], mislaid, slips = 0)
    /\ OnePerTab /\ RefreshesOwn /\ OneTabCurrent /\ SomeTabKeepsSession

LEMMA TokenFacts ==
    /\ NoToken \in Held /\ NoToken.session = 0 /\ NoToken.number = 0
    /\ \A s, n \in Nat : Token(s, n) \in Held /\ Token(s, n).session = s /\ Token(s, n).number = n
    /\ \A s \in Nat \ {0}, n \in Nat : Token(s, n) # NoToken
    /\ Idle \in Exchanged /\ Idle.at = "idle" /\ Idle.tab = {} /\ Idle.token = NoToken /\ Idle.new = NoToken
<1>1. \A s, n \in Nat : Token(s, n) \in Held /\ Token(s, n).session = s /\ Token(s, n).number = n
    BY DEF Token, Held
<1>2. NoToken \in Held /\ NoToken.session = 0 /\ NoToken.number = 0
    BY DEF NoToken, Token, Held
<1>3. \A s \in Nat \ {0}, n \in Nat : Token(s, n) # NoToken
    BY <1>1, <1>2
<1>4. Idle \in Exchanged /\ Idle.at = "idle" /\ Idle.tab = {} /\ Idle.token = NoToken /\ Idle.new = NoToken
    BY <1>2 DEF Idle, Exchanged
<1> QED BY <1>1, <1>2, <1>3, <1>4

LEMMA SessionFacts ==
    ASSUME SessionTypes
    PROVE  /\ \A t \in Tabs : tab[t].token \in Held /\ tab[t].access \in BOOLEAN
           /\ \A x \in Exchanges : exchange[x] \in Exchanged /\ exchange[x].token \in Held /\ exchange[x].new \in Held
           /\ \A k \in Held : k.session \in Nat /\ k.number \in Nat
           /\ 1..logins \subseteq Sessions /\ logins \in Nat
BY DashboardSessionAssumption DEF SessionTypes, Exchanged, Held, Sessions, DashboardSessionAssumption

LEMMA SessionInvInit == DashboardInit => SessionInv
<1> SUFFICES ASSUME DashboardInit PROVE SessionInv
    OBVIOUS
<1>1. SessionTypes
    <2>1. opened \subseteq Tabs /\ IsFiniteSet(opened)
        BY FS_EmptySet DEF DashboardInit
    <2>2. row \in [Sessions -> [active : BOOLEAN, number : Nat, issued : Nat]]
        BY DEF DashboardInit
    <2>3. tab \in [Tabs -> [access : BOOLEAN, token : Held]] /\ exchange \in [Exchanges -> Exchanged]
        BY TokenFacts DEF DashboardInit
    <2>4. logins \in 0..MaxLogins /\ slips \in Nat
        BY DashboardSessionAssumption DEF DashboardInit, DashboardSessionAssumption
    <2>5. mislaid \in BOOLEAN /\ left \in BOOLEAN /\ remember \in BOOLEAN /\ storedToken \in Held
        BY TokenFacts DEF DashboardInit
    <2> QED BY <2>1, <2>2, <2>3, <2>4, <2>5 DEF SessionTypes
<1>2. TokensIssued
    BY TokenFacts DEF DashboardInit, TokensIssued, Issued
<1>3. StorageFollows
    BY DEF DashboardInit, StorageFollows
<1>4. \A x \in Exchanges : ExchangeOK(exchange[x], mislaid, slips = 0)
    BY DEF DashboardInit, ExchangeOK
<1>5. OnePerTab /\ RefreshesOwn /\ OneTabCurrent
    BY TokenFacts DEF DashboardInit, OnePerTab, RefreshesOwn, OneTabCurrent
<1>6. SomeTabKeepsSession
    BY DEF DashboardInit, SomeTabKeepsSession
<1> QED BY <1>1, <1>2, <1>3, <1>4, <1>5, <1>6 DEF SessionInv

LEMMA EndSessionKeepsInv ==
    ASSUME SessionInv, NEW s \in Sessions, EndSession(s) PROVE SessionInv'
<1>1. /\ row \in [Sessions -> [active : BOOLEAN, number : Nat, issued : Nat]]
      /\ row' = [row EXCEPT ![s].active = FALSE]
      /\ UNCHANGED <<logins, remember, storedToken, tab, exchange, opened, mislaid, left, slips>>
    BY DEF EndSession, SessionInv, SessionTypes
<1>2. /\ row' \in [Sessions -> [active : BOOLEAN, number : Nat, issued : Nat]]
      /\ \A u \in Sessions : row'[u].number = row[u].number /\ row'[u].issued = row[u].issued
                             /\ (row'[u].active => row[u].active)
    BY <1>1
<1>3. SessionTypes'
    BY <1>1, <1>2 DEF SessionInv, SessionTypes
<1>4. \A k : k # NoToken /\ Issued(k) => k.session \in Sessions
    BY SessionFacts DEF SessionInv, Issued
<1>5. TokensIssued'
    BY <1>1, <1>2, <1>4 DEF SessionInv, TokensIssued, Issued
<1>6. \A x \in Exchanges : ExchangeOK(exchange[x], mislaid, slips = 0)'
    <2>1. ASSUME NEW x \in Exchanges PROVE ExchangeOK(exchange[x], mislaid, slips = 0)'
        <3>1. exchange[x].token # NoToken => exchange[x].token.session \in Sessions
            BY <1>4 DEF SessionInv, TokensIssued
        <3> QED BY <1>1, <1>2, <3>1 DEF SessionInv, ExchangeOK, IsPresent
    <2> QED BY <2>1
<1>7. StorageFollows' /\ OnePerTab' /\ RefreshesOwn'
    BY <1>1 DEF SessionInv, StorageFollows, OnePerTab, RefreshesOwn
<1>8. OneTabCurrent'
    <2>1. ASSUME NEW k, k # NoToken, Issued(k), Current(k)
          PROVE  row'[k.session].active => row'[k.session].number = k.number
        BY <1>2, <1>4, <2>1 DEF Current
    <2>2. ASSUME NEW x \in Exchanges, exchange[x].tab # {}
          PROVE  exchange[x].token # NoToken /\ (exchange[x].at = "ok" => exchange[x].new # NoToken)
        BY <2>2, TokenFacts DEF SessionInv, ExchangeOK
    <2>3. SUFFICES ASSUME NEW t \in Tabs, opened = {t}, ~mislaid
                   PROVE  /\ ~Refreshing(t) /\ tab[t].token # NoToken => Current(tab[t].token)'
                          /\ \A x \in Exchanges : exchange[x].tab = {t} =>
                                /\ exchange[x].at \in {"sent", "found"} => Current(exchange[x].token)'
                                /\ exchange[x].at = "ok" => Current(exchange[x].new)'
        BY <1>1 DEF OneTabCurrent, Refreshing
    <2>4. ~Refreshing(t) /\ tab[t].token # NoToken => Current(tab[t].token)'
        BY <1>1, <2>1, <2>3 DEF SessionInv, OneTabCurrent, TokensIssued, Current
    <2>5. ASSUME NEW x \in Exchanges, exchange[x].tab = {t}
          PROVE  /\ exchange[x].at \in {"sent", "found"} => Current(exchange[x].token)'
                 /\ exchange[x].at = "ok" => Current(exchange[x].new)'
        <3>1. /\ exchange[x].token # NoToken /\ (exchange[x].at = "ok" => exchange[x].new # NoToken)
              /\ Issued(exchange[x].token) /\ Issued(exchange[x].new)
            BY <2>2, <2>5 DEF SessionInv, TokensIssued
        <3>2. /\ exchange[x].at \in {"sent", "found"} => Current(exchange[x].token)
              /\ exchange[x].at = "ok" => Current(exchange[x].new)
            BY <2>3, <2>5 DEF SessionInv, OneTabCurrent
        <3> QED BY <1>1, <2>1, <3>1, <3>2 DEF Current
    <2> QED BY <2>4, <2>5
<1>9. SomeTabKeepsSession'
    <2>1. ASSUME logins = 1, row'[1].active, NEW k, Issued(k), IsPresent(k)
          PROVE  k # NoToken /\ row'[k.session].active /\ row'[k.session].number = k.number
        <3>1. k # NoToken /\ k.session = 1 /\ k.session \in Sessions
            BY <1>4, <2>1 DEF Issued, IsPresent
        <3> QED BY <1>2, <2>1, <3>1 DEF IsPresent
    <2>2. SUFFICES ASSUME logins = 1, row'[1].active, ~mislaid, ~left, slips = 0
                   PROVE  \/ \E t \in Tabs : IsPresent(tab[t].token)'
                          \/ \E x \in Exchanges : IsPresent(exchange[x].new)' \/ IsPresent(exchange[x].token)'
        BY <1>1 DEF SomeTabKeepsSession
    <2>3. 1 \in Sessions
        BY <2>2, SessionFacts DEF SessionInv
    <2>4. \/ \E t \in Tabs : IsPresent(tab[t].token)
          \/ \E x \in Exchanges : IsPresent(exchange[x].new) \/ IsPresent(exchange[x].token)
        BY <1>2, <2>2, <2>3 DEF SessionInv, SomeTabKeepsSession
    <2>5. ASSUME NEW t \in Tabs, IsPresent(tab[t].token) PROVE IsPresent(tab[t].token)'
        BY <1>1, <2>1, <2>2, <2>5 DEF SessionInv, TokensIssued, IsPresent
    <2>6. ASSUME NEW x \in Exchanges, IsPresent(exchange[x].new) PROVE IsPresent(exchange[x].new)'
        BY <1>1, <2>1, <2>2, <2>6 DEF SessionInv, TokensIssued, IsPresent
    <2>7. ASSUME NEW x \in Exchanges, IsPresent(exchange[x].token) PROVE IsPresent(exchange[x].token)'
        BY <1>1, <2>1, <2>2, <2>7 DEF SessionInv, TokensIssued, IsPresent
    <2> QED BY <2>4, <2>5, <2>6, <2>7
<1> QED BY <1>3, <1>5, <1>6, <1>7, <1>8, <1>9 DEF SessionInv

(* A tab's store is written, and so is the storage.                        *)
LEMMA SetIs ==
    ASSUME SessionInv, NEW t \in Tabs, NEW a \in BOOLEAN, NEW k \in Held, Set(t, a, k), t \in opened,
           UNCHANGED <<opened, remember>>
    PROVE  /\ tab' \in [Tabs -> [access : BOOLEAN, token : Held]] /\ tab'[t].token = k
           /\ \A u \in Tabs \ {t} : tab'[u] = tab[u]
           /\ storedToken' \in {k, NoToken} /\ StorageFollows'
<1>1. tab' = [tab EXCEPT ![t] = [access |-> a, token |-> k]] /\ storedToken' = IF remember THEN k ELSE NoToken
    BY DEF Set
<1>2. tab \in [Tabs -> [access : BOOLEAN, token : Held]]
    BY DEF SessionInv, SessionTypes
<1>3. /\ tab' \in [Tabs -> [access : BOOLEAN, token : Held]] /\ tab'[t].token = k
      /\ \A u \in Tabs \ {t} : tab'[u] = tab[u]
    BY <1>1, <1>2
<1>4. StorageFollows'
    BY <1>1, <1>3 DEF SessionInv, StorageFollows
<1> QED BY <1>1, <1>3, <1>4

(* Nothing changes but a tab that says again what it has.                  *)
LEMMA WriteStoreKeepsInv ==
    ASSUME SessionInv, NEW t \in Tabs, WriteStore(t) PROVE SessionInv'
<1>1. /\ Set(t, TRUE, tab[t].token) /\ tab[t].access
      /\ UNCHANGED <<row, logins, remember, exchange, opened, mislaid, left, slips>>
    BY DEF WriteStore
<1>2. t \in opened /\ tab[t].token \in Held
    BY <1>1, SessionFacts DEF SessionInv, StorageFollows
<1>3. /\ tab' \in [Tabs -> [access : BOOLEAN, token : Held]]
      /\ \A u \in Tabs : tab'[u].token = tab[u].token
      /\ storedToken' \in {tab[t].token, NoToken} /\ StorageFollows'
    BY <1>1, <1>2, SetIs
<1>4. SessionTypes'
    BY <1>1, <1>2, <1>3, TokenFacts DEF SessionInv, SessionTypes
<1>5. TokensIssued'
    BY <1>1, <1>3 DEF SessionInv, TokensIssued, Issued
<1>6. \A x \in Exchanges : ExchangeOK(exchange[x], mislaid, slips = 0)'
    BY <1>1 DEF SessionInv, ExchangeOK, IsPresent
<1>7. OnePerTab' /\ RefreshesOwn' /\ OneTabCurrent'
    BY <1>1, <1>3, ZenonT(60) DEF SessionInv, OnePerTab, RefreshesOwn, OneTabCurrent, Refreshing, Current
<1>8. SomeTabKeepsSession'
    BY <1>1, <1>3 DEF SessionInv, SomeTabKeepsSession, IsPresent
<1> QED BY <1>3, <1>4, <1>5, <1>6, <1>7, <1>8 DEF SessionInv

LEMMA SignOutKeepsInv ==
    ASSUME SessionInv, NEW t \in Tabs, SignOut(t) PROVE SessionInv'
<1>1. /\ Set(t, FALSE, NoToken) /\ tab[t].access /\ left' = TRUE
      /\ UNCHANGED <<row, logins, remember, exchange, opened, mislaid, slips>>
    BY DEF SignOut, ClearAuth
<1>2. t \in opened
    BY <1>1 DEF SessionInv, StorageFollows
<1>3. /\ tab' \in [Tabs -> [access : BOOLEAN, token : Held]] /\ tab'[t].token = NoToken
      /\ \A u \in Tabs \ {t} : tab'[u] = tab[u]
      /\ storedToken' = NoToken /\ StorageFollows'
    BY <1>1, <1>2, SetIs, TokenFacts
<1>4. SessionTypes'
    BY <1>1, <1>2, <1>3, TokenFacts DEF SessionInv, SessionTypes
<1>5. TokensIssued'
    BY <1>1, <1>3 DEF SessionInv, TokensIssued, Issued
<1>6. \A x \in Exchanges : ExchangeOK(exchange[x], mislaid, slips = 0)'
    BY <1>1 DEF SessionInv, ExchangeOK, IsPresent
<1>7. OnePerTab' /\ RefreshesOwn'
    BY <1>1, <1>3 DEF SessionInv, OnePerTab, RefreshesOwn
<1>8. OneTabCurrent'
    BY <1>1, <1>2, <1>3 DEF SessionInv, OneTabCurrent, Refreshing, Current
<1>9. SomeTabKeepsSession'
    BY <1>1 DEF SomeTabKeepsSession
<1> QED BY <1>3, <1>4, <1>5, <1>6, <1>7, <1>8, <1>9 DEF SessionInv

LEMMA LoginKeepsInv ==
    ASSUME SessionInv, NEW t \in Tabs, LoginIn(t) PROVE SessionInv'
<1> DEFINE s == logins + 1  k == Token(s, 1)
<1>1. /\ t \in opened /\ logins < MaxLogins /\ logins' = s
      /\ row' = [row EXCEPT ![s] = [active |-> TRUE, number |-> 1, issued |-> 1]]
      /\ Set(t, TRUE, k) /\ UNCHANGED <<remember, exchange, opened, mislaid, left, slips>>
    BY DEF LoginIn
<1>2. logins \in Nat /\ MaxLogins \in Nat /\ s \in Nat /\ s # 0 /\ s \in Sessions
    BY <1>1, SessionFacts, DashboardSessionAssumption DEF SessionInv, DashboardSessionAssumption, Sessions
<1>3. k \in Held /\ k.session = s /\ k.number = 1 /\ k # NoToken
    BY <1>2, TokenFacts
<1> HIDE DEF k
<1>4. /\ tab' \in [Tabs -> [access : BOOLEAN, token : Held]] /\ tab'[t].token = k
      /\ \A u \in Tabs \ {t} : tab'[u] = tab[u]
      /\ storedToken' \in {k, NoToken} /\ StorageFollows'
    BY <1>1, <1>3, SetIs
<1>5. /\ row' \in [Sessions -> [active : BOOLEAN, number : Nat, issued : Nat]]
      /\ row'[s].active /\ row'[s].number = 1 /\ row'[s].issued = 1
      /\ \A u \in Sessions \ {s} : row'[u] = row[u]
    BY <1>1, <1>2 DEF SessionInv, SessionTypes
<1>6. \A j : j # NoToken /\ Issued(j) => j.session \in Sessions \ {s} /\ j.session \in 1..logins /\ 1 <= logins
    BY <1>2, SessionFacts DEF SessionInv, Issued
<1>7. SessionTypes'
    <2>1. logins' \in 0..MaxLogins
        BY <1>1, <1>2
    <2>2. storedToken' \in Held
        BY <1>3, <1>4, TokenFacts
    <2> QED BY <1>1, <1>4, <1>5, <2>1, <2>2 DEF SessionInv, SessionTypes
<1>8. ASSUME NEW j, Issued(j) PROVE Issued(j)'
    BY <1>1, <1>2, <1>5, <1>6, <1>8 DEF Issued
<1>9. k.session \in 1..logins' /\ k.number <= row'[k.session].number
    BY <1>1, <1>2, <1>3, <1>5
<1>10. TokensIssued'
    <2>1. \A u \in Sessions : row'[u].number = row'[u].issued
        BY <1>5 DEF SessionInv, TokensIssued
    <2>2. Issued(storedToken)'
        BY <1>4, <1>9 DEF Issued
    <2>3. ASSUME NEW u \in Tabs PROVE Issued(tab[u].token)'
        <3>1. CASE u = t
            BY <1>4, <1>9, <3>1 DEF Issued
        <3>2. CASE u # t
            BY <1>1, <1>2, <1>4, <1>5, <1>6, <3>2 DEF SessionInv, TokensIssued, Issued
        <3> QED BY <3>1, <3>2
    <2>4. \A x \in Exchanges : Issued(exchange[x].token)' /\ Issued(exchange[x].new)'
        BY <1>1, <1>2, <1>5, <1>6 DEF SessionInv, TokensIssued, Issued
    <2> QED BY <2>1, <2>2, <2>3, <2>4 DEF TokensIssued
<1>11. ASSUME NEW x \in Exchanges PROVE ExchangeOK(exchange[x], mislaid, slips = 0)'
    <2>1. exchange[x].token # NoToken => exchange[x].token.session \in Sessions \ {s}
        BY <1>6 DEF SessionInv, TokensIssued
    <2> QED BY <1>1, <1>5, <2>1 DEF SessionInv, ExchangeOK, IsPresent
<1>12. OnePerTab'
    BY <1>1 DEF SessionInv, OnePerTab
<1>13. ASSUME NEW x \in Exchanges, exchange[x].tab # {}
       PROVE  exchange[x].token # NoToken /\ (exchange[x].at = "ok" => exchange[x].new # NoToken) /\ 1 <= logins
    <2>1. exchange[x].token # NoToken /\ (exchange[x].at = "ok" => exchange[x].new # NoToken)
        BY <1>13, TokenFacts DEF SessionInv, ExchangeOK
    <2> QED BY <1>6, <2>1 DEF SessionInv, TokensIssued
<1>14. RefreshesOwn'
    <2>1. logins' <= 1 => \A x \in Exchanges, u \in Tabs : exchange[x].tab # {u}
        BY <1>1, <1>2, <1>13
    <2> QED BY <1>1, <2>1 DEF RefreshesOwn
<1>15. OneTabCurrent'
    <2>1. ASSUME NEW u \in Tabs, opened = {u}, ~mislaid
          PROVE  /\ u = t
                 /\ \A x \in Exchanges : exchange[x].tab = {u} =>
                       /\ exchange[x].at \in {"sent", "found"} => Current(exchange[x].token)'
                       /\ exchange[x].at = "ok" => Current(exchange[x].new)'
        <3>1. u = t
            BY <1>1, <2>1
        <3>2. ASSUME NEW x \in Exchanges, exchange[x].tab = {u}
              PROVE  /\ exchange[x].at \in {"sent", "found"} => Current(exchange[x].token)'
                     /\ exchange[x].at = "ok" => Current(exchange[x].new)'
            <4>1. /\ exchange[x].token # NoToken /\ (exchange[x].at = "ok" => exchange[x].new # NoToken)
                  /\ Issued(exchange[x].token) /\ Issued(exchange[x].new)
                BY <1>13, <3>2 DEF SessionInv, TokensIssued
            <4>2. /\ exchange[x].at \in {"sent", "found"} => Current(exchange[x].token)
                  /\ exchange[x].at = "ok" => Current(exchange[x].new)
                BY <2>1, <3>2 DEF SessionInv, OneTabCurrent
            <4> QED BY <1>1, <1>5, <1>6, <4>1, <4>2 DEF Current
        <3> QED BY <3>1, <3>2
    <2>2. Current(tab[t].token)'
        BY <1>3, <1>4, <1>5 DEF Current
    <2> QED BY <1>1, <2>1, <2>2 DEF OneTabCurrent
<1>16. SomeTabKeepsSession'
    <2>1. logins' = 1 => IsPresent(tab[t].token)'
        BY <1>1, <1>3, <1>4, <1>5 DEF IsPresent
    <2> QED BY <2>1 DEF SomeTabKeepsSession
<1> QED BY <1>4, <1>7, <1>10, <1>11, <1>12, <1>14, <1>15, <1>16 DEF SessionInv

(* One exchange moves on.                                                  *)
LEMMA ExchangeStep ==
    ASSUME SessionInv, NEW x \in Exchanges, NEW e \in Exchanged, exchange' = [exchange EXCEPT ![x] = e],
           UNCHANGED <<row, logins, remember, storedToken, tab, opened, left>>,
           slips' \in Nat, slips' = 0 => slips = 0, mislaid' \in BOOLEAN, mislaid => mislaid',
           Issued(e.token), Issued(e.new), ExchangeOK(e, mislaid', slips' = 0),
           \A t \in Tabs : e.tab = {t} => exchange[x].tab = {t} \/ ~Refreshing(t),
           \A t \in Tabs : e.tab = {t} /\ ~mislaid' /\ logins <= 1 /\ ~left => tab[t].token = e.token,
           \A t \in Tabs : opened = {t} /\ ~mislaid' =>
              /\ exchange[x].tab = {t} => e.tab = {t}
              /\ e.tab = {t} => /\ e.at \in {"sent", "found"} => Current(e.token)
                                /\ e.at = "ok" => Current(e.new),
           ~mislaid' /\ slips' = 0 /\ (IsPresent(exchange[x].token) \/ IsPresent(exchange[x].new))
              => IsPresent(e.token) \/ IsPresent(e.new)
    PROVE  SessionInv'
<1>1. /\ exchange' \in [Exchanges -> Exchanged] /\ exchange'[x] = e
      /\ \A y \in Exchanges \ {x} : exchange'[y] = exchange[y]
    BY DEF SessionInv, SessionTypes
<1>2. SessionTypes'
    BY <1>1 DEF SessionInv, SessionTypes
<1>3. TokensIssued'
    BY <1>1 DEF SessionInv, TokensIssued, Issued
<1>4. StorageFollows'
    BY DEF SessionInv, StorageFollows
<1>5. ASSUME NEW y \in Exchanges PROVE ExchangeOK(exchange'[y], mislaid', slips' = 0)
    <2>1. CASE y = x
        BY <1>1, <2>1
    <2>2. CASE y # x
        <3>1. exchange'[y] = exchange[y] /\ ExchangeOK(exchange[y], mislaid, slips = 0)
            BY <1>1, <2>2 DEF SessionInv
        <3> QED BY <3>1 DEF ExchangeOK
    <2> QED BY <2>1, <2>2
<1>6. \A y \in Exchanges : ExchangeOK(exchange[y], mislaid, slips = 0)'
    BY <1>5 DEF ExchangeOK, IsPresent
<1>7. OnePerTab'
    BY <1>1 DEF SessionInv, OnePerTab, Refreshing
<1>8. RefreshesOwn'
    BY <1>1 DEF SessionInv, RefreshesOwn
<1>9. OneTabCurrent'
    <2>1. SUFFICES ASSUME NEW t \in Tabs, opened = {t}, ~mislaid'
                   PROVE  /\ ~Refreshing(t)' /\ tab[t].token # NoToken => Current(tab[t].token)
                          /\ \A y \in Exchanges : exchange'[y].tab = {t} =>
                                /\ exchange'[y].at \in {"sent", "found"} => Current(exchange'[y].token)
                                /\ exchange'[y].at = "ok" => Current(exchange'[y].new)
        BY DEF OneTabCurrent, Current
    <2>2. ~Refreshing(t)' => ~Refreshing(t)
        BY <1>1, <2>1 DEF Refreshing
    <2>3. ~Refreshing(t)' /\ tab[t].token # NoToken => Current(tab[t].token)
        BY <2>1, <2>2 DEF SessionInv, OneTabCurrent
    <2>4. ASSUME NEW y \in Exchanges, exchange'[y].tab = {t}
          PROVE  /\ exchange'[y].at \in {"sent", "found"} => Current(exchange'[y].token)
                 /\ exchange'[y].at = "ok" => Current(exchange'[y].new)
        <3>1. CASE y = x
            BY <1>1, <2>1, <2>4, <3>1
        <3>2. CASE y # x
            BY <1>1, <2>1, <2>4, <3>2 DEF SessionInv, OneTabCurrent
        <3> QED BY <3>1, <3>2
    <2> QED BY <2>3, <2>4
<1>10. SomeTabKeepsSession'
    <2>1. SUFFICES ASSUME logins = 1, row[1].active, ~mislaid', ~left, slips' = 0
                   PROVE  \/ \E t \in Tabs : IsPresent(tab[t].token)
                          \/ \E y \in Exchanges : IsPresent(exchange'[y].new) \/ IsPresent(exchange'[y].token)
        BY DEF SomeTabKeepsSession, IsPresent
    <2>2. \/ \E t \in Tabs : IsPresent(tab[t].token)
          \/ \E y \in Exchanges : IsPresent(exchange[y].new) \/ IsPresent(exchange[y].token)
        BY <2>1 DEF SessionInv, SomeTabKeepsSession
    <2> QED BY <1>1, <2>1, <2>2
<1> QED BY <1>2, <1>3, <1>4, <1>6, <1>7, <1>8, <1>9, <1>10 DEF SessionInv

LEMMA RefreshOn401KeepsInv ==
    ASSUME SessionInv, NEW t \in Tabs, NEW x \in Exchanges, RefreshOn401(t, x) PROVE SessionInv'
<1> DEFINE k == tab[t].token
           e == [Idle EXCEPT !.at = "sent", !.tab = {t}, !.token = k, !.mount = FALSE]
<1>1. /\ tab[t].access /\ k # NoToken /\ ~Refreshing(t) /\ exchange[x] = Idle /\ exchange' = [exchange EXCEPT ![x] = e]
      /\ UNCHANGED <<row, logins, remember, storedToken, tab, opened, mislaid, left, slips>>
    BY DEF RefreshOn401, SendRefresh, MayRefresh
<1>2. t \in opened /\ k \in Held /\ Issued(k) /\ mislaid \in BOOLEAN /\ slips \in Nat
    BY <1>1, SessionFacts DEF SessionInv, StorageFollows, TokensIssued, SessionTypes
<1>3. e \in Exchanged /\ e.at = "sent" /\ e.tab = {t} /\ e.token = k /\ e.new = NoToken
    BY <1>2, TokenFacts DEF Exchanged
<1>4. \A u \in Tabs : opened = {u} /\ ~mislaid => u = t /\ Current(k)
    BY <1>1, <1>2 DEF SessionInv, OneTabCurrent
<1> HIDE DEF e
<1>5. Issued(e.token) /\ Issued(e.new) /\ ExchangeOK(e, mislaid', slips' = 0)
    BY <1>1, <1>2, <1>3 DEF Issued, ExchangeOK
<1>6. \A u \in Tabs : e.tab = {u} => u = t
    BY <1>3
<1>7. ~IsPresent(exchange[x].token) /\ ~IsPresent(exchange[x].new) /\ exchange[x].tab = {}
    BY <1>1, TokenFacts DEF IsPresent
<1> QED BY <1>1, <1>2, <1>3, <1>4, <1>5, <1>6, <1>7, ExchangeStep

(* An answer that brings no token, or is not expected any more.            *)
LEMMA AnsweredKeepsInv ==
    ASSUME SessionInv, NEW x \in Exchanges, NEW a \in {"found", "refused", "mislaid"},
           RefreshAnswered(x, a, NoToken), exchange[x].at # "idle",
           UNCHANGED <<row, logins, remember, storedToken, tab, opened, left>>,
           slips' \in Nat, slips' = 0 => slips = 0, mislaid' \in BOOLEAN, mislaid => mislaid',
           a = "mislaid" => mislaid', a = "found" => exchange[x].at = "sent",
           a # "mislaid" => exchange[x].at \in {"sent", "found"},
           a = "refused" => slips' # 0 \/ ~IsPresent(exchange[x].token)
    PROVE  SessionInv'
<1> DEFINE d == exchange[x]  e == [d EXCEPT !.at = a, !.new = NoToken]
<1>1. exchange' = [exchange EXCEPT ![x] = IF d.tab = {} /\ a # "found" THEN Idle ELSE e]
    BY DEF RefreshAnswered
<1>2. d \in Exchanged /\ Issued(d.token) /\ Issued(NoToken) /\ ~IsPresent(NoToken)
    BY SessionFacts DEF SessionInv, TokensIssued, Issued, IsPresent
<1>3. /\ d.token # NoToken /\ ((d.tab = {} /\ mislaid) \/ \E t \in opened : d.tab = {t})
      /\ d.at # "ok" => d.new = NoToken
    BY TokenFacts DEF SessionInv, ExchangeOK
<1>4. /\ e \in Exchanged /\ e.at = a /\ e.tab = d.tab /\ e.token = d.token /\ e.new = NoToken
    BY <1>2, TokenFacts DEF Exchanged
<1> HIDE DEF e
<1>5. CASE d.tab = {} /\ a # "found"
    <2>1. ExchangeOK(Idle, mislaid', slips' = 0) /\ mislaid' /\ \A t \in Tabs : Idle.tab # {t} /\ d.tab # {t}
        BY <1>3, <1>5, TokenFacts DEF ExchangeOK
    <2>2. Issued(Idle.token) /\ Issued(Idle.new) /\ Idle \in Exchanged /\ exchange' = [exchange EXCEPT ![x] = Idle]
        BY <1>1, <1>2, <1>5, TokenFacts
    <2> QED BY <2>1, <2>2, ExchangeStep
<1>6. CASE ~(d.tab = {} /\ a # "found")
    <2>1. ExchangeOK(e, mislaid', slips' = 0)
        BY <1>3, <1>4 DEF ExchangeOK
    <2>2. \A t \in Tabs : e.tab = {t} /\ ~mislaid' /\ logins <= 1 /\ ~left => tab[t].token = e.token
        BY <1>4 DEF SessionInv, RefreshesOwn
    <2>3. \A t \in Tabs : opened = {t} /\ ~mislaid' =>
              /\ exchange[x].tab = {t} => e.tab = {t}
              /\ e.tab = {t} => /\ e.at \in {"sent", "found"} => Current(e.token)
                                /\ e.at = "ok" => Current(e.new)
        BY <1>4 DEF SessionInv, OneTabCurrent
    <2>4. ~mislaid' /\ slips' = 0 /\ (IsPresent(exchange[x].token) \/ IsPresent(exchange[x].new))
              => IsPresent(e.token) \/ IsPresent(e.new)
        BY <1>2, <1>3, <1>4
    <2> QED BY <1>1, <1>2, <1>4, <1>6, <2>1, <2>2, <2>3, <2>4, ExchangeStep
<1> QED BY <1>5, <1>6

LEMMA FindSessionKeepsInv ==
    ASSUME SessionInv, NEW x \in Exchanges, FindSession(x) PROVE SessionInv'
<1>1. slips \in Nat /\ mislaid \in BOOLEAN
    BY DEF SessionInv, SessionTypes
<1>2. /\ exchange[x].at = "sent"
      /\ UNCHANGED <<row, logins, remember, storedToken, tab, opened, mislaid, left, slips>>
    BY DEF FindSession
<1>3. CASE IsPresent(exchange[x].token)
    <2>1. RefreshAnswered(x, "found", NoToken)
        BY <1>3 DEF FindSession
    <2> QED BY <1>1, <1>2, <2>1, AnsweredKeepsInv
<1>4. CASE ~IsPresent(exchange[x].token)
    <2>1. RefreshAnswered(x, "refused", NoToken)
        BY <1>4 DEF FindSession
    <2> QED BY <1>1, <1>2, <1>4, <2>1, AnsweredKeepsInv
<1> QED BY <1>3, <1>4

LEMMA FailuresKeepInv ==
    ASSUME SessionInv, NEW x \in Exchanges, RefreshFails(x) \/ AnswerLost(x) PROVE SessionInv'
<1>1. slips \in Nat /\ mislaid \in BOOLEAN
    BY DEF SessionInv, SessionTypes
<1>2. slips' = slips + 1 /\ UNCHANGED <<row, logins, remember, storedToken, tab, opened, left>>
    BY DEF RefreshFails, AnswerLost, Slip
<1>3. slips' \in Nat /\ slips' # 0
    BY <1>1, <1>2
<1>4. CASE RefreshFails(x)
    <2>1. /\ RefreshAnswered(x, "refused", NoToken) /\ exchange[x].at \in {"sent", "found"} /\ mislaid' = mislaid
        BY <1>4 DEF RefreshFails
    <2> QED BY <1>1, <1>2, <1>3, <2>1, AnsweredKeepsInv
<1>5. CASE AnswerLost(x)
    <2>1. /\ RefreshAnswered(x, "mislaid", NoToken) /\ exchange[x].at # "idle" /\ mislaid' = TRUE
        BY <1>5 DEF AnswerLost
    <2> QED BY <1>1, <1>2, <1>3, <2>1, AnsweredKeepsInv
<1> QED BY <1>4, <1>5

(* A rotation makes the token it sends the present one, and every other of *)
(* its session an old one.                                                 *)
LEMMA SessionRotateKeepsInv ==
    ASSUME SessionInv, NEW x \in Exchanges, Rotate(x) PROVE SessionInv'
<1> DEFINE d == exchange[x]  s == d.token.session  n == row[s].issued + 1  k == Token(s, n)
           e == [d EXCEPT !.at = "ok", !.new = k]
<1>1. /\ d.at = "found" /\ row' = [row EXCEPT ![s].number = n, ![s].issued = n]
      /\ exchange' = [exchange EXCEPT ![x] = IF d.tab = {} THEN Idle ELSE e]
      /\ UNCHANGED <<logins, remember, storedToken, tab, opened, mislaid, left, slips>>
    BY DEF Rotate, RefreshAnswered
<1>2. d \in Exchanged /\ Issued(d.token) /\ row \in [Sessions -> [active : BOOLEAN, number : Nat, issued : Nat]]
    BY SessionFacts DEF SessionInv, TokensIssued, SessionTypes
<1>3. d.token # NoToken /\ ((d.tab = {} /\ mislaid) \/ \E t \in opened : d.tab = {t})
    BY <1>1, TokenFacts DEF SessionInv, ExchangeOK
<1>4. s \in 1..logins /\ s \in Sessions /\ s \in Nat \ {0} /\ d.token.number <= row[s].number
      /\ row[s].number = row[s].issued
    <2>1. s \in 1..logins /\ d.token.number <= row[s].number
        BY <1>2, <1>3 DEF Issued
    <2>2. s \in Sessions /\ s \in Nat \ {0}
        BY <2>1, SessionFacts DEF SessionInv, Sessions
    <2> QED BY <2>1, <2>2 DEF SessionInv, TokensIssued
<1>5. n \in Nat /\ row[s].number < n /\ row[s].number \in Nat
    BY <1>2, <1>4
<1>6. k \in Held /\ k.session = s /\ k.number = n /\ k # NoToken
    BY <1>4, <1>5, TokenFacts
<1>7. e \in Exchanged /\ e.at = "ok" /\ e.tab = d.tab /\ e.token = d.token /\ e.new = k
    <2> HIDE DEF k
    <2> QED BY <1>2, <1>6 DEF Exchanged
<1>8. /\ row' \in [Sessions -> [active : BOOLEAN, number : Nat, issued : Nat]]
      /\ row'[s].number = n /\ row'[s].issued = n /\ row'[s].active = row[s].active
      /\ \A u \in Sessions \ {s} : row'[u] = row[u]
    <2> HIDE DEF n, s
    <2> QED BY <1>1, <1>2, <1>4, <1>5
<1> DEFINE f == IF d.tab = {} THEN Idle ELSE e
<1>9. /\ f \in Exchanged /\ exchange' \in [Exchanges -> Exchanged] /\ exchange'[x] = f
      /\ \A y \in Exchanges \ {x} : exchange'[y] = exchange[y]
    BY <1>1, <1>7, TokenFacts DEF SessionInv, SessionTypes
<1> HIDE DEF e, k, n, s, d
<1>10. SessionTypes'
    BY <1>1, <1>8, <1>9 DEF SessionInv, SessionTypes
<1>11. \A j : j # NoToken /\ Issued(j) => j.session \in Sessions /\ j.session \in 1..logins
    BY SessionFacts DEF SessionInv, Issued
<1>12. ASSUME NEW j \in Held, Issued(j)
       PROVE  j = NoToken \/ (j.session \in 1..logins' /\ j.number <= row'[j.session].number)
    BY <1>1, <1>5, <1>8, <1>11, <1>12 DEF Issued, Held
<1>13. TokensIssued'
    <2>1. \A u \in Sessions : row'[u].number = row'[u].issued
        BY <1>8 DEF SessionInv, TokensIssued
    <2>2. Issued(storedToken)' /\ \A u \in Tabs : Issued(tab[u].token)'
        BY <1>1, <1>12, SessionFacts DEF SessionInv, SessionTypes, TokensIssued, Issued
    <2>3. ASSUME NEW y \in Exchanges PROVE Issued(exchange[y].token)' /\ Issued(exchange[y].new)'
        <3>1. CASE y # x
            BY <1>9, <1>12, <3>1, SessionFacts DEF SessionInv, TokensIssued, Issued
        <3>2. CASE y = x
            <4>1. CASE d.tab = {}
                BY <1>9, <3>2, <4>1, TokenFacts DEF Issued
            <4>2. CASE d.tab # {}
                <5>1. exchange'[x].token = d.token /\ exchange'[x].new = k /\ d.token \in Held
                    BY <1>2, <1>7, <1>9, <4>2 DEF Exchanged
                <5>2. k.session \in 1..logins' /\ k.number <= row'[k.session].number
                    BY <1>1, <1>4, <1>5, <1>6, <1>8
                <5> QED BY <1>2, <1>12, <3>2, <5>1, <5>2 DEF Issued
            <4> QED BY <4>1, <4>2
        <3> QED BY <3>1, <3>2
    <2> QED BY <2>1, <2>2, <2>3 DEF TokensIssued
<1>14. StorageFollows'
    BY <1>1 DEF SessionInv, StorageFollows
<1>15. ASSUME NEW y \in Exchanges PROVE ExchangeOK(exchange[y], mislaid, slips = 0)'
    <2>1. CASE y = x
        <3>1. f = Idle \/ (f.at = "ok" /\ f.token = d.token /\ f.new = k /\ f.tab = d.tab /\ d.tab # {})
            BY <1>7
        <3>2. d.token.number < k.number
            <4>1. d.token.number \in Nat
                BY <1>2, SessionFacts DEF SessionInv, Exchanged
            <4> QED BY <1>4, <1>5, <1>6, <4>1
        <3> HIDE DEF f
        <3> QED BY <1>1, <1>3, <1>6, <1>9, <2>1, <3>1, <3>2 DEF ExchangeOK, s
    <2>2. CASE y # x
        <3>1. exchange'[y] = exchange[y] /\ ExchangeOK(exchange[y], mislaid, slips = 0) /\ Issued(exchange[y].token)
              /\ exchange[y].token \in Held
            BY <1>9, <2>2, SessionFacts DEF SessionInv, TokensIssued
        <3>2. ~IsPresent(exchange[y].token) => ~(exchange[y].token # NoToken /\ row'[exchange[y].token.session].active
                                                 /\ row'[exchange[y].token.session].number = exchange[y].token.number)
            <4> DEFINE j == exchange[y].token
            <4>1. j # NoToken /\ j.session = s => j.number <= row[s].number /\ j.number \in Nat
                BY <3>1 DEF Issued, Held
            <4>2. j # NoToken => j.session \in Sessions
                BY <1>11, <3>1
            <4> HIDE DEF j
            <4> QED BY <1>5, <1>8, <4>1, <4>2 DEF IsPresent, j
        <3> QED BY <1>1, <3>1, <3>2 DEF ExchangeOK, IsPresent
    <2> QED BY <2>1, <2>2
<1>16. \A t \in Tabs, y \in Exchanges : exchange'[y].tab = {t} => exchange[y].tab = {t} /\ exchange'[y].token = exchange[y].token
    <2>1. f.tab # {} => f.tab = d.tab /\ f.token = d.token
        BY <1>7, TokenFacts
    <2> HIDE DEF f
    <2> QED BY <1>9, <2>1 DEF d
<1>17. OnePerTab' /\ RefreshesOwn'
    BY <1>1, <1>16 DEF SessionInv, OnePerTab, RefreshesOwn
<1>18. OneTabCurrent'
    <2>1. SUFFICES ASSUME NEW t \in Tabs, opened = {t}, ~mislaid
                   PROVE  /\ ~Refreshing(t)' /\ tab[t].token # NoToken => Current(tab[t].token)'
                          /\ \A y \in Exchanges : exchange'[y].tab = {t} =>
                                /\ exchange'[y].at \in {"sent", "found"} => Current(exchange[y].token)'
                                /\ exchange'[y].at = "ok" => Current(exchange[y].new)'
        BY <1>1 DEF OneTabCurrent
    <2>2. d.tab = {t} /\ f = e
        BY <1>3, <2>1
    <2>3. exchange'[x].tab = {t} /\ exchange'[x].at = "ok" /\ exchange'[x].new = k
        BY <1>7, <1>9, <2>2
    <2>4. Refreshing(t)'
        BY <2>3 DEF Refreshing
    <2>5. ASSUME NEW y \in Exchanges, exchange'[y].tab = {t} PROVE y = x
        BY <1>16, <2>2, <2>5 DEF SessionInv, OnePerTab, d
    <2>6. Current(exchange[x].new)'
        BY <1>6, <1>8, <2>3 DEF Current
    <2> QED BY <2>3, <2>4, <2>5, <2>6
<1>19. SomeTabKeepsSession'
    <2>1. SUFFICES ASSUME logins = 1, row'[1].active, ~mislaid
                   PROVE  IsPresent(exchange[x].new)'
        BY <1>1 DEF SomeTabKeepsSession
    <2>2. s = 1 /\ f = e
        BY <1>3, <1>4, <2>1
    <2>3. exchange'[x].new = k
        BY <1>7, <1>9, <2>2
    <2> QED BY <1>6, <1>8, <2>1, <2>2, <2>3 DEF IsPresent
<1> QED BY <1>10, <1>13, <1>14, <1>15, <1>17, <1>18, <1>19 DEF SessionInv

(* A page is loaded: what its tab waited for is given up, and at most one  *)
(* exchange is begun, with the token the storage had.                      *)
Opens(e, t) == e \in Exchanged /\ e.at = "sent" /\ e.tab = {t} /\ e.token = storedToken /\ e.new = NoToken

LEMMA PageStep ==
    ASSUME SessionInv, NEW t \in Tabs, LoadPage(t), exchange' \in [Exchanges -> Exchanged],
           \A x \in Exchanges : \/ exchange'[x] = Abandoned(t)[x]
                                \/ exchange[x] = Idle /\ storedToken # NoToken /\ Opens(exchange'[x], t),
           \A x, y \in Exchanges : exchange'[x].tab = {t} /\ exchange'[y].tab = {t} => x = y
    PROVE  SessionInv'
<1>1. /\ tab' = [tab EXCEPT ![t] = [access |-> FALSE, token |-> storedToken]]
      /\ mislaid' = (mislaid \/ Refreshing(t)) /\ opened' = opened \cup {t}
      /\ left' = (left \/ (t \in opened /\ (~remember \/ opened # {t})))
      /\ UNCHANGED <<row, logins, remember, storedToken, slips>>
    BY DEF LoadPage
<1>2. tab \in [Tabs -> [access : BOOLEAN, token : Held]] /\ storedToken \in Held /\ mislaid \in BOOLEAN
      /\ left \in BOOLEAN /\ opened \subseteq Tabs /\ IsFiniteSet(opened) /\ Issued(storedToken)
    BY DEF SessionInv, SessionTypes, TokensIssued
<1>3. /\ tab' \in [Tabs -> [access : BOOLEAN, token : Held]] /\ tab'[t].token = storedToken
      /\ \A u \in Tabs \ {t} : tab'[u] = tab[u]
    BY <1>1, <1>2
<1>4. SessionTypes'
    <2>1. opened' \subseteq Tabs /\ IsFiniteSet(opened')
        BY <1>1, <1>2, FS_AddElement
    <2>2. mislaid' \in BOOLEAN /\ left' \in BOOLEAN
        BY <1>1, <1>2
    <2> QED BY <1>1, <1>3, <2>1, <2>2 DEF SessionInv, SessionTypes
<1>5. ASSUME NEW x \in Exchanges
      PROVE  \/ (exchange'[x] = exchange[x] /\ exchange[x].tab # {t})
             \/ (exchange[x].tab = {t} /\ exchange'[x].tab = {} /\ mislaid'
                 /\ (exchange'[x] = Idle \/ exchange'[x] = [exchange[x] EXCEPT !.tab = {}]))
             \/ (exchange[x] = Idle /\ storedToken # NoToken /\ Opens(exchange'[x], t))
    <2>1. CASE exchange'[x] = Abandoned(t)[x] /\ exchange[x].tab # {t}
        BY <2>1 DEF Abandoned
    <2>2. CASE exchange'[x] = Abandoned(t)[x] /\ exchange[x].tab = {t}
        <3>1. exchange'[x] = Idle \/ exchange'[x] = [exchange[x] EXCEPT !.tab = {}]
            BY <2>2 DEF Abandoned
        <3>2. exchange'[x].tab = {}
            <4>1. exchange[x] \in Exchanged
                BY SessionFacts DEF SessionInv
            <4>2. exchange[x] \in Exchanged => [exchange[x] EXCEPT !.tab = {}].tab = {}
                BY DEF Exchanged
            <4> QED BY <3>1, <4>1, <4>2, TokenFacts
        <3> QED BY <1>1, <2>2, <3>1, <3>2 DEF Refreshing
    <2> QED BY <2>1, <2>2
<1>6. ASSUME NEW x \in Exchanges
      PROVE  /\ exchange'[x].token \in {exchange[x].token, NoToken, storedToken}
             /\ exchange'[x].new \in {exchange[x].new, NoToken}
    <2>1. exchange[x] \in Exchanged
        BY SessionFacts DEF SessionInv
    <2>2. CASE exchange'[x] = [exchange[x] EXCEPT !.tab = {}]
        BY <2>1, <2>2 DEF Exchanged
    <2> QED BY <1>5, <2>2, TokenFacts DEF Opens
<1>7. TokensIssued'
    <2>1. \A u \in Tabs : Issued(tab[u].token)'
        BY <1>1, <1>2, <1>3 DEF SessionInv, TokensIssued, Issued
    <2>2. \A x \in Exchanges : Issued(exchange[x].token)' /\ Issued(exchange[x].new)'
        BY <1>1, <1>2, <1>6 DEF SessionInv, TokensIssued, Issued
    <2> QED BY <1>1, <2>1, <2>2 DEF SessionInv, TokensIssued, Issued
<1>8. \A u \in Tabs : opened' = {u} => u = t /\ (opened = {} \/ opened = {t})
    BY <1>1
<1>9. StorageFollows'
    <2>1. \A u \in Tabs : opened' = {u} => storedToken' = IF remember' THEN tab'[u].token ELSE NoToken
        BY <1>1, <1>3, <1>8 DEF SessionInv, StorageFollows
    <2> QED BY <1>1, <1>3, <2>1 DEF SessionInv, StorageFollows
<1>10. ASSUME NEW x \in Exchanges PROVE ExchangeOK(exchange[x], mislaid, slips = 0)'
    <2>1. ExchangeOK(exchange[x], mislaid, slips = 0) /\ exchange[x] \in Exchanged
        BY SessionFacts DEF SessionInv
    <2>2. CASE exchange'[x] = exchange[x]
        BY <1>1, <2>1, <2>2 DEF ExchangeOK, IsPresent
    <2>3. CASE exchange'[x] = Idle
        BY <2>3 DEF ExchangeOK
    <2>4. CASE exchange'[x] = [exchange[x] EXCEPT !.tab = {}] /\ exchange[x].tab = {t} /\ mislaid'
        <3> DEFINE e == exchange'[x]  d == exchange[x]
        <3>1. e.at = d.at /\ e.tab = {} /\ e.token = d.token /\ e.new = d.new
            BY <2>1, <2>4 DEF Exchanged
        <3>2. d # Idle
            BY <2>4, TokenFacts
        <3> QED BY <1>1, <2>1, <2>4, <3>1, <3>2 DEF ExchangeOK, IsPresent
    <2>5. CASE storedToken # NoToken /\ Opens(exchange'[x], t)
        BY <1>1, <2>5 DEF ExchangeOK, Opens
    <2> QED BY <1>5, <2>2, <2>3, <2>4, <2>5
<1>11. ASSUME NEW x \in Exchanges, NEW u \in Tabs, exchange'[x].tab = {u}
       PROVE  \/ (exchange'[x] = exchange[x] /\ u # t)
              \/ (storedToken # NoToken /\ Opens(exchange'[x], t) /\ u = t)
    BY <1>5, <1>11 DEF Opens
<1>12. OnePerTab'
    BY <1>11 DEF SessionInv, OnePerTab
<1>13. RefreshesOwn'
    <2>1. SUFFICES ASSUME logins <= 1, ~left, ~mislaid,
                          NEW x \in Exchanges, NEW u \in Tabs, exchange'[x].tab = {u}
                   PROVE  tab'[u].token = exchange'[x].token
        BY <1>1, <1>2 DEF RefreshesOwn
    <2> QED BY <1>3, <1>11, <2>1 DEF SessionInv, RefreshesOwn, Opens
<1>14. OneTabCurrent'
    <2>1. SUFFICES ASSUME opened' = {t}, ~mislaid'
                   PROVE  /\ tab'[t].token # NoToken => Current(tab[t].token)'
                          /\ \A x \in Exchanges : exchange'[x].tab = {t} =>
                                /\ exchange'[x].at \in {"sent", "found"} => Current(exchange[x].token)'
                                /\ exchange'[x].at = "ok" => Current(exchange[x].new)'
        BY <1>8 DEF OneTabCurrent
    <2>2. ~mislaid /\ ~Refreshing(t)
        BY <1>1, <1>2, <2>1
    <2>3. storedToken # NoToken => Current(storedToken)
        <3>1. storedToken # NoToken => opened = {t} /\ storedToken = tab[t].token
            BY <1>8, <2>1 DEF SessionInv, StorageFollows
        <3> QED BY <2>2, <3>1 DEF SessionInv, OneTabCurrent
    <2>4. tab'[t].token # NoToken => Current(tab[t].token)'
        BY <1>1, <1>3, <2>3 DEF Current
    <2>5. ASSUME NEW x \in Exchanges, exchange'[x].tab = {t}
          PROVE  /\ exchange'[x].at \in {"sent", "found"} => Current(exchange[x].token)'
                 /\ exchange'[x].at = "ok" => Current(exchange[x].new)'
        BY <1>1, <1>11, <2>3, <2>5 DEF Opens, Current
    <2> QED BY <2>4, <2>5
<1>15. SomeTabKeepsSession'
    <2>1. SUFFICES ASSUME logins = 1, row[1].active, ~mislaid', ~left', slips = 0
                   PROVE  \/ \E u \in Tabs : IsPresent(tab[u].token)'
                          \/ \E x \in Exchanges : IsPresent(exchange[x].new)' \/ IsPresent(exchange[x].token)'
        BY <1>1 DEF SomeTabKeepsSession
    <2>2. ~mislaid /\ ~left /\ (t \in opened => remember /\ opened = {t})
        BY <1>1, <1>2, <2>1
    <2>3. \/ \E u \in Tabs : IsPresent(tab[u].token)
          \/ \E x \in Exchanges : IsPresent(exchange[x].new) \/ IsPresent(exchange[x].token)
        BY <2>1, <2>2 DEF SessionInv, SomeTabKeepsSession
    <2>4. ASSUME NEW u \in Tabs, IsPresent(tab[u].token) PROVE IsPresent(tab[u].token)'
        <3>1. tab'[u].token = tab[u].token
            <4>1. CASE u = t
                <5>1. tab[t].token # NoToken
                    BY <2>4, <4>1 DEF IsPresent
                <5>2. t \in opened
                    BY <5>1 DEF SessionInv, StorageFollows
                <5>3. storedToken = tab[t].token
                    BY <2>2, <5>2 DEF SessionInv, StorageFollows
                <5> QED BY <1>3, <4>1, <5>3
            <4>2. CASE u # t
                BY <1>3, <4>2
            <4> QED BY <4>1, <4>2
        <3> QED BY <1>1, <2>4, <3>1 DEF IsPresent
    <2>5. ASSUME NEW x \in Exchanges, IsPresent(exchange[x].new) \/ IsPresent(exchange[x].token)
          PROVE  IsPresent(exchange[x].new)' \/ IsPresent(exchange[x].token)'
        <3>1. exchange[x] # Idle
            BY <2>5, TokenFacts DEF IsPresent
        <3>2. exchange'[x] = exchange[x]
            BY <1>5, <2>1, <3>1
        <3> QED BY <1>1, <2>5, <3>2 DEF IsPresent
    <2> QED BY <2>3, <2>4, <2>5
<1> QED BY <1>4, <1>7, <1>9, <1>10, <1>12, <1>13, <1>14, <1>15 DEF SessionInv

LEMMA OpenKeepsInv ==
    ASSUME SessionInv, NEW t \in Tabs, OpenSignedOut(t) \/ \E x \in Exchanges : OpenAndRefresh(t, x)
    PROVE  SessionInv'
<1>1. Abandoned(t) \in [Exchanges -> Exchanged] /\ \A x \in Exchanges : Abandoned(t)[x].tab # {t}
    <2>1. ASSUME NEW x \in Exchanges PROVE Abandoned(t)[x] \in Exchanged /\ Abandoned(t)[x].tab # {t}
        <3>1. exchange[x] \in Exchanged
            BY SessionFacts DEF SessionInv
        <3>2. [exchange[x] EXCEPT !.tab = {}] \in Exchanged /\ [exchange[x] EXCEPT !.tab = {}].tab = {}
            BY <3>1 DEF Exchanged
        <3> QED BY <3>1, <3>2, TokenFacts DEF Abandoned
    <2>2. Abandoned(t) = [x \in Exchanges |-> Abandoned(t)[x]]
        BY DEF Abandoned
    <2> QED BY <2>1, <2>2
<1>2. CASE OpenSignedOut(t)
    <2>1. LoadPage(t) /\ exchange' = Abandoned(t)
        BY <1>2 DEF OpenSignedOut
    <2> QED BY <1>1, <2>1, PageStep
<1>3. ASSUME NEW x \in Exchanges, OpenAndRefresh(t, x) PROVE SessionInv'
    <2> DEFINE e == [Idle EXCEPT !.at = "sent", !.tab = {t}, !.token = storedToken, !.mount = TRUE]
    <2>1. /\ LoadPage(t) /\ storedToken # NoToken /\ exchange[x] = Idle
          /\ exchange' = [Abandoned(t) EXCEPT ![x] = e]
        BY <1>3 DEF OpenAndRefresh
    <2>2. storedToken \in Held
        BY DEF SessionInv, SessionTypes
    <2>3. Opens(e, t)
        BY <2>2, TokenFacts DEF Opens, Exchanged
    <2>4. e \in Exchanged
        BY <2>3 DEF Opens
    <2> HIDE DEF e
    <2>5. /\ exchange' \in [Exchanges -> Exchanged] /\ exchange'[x] = e
          /\ \A y \in Exchanges \ {x} : exchange'[y] = Abandoned(t)[y]
        BY <1>1, <2>1, <2>4
    <2>6. Opens(exchange'[x], t)
        BY <2>3, <2>5
    <2>7. \A y, z \in Exchanges : exchange'[y].tab = {t} /\ exchange'[z].tab = {t} => y = z
        BY <1>1, <2>5
    <2>8. \A y \in Exchanges : \/ exchange'[y] = Abandoned(t)[y]
                               \/ exchange[y] = Idle /\ storedToken # NoToken /\ Opens(exchange'[y], t)
        BY <2>1, <2>5, <2>6
    <2> QED BY <2>1, <2>5, <2>7, <2>8, PageStep
<1> QED BY <1>2, <1>3

(* The page takes the answer.                                              *)
LEMMA ReceiveStep ==
    ASSUME SessionInv, NEW x \in Exchanges, NEW t \in Tabs, exchange[x].tab = {t}, Receive(x),
           NEW a \in BOOLEAN, NEW k \in Held, Set(t, a, k), Issued(k),
           opened = {t} /\ ~mislaid /\ k # NoToken => Current(k),
           logins = 1 /\ row[1].active /\ ~mislaid /\ ~left /\ slips = 0 =>
              /\ ~IsPresent(exchange[x].token)
              /\ IsPresent(exchange[x].new) => IsPresent(k)
    PROVE  SessionInv'
<1>1. /\ exchange' = [exchange EXCEPT ![x] = Idle]
      /\ UNCHANGED <<row, logins, remember, opened, mislaid, left, slips>>
    BY DEF Receive
<1>2. t \in opened
    <2>1. exchange[x] # Idle
        BY TokenFacts
    <2> QED BY <2>1 DEF SessionInv, ExchangeOK
<1>3. /\ tab' \in [Tabs -> [access : BOOLEAN, token : Held]] /\ tab'[t].token = k
      /\ \A u \in Tabs \ {t} : tab'[u] = tab[u]
      /\ storedToken' \in {k, NoToken} /\ StorageFollows'
    BY <1>1, <1>2, SetIs
<1>4. /\ exchange' \in [Exchanges -> Exchanged] /\ exchange'[x] = Idle
      /\ \A y \in Exchanges \ {x} : exchange'[y] = exchange[y]
    BY <1>1, TokenFacts DEF SessionInv, SessionTypes
<1>5. SessionTypes'
    <2>1. storedToken' \in Held
        BY <1>3, TokenFacts
    <2> QED BY <1>1, <1>3, <1>4, <2>1 DEF SessionInv, SessionTypes
<1>6. TokensIssued'
    <2>1. Issued(storedToken)'
        BY <1>1, <1>3 DEF Issued
    <2>2. \A u \in Tabs : Issued(tab[u].token)'
        BY <1>1, <1>3 DEF SessionInv, TokensIssued, Issued
    <2>3. \A y \in Exchanges : Issued(exchange[y].token)' /\ Issued(exchange[y].new)'
        BY <1>1, <1>4, TokenFacts DEF SessionInv, TokensIssued, Issued
    <2> QED BY <1>1, <2>1, <2>2, <2>3 DEF SessionInv, TokensIssued
<1>7. \A y \in Exchanges : ExchangeOK(exchange[y], mislaid, slips = 0)'
    BY <1>1, <1>4 DEF SessionInv, ExchangeOK, IsPresent
<1>8. \A y \in Exchanges, u \in Tabs : exchange'[y].tab = {u} => y # x /\ u # t /\ exchange'[y] = exchange[y]
    BY <1>4, TokenFacts DEF SessionInv, OnePerTab
<1>9. OnePerTab' /\ RefreshesOwn'
    BY <1>1, <1>3, <1>8 DEF SessionInv, OnePerTab, RefreshesOwn
<1>10. OneTabCurrent'
    <2>1. SUFFICES ASSUME opened = {t}, ~mislaid
                   PROVE  tab'[t].token # NoToken => Current(tab[t].token)'
        BY <1>1, <1>2, <1>8 DEF OneTabCurrent
    <2> QED BY <1>1, <1>3, <2>1 DEF Current
<1>11. SomeTabKeepsSession'
    <2>1. SUFFICES ASSUME logins = 1, row[1].active, ~mislaid, ~left, slips = 0
                   PROVE  \/ \E u \in Tabs : IsPresent(tab[u].token)'
                          \/ \E y \in Exchanges : IsPresent(exchange[y].new)' \/ IsPresent(exchange[y].token)'
        BY <1>1 DEF SomeTabKeepsSession
    <2>2. \/ \E u \in Tabs : IsPresent(tab[u].token)
          \/ \E y \in Exchanges : IsPresent(exchange[y].new) \/ IsPresent(exchange[y].token)
        BY <2>1 DEF SessionInv, SomeTabKeepsSession
    <2>3. tab[t].token = exchange[x].token
        BY <2>1 DEF SessionInv, RefreshesOwn
    <2>4. ASSUME NEW u \in Tabs, IsPresent(tab[u].token) PROVE IsPresent(tab[u].token)'
        <3>1. u # t
            BY <2>1, <2>3, <2>4
        <3> QED BY <1>1, <1>3, <2>4, <3>1 DEF IsPresent
    <2>5. ASSUME NEW y \in Exchanges, y # x, IsPresent(exchange[y].new) \/ IsPresent(exchange[y].token)
          PROVE  IsPresent(exchange[y].new)' \/ IsPresent(exchange[y].token)'
        BY <1>1, <1>4, <2>5 DEF IsPresent
    <2>6. ASSUME IsPresent(exchange[x].new) PROVE IsPresent(tab[t].token)'
        BY <1>1, <1>3, <2>1, <2>6 DEF IsPresent
    <2> QED BY <2>1, <2>2, <2>4, <2>5, <2>6
<1> QED BY <1>3, <1>5, <1>6, <1>7, <1>9, <1>10, <1>11 DEF SessionInv

LEMMA ReceivesKeepInv ==
    ASSUME SessionInv, NEW x \in Exchanges, Refreshed(x) \/ Refused(x) \/ Unanswered(x) PROVE SessionInv'
<1> DEFINE d == exchange[x]
<1>1. Receive(x) /\ d.tab # {} /\ d.at \in {"ok", "refused", "mislaid"} /\ d \in Exchanged
    BY SessionFacts DEF Refreshed, Refused, Unanswered, Receive, SessionInv
<1>2. /\ d.token # NoToken /\ (d.at # "ok" => d.new = NoToken) /\ (d.at = "mislaid" => mislaid)
      /\ d.at = "ok" => d.new # NoToken /\ d.new.session = d.token.session /\ d.token.number < d.new.number
      /\ d.at = "refused" /\ slips = 0 => ~IsPresent(d.token)
    BY <1>1, TokenFacts DEF SessionInv, ExchangeOK
<1>3. PICK t \in Tabs : d.tab = {t} /\ t \in opened
    <2>1. opened \subseteq Tabs
        BY DEF SessionInv, SessionTypes
    <2> QED BY <1>1, <2>1, TokenFacts DEF SessionInv, ExchangeOK
<1>4. NoToken \in Held /\ Issued(NoToken) /\ ~IsPresent(NoToken)
    BY TokenFacts DEF Issued, IsPresent
<1>5. CASE Refreshed(x)
    <2>1. d.at = "ok" /\ Set(t, TRUE, d.new)
        BY <1>3, <1>5 DEF Refreshed
    <2>2. d.new \in Held /\ Issued(d.new) /\ d.token \in Held
        BY SessionFacts DEF SessionInv, TokensIssued
    <2>3. opened = {t} /\ ~mislaid => Current(d.new)
        BY <1>3, <2>1 DEF SessionInv, OneTabCurrent
    <2>4. ~IsPresent(d.token)
        <3>1. d.new.number <= row[d.token.session].number /\ d.new.number \in Nat /\ d.token.number \in Nat
              /\ row[d.token.session].number \in Nat
            <4>1. d.new.session \in 1..logins /\ d.new.number <= row[d.new.session].number
                BY <1>2, <2>1, <2>2 DEF Issued
            <4>2. d.new.session \in Sessions
                BY <4>1, SessionFacts DEF SessionInv
            <4> QED BY <1>2, <2>1, <2>2, <4>1, <4>2 DEF Held, SessionInv, SessionTypes
        <3> QED BY <1>2, <2>1, <3>1 DEF IsPresent
    <2> HIDE DEF d
    <2> QED BY <1>1, <1>3, <2>1, <2>2, <2>3, <2>4, ReceiveStep DEF d
<1>6. CASE Refused(x)
    <2>1. d.at = "refused" /\ Set(t, FALSE, NoToken)
        BY <1>3, <1>6 DEF Refused, ClearAuth
    <2> QED BY <1>1, <1>2, <1>3, <1>4, <2>1, ReceiveStep
<1>7. CASE Unanswered(x) /\ d.mount
    <2>1. d.at = "mislaid" /\ Set(t, FALSE, NoToken)
        BY <1>3, <1>7 DEF Unanswered, ClearAuth
    <2> QED BY <1>1, <1>2, <1>3, <1>4, <2>1, ReceiveStep
<1>8. CASE Unanswered(x) /\ ~d.mount
    <2>1. /\ exchange' = [exchange EXCEPT ![x] = Idle] /\ mislaid
          /\ UNCHANGED <<row, logins, remember, storedToken, tab, opened, mislaid, left, slips>>
        BY <1>2, <1>8 DEF Unanswered, Receive
    <2>2. slips \in Nat /\ mislaid \in BOOLEAN
        BY DEF SessionInv, SessionTypes
    <2>3. Issued(Idle.token) /\ Issued(Idle.new) /\ Idle \in Exchanged /\ ExchangeOK(Idle, mislaid', slips' = 0)
          /\ \A u \in Tabs : Idle.tab # {u}
        BY <1>4, TokenFacts DEF ExchangeOK
    <2> QED BY <2>1, <2>2, <2>3, ExchangeStep
<1> QED BY <1>5, <1>6, <1>7, <1>8

LEMMA SessionInvMeansKept == SessionInv => SessionIsKept
<1> SUFFICES ASSUME SessionInv PROVE SessionIsKept
    OBVIOUS
<1>1. OneTabKeepsSession
    <2>1. SUFFICES ASSUME Cardinality(opened) <= 1, ~mislaid, NEW t \in opened, tab[t].token # NoToken,
                          ~Refreshing(t), row[tab[t].token.session].active
                   PROVE  IsPresent(tab[t].token)
        BY DEF OneTabKeepsSession
    <2>2. opened = {t} /\ t \in Tabs
        <3>1. IsFiniteSet(opened) /\ opened \subseteq Tabs
            BY DEF SessionInv, SessionTypes
        <3>2. Cardinality(opened) \in Nat /\ Cardinality(opened) # 0
            BY <2>1, <3>1, FS_CardinalityType, FS_EmptySet
        <3>3. Cardinality(opened) = 1
            BY <2>1, <3>2
        <3> QED BY <2>1, <3>1, <3>3, FS_Singleton
    <2> QED BY <2>1, <2>2 DEF SessionInv, OneTabCurrent, Current, IsPresent
<1> QED BY <1>1 DEF SessionInv, SessionIsKept

(* The tabs of a browser do not lose a session that nobody ended: one tab  *)
(* holds its present token whenever no refresh is under way, and of many   *)
(* one does; for any number of tabs, exchanges, sessions and rotations.    *)
THEOREM BrowsersKeepTheirSession == DashboardSpec => []SessionIsKept
<1>1. SessionInv /\ [DashboardNext]_sessionVars => SessionInv'
    <2> SUFFICES ASSUME SessionInv, [DashboardNext]_sessionVars PROVE SessionInv'
        OBVIOUS
    <2>1. CASE UNCHANGED sessionVars
        <3>1. UNCHANGED <<row, logins, exchange, remember, storedToken, tab, opened, mislaid, left, slips>>
            BY <2>1 DEF sessionVars
        <3>2. SessionTypes' /\ TokensIssued' /\ StorageFollows'
            BY <3>1 DEF SessionInv, SessionTypes, TokensIssued, Issued, StorageFollows
        <3>3. \A x \in Exchanges : ExchangeOK(exchange[x], mislaid, slips = 0)'
            BY <3>1 DEF SessionInv, ExchangeOK, IsPresent
        <3>4. OnePerTab' /\ RefreshesOwn'
            BY <3>1 DEF SessionInv, OnePerTab, RefreshesOwn
        <3>5. OneTabCurrent'
            BY <3>1 DEF SessionInv, OneTabCurrent, Current, Refreshing
        <3>6. SomeTabKeepsSession'
            BY <3>1 DEF SessionInv, SomeTabKeepsSession, IsPresent, Refreshing
        <3> QED BY <3>2, <3>3, <3>4, <3>5, <3>6 DEF SessionInv
    <2>2. ASSUME NEW t \in Tabs, WriteStore(t) \/ LoginIn(t) \/ SignOut(t) PROVE SessionInv'
        BY <2>2, WriteStoreKeepsInv, LoginKeepsInv, SignOutKeepsInv
    <2>3. ASSUME NEW t \in Tabs, OpenSignedOut(t) \/ \E x \in Exchanges : OpenAndRefresh(t, x) PROVE SessionInv'
        BY <2>3, OpenKeepsInv
    <2>4. ASSUME NEW t \in Tabs, NEW x \in Exchanges, RefreshOn401(t, x) PROVE SessionInv'
        BY <2>4, RefreshOn401KeepsInv
    <2>5. ASSUME NEW x \in Exchanges, FindSession(x) \/ Rotate(x) \/ RefreshFails(x) \/ AnswerLost(x)
          PROVE  SessionInv'
        BY <2>5, FindSessionKeepsInv, SessionRotateKeepsInv, FailuresKeepInv
    <2>6. ASSUME NEW x \in Exchanges, Refreshed(x) \/ Refused(x) \/ Unanswered(x) PROVE SessionInv'
        BY <2>6, ReceivesKeepInv
    <2>7. ASSUME NEW s \in Sessions, EndSession(s) PROVE SessionInv'
        BY <2>7, EndSessionKeepsInv
    <2> QED BY <2>1, <2>2, <2>3, <2>4, <2>5, <2>6, <2>7 DEF DashboardNext
<1> QED BY <1>1, SessionInvInit, SessionInvMeansKept, PTL DEF DashboardSpec

-----------------------------------------------------------------------------
(* Live updates.  A client's frames are its organization's, and an         *)
(* organization other than the selected one has no client.                 *)

Clients == [org : LiveOrgs \cup {NoOrg},
            status : {"connecting", "connected", "reconnecting", "offline", "auth_failed"},
            attempts : Nat, timer : BOOLEAN, socket : {"none", "opening", "open", "dead"}]

LiveTypes ==
    /\ live \in Clients /\ pipe \in Seq(LiveOrgs \X Nat)
    /\ usage \in [LiveOrgs -> Nat]

OwnFrames == \A i \in 1..Len(pipe) : pipe[i][1] = live.org

LiveInv == LiveTypes /\ OwnFrames /\ LiveViewIsOurs

(* A client that is not connected has no timer beside its socket.          *)
Sound(c) ==
    /\ c.status = "connected" => c.socket \in {"open", "dead"}
    /\ c.socket # "none" => ~c.timer

LEMMA ConnectedIs ==
    ASSUME NEW c \in Clients, ~c.timer, c.socket = "none"
    PROVE  Connected(c) \in Clients /\ Connected(c).org = c.org
           /\ (c.status # "connected" => Sound(Connected(c)))
<1>1. CASE token' = "none"
    <2> DEFINE d == [c EXCEPT !.status = "auth_failed"]
    <2>1. Connected(c) = d
        BY <1>1 DEF Connected
    <2>2. d \in Clients /\ d.org = c.org /\ d.status = "auth_failed" /\ d.socket = "none"
        BY DEF Clients
    <2> QED BY <2>1, <2>2 DEF Sound
<1>2. CASE token' # "none"
    <2> DEFINE status == IF c.attempts > 0 THEN "reconnecting" ELSE "connecting"
               d == [c EXCEPT !.socket = "opening", !.status = status]
    <2>1. Connected(c) = d
        BY <1>2 DEF Connected
    <2>2. status \in {"reconnecting", "connecting"}
        OBVIOUS
    <2> HIDE DEF status
    <2>3. d \in Clients /\ d.org = c.org /\ d.status = status /\ d.socket = "opening" /\ ~d.timer
        BY <2>2 DEF Clients
    <2> QED BY <2>1, <2>2, <2>3 DEF Sound
<1> QED BY <1>1, <1>2

(* A step of the socket, which loses what was in the pipe.                 *)
LEMMA SocketStep ==
    ASSUME LiveInv, NEW c \in Clients, live' = c, c.org = live.org, live.org # NoOrg => Sound(c),
           pipe' = <<>>, UNCHANGED <<org, shown, usage>>
    PROVE  LiveInv'
BY DEF LiveInv, LiveTypes, OwnFrames, LiveViewIsOurs, Sound

(* The effect of useRealtimeConnection.                                    *)
LEMMA EffectStep ==
    ASSUME LiveInv, UseRealtimeConnection, UNCHANGED usage, org' \in LiveOrgs \cup {NoOrg}
    PROVE  LiveInv'
<1>1. live \in Clients /\ pipe \in Seq(LiveOrgs \X Nat) /\ usage' \in [LiveOrgs -> Nat]
    BY DEF LiveInv, LiveTypes
<1>2. CASE Stopped
    <2>1. live' \in Clients /\ live'.org = NoOrg /\ pipe' = <<>>
        BY <1>1, <1>2 DEF Stopped, TornDown, Clients
    <2> QED BY <1>1, <2>1 DEF LiveInv, LiveTypes, OwnFrames, LiveViewIsOurs
<1>3. CASE live.org = org' /\ UNCHANGED <<live, pipe, shown>>
    BY <1>1, <1>3 DEF LiveInv, LiveTypes, OwnFrames, LiveViewIsOurs
<1>4. CASE live.org # org' /\ org' # NoOrg /\ Started(org')
    <2> DEFINE c == [NoClient EXCEPT !.org = org']
    <2>1. c \in Clients /\ ~c.timer /\ c.socket = "none" /\ c.status = "connecting" /\ c.org = org'
        BY DEF Clients, NoClient
    <2>2. live' = Connected(c) /\ pipe' = <<>> /\ shown' = {}
        BY <1>4 DEF Started
    <2> HIDE DEF c
    <2>3. live' \in Clients /\ live'.org = org' /\ Sound(live')
        BY <2>1, <2>2, ConnectedIs
    <2> QED BY <1>1, <2>2, <2>3 DEF LiveInv, LiveTypes, OwnFrames, LiveViewIsOurs, Sound
<1> QED BY <1>2, <1>3, <1>4 DEF UseRealtimeConnection, Started

LEMMA SocketEvents ==
    ASSUME LiveInv, Opened \/ AuthRejected \/ GoesSilent \/ Closed PROVE LiveInv'
<1>1. live \in Clients /\ (live.org # NoOrg => Sound(live))
    BY DEF LiveInv, LiveTypes, LiveViewIsOurs, Sound
<1>2. CASE Opened
    <2> DEFINE c == [live EXCEPT !.socket = "open", !.status = "connected", !.attempts = 0]
    <2>1. c \in Clients /\ c.org = live.org /\ c.socket = "open" /\ c.timer = live.timer
        BY <1>1 DEF Clients
    <2>2. live.socket = "opening" /\ live' = c /\ pipe' = <<>> /\ UNCHANGED <<org, shown, usage>>
        BY <1>2 DEF Opened, Socket
    <2> HIDE DEF c
    <2> QED BY <1>1, <2>1, <2>2, SocketStep DEF Sound
<1>3. CASE AuthRejected
    <2> DEFINE c == [live EXCEPT !.socket = "none", !.status = "auth_failed"]
    <2>1. c \in Clients /\ c.org = live.org /\ c.socket = "none" /\ c.status = "auth_failed"
        BY <1>1 DEF Clients
    <2>2. live' = c /\ pipe' = <<>> /\ UNCHANGED <<org, shown, usage>>
        BY <1>3 DEF AuthRejected, Socket
    <2> HIDE DEF c
    <2> QED BY <2>1, <2>2, SocketStep DEF Sound
<1>4. CASE GoesSilent
    <2> DEFINE c == [live EXCEPT !.socket = "dead"]
    <2>1. c \in Clients /\ c.org = live.org /\ c.socket = "dead" /\ c.timer = live.timer
        BY <1>1 DEF Clients
    <2>2. live.socket = "open" /\ live' = c /\ pipe' = <<>> /\ UNCHANGED <<org, shown, usage>>
        BY <1>4 DEF GoesSilent, Socket
    <2> HIDE DEF c
    <2> QED BY <1>1, <2>1, <2>2, SocketStep DEF Sound
<1>5. CASE Closed
    <2> DEFINE c == Rescheduled(live)
    <2>1. c \in Clients /\ c.org = live.org /\ c.socket = "none" /\ c.status \in {"offline", "reconnecting"}
        <3>1. CASE live.attempts >= MaxAttempts
            <4>1. c = [live EXCEPT !.socket = "none", !.status = "offline"]
                BY <3>1 DEF Rescheduled
            <4> HIDE DEF c
            <4> QED BY <1>1, <4>1 DEF Clients
        <3>2. CASE ~(live.attempts >= MaxAttempts)
            <4>1. c = [live EXCEPT !.socket = "none", !.status = "reconnecting", !.timer = TRUE,
                                   !.attempts = live.attempts + 1]
                BY <3>2 DEF Rescheduled
            <4>2. live.attempts + 1 \in Nat
                BY <1>1 DEF Clients
            <4> HIDE DEF c
            <4> QED BY <1>1, <4>1, <4>2 DEF Clients
        <3> QED BY <3>1, <3>2
    <2>2. live' = c /\ pipe' = <<>> /\ UNCHANGED <<org, shown, usage>>
        BY <1>5 DEF Closed, Socket
    <2> HIDE DEF c
    <2> QED BY <2>1, <2>2, SocketStep DEF Sound
<1> QED BY <1>2, <1>3, <1>4, <1>5

(* A socket is opened again, by the nudge or by the timer.                 *)
LEMMA Reconnects ==
    ASSUME LiveInv, Nudge \/ ReconnectTimer PROVE LiveInv'
<1>1. live \in Clients /\ (live.org # NoOrg => Sound(live))
    BY DEF LiveInv, LiveTypes, LiveViewIsOurs, Sound
<1>2. UNCHANGED <<org, shown, usage, pipe>>
    BY DEF Nudge, ReconnectTimer
<1>3. live' \in Clients /\ live'.org = live.org /\ (live.org # NoOrg => Sound(live'))
    <2>1. CASE Nudge
        <3> DEFINE c == [TornDown(live) EXCEPT !.attempts = 0, !.socket = "opening", !.status = "connecting"]
        <3>1. live' = c
            BY <2>1 DEF Nudge
        <3>2. c \in Clients /\ c.org = live.org /\ c.socket = "opening" /\ c.status = "connecting" /\ ~c.timer
            BY <1>1 DEF Clients, TornDown
        <3> QED BY <3>1, <3>2 DEF Sound
    <2>2. CASE ReconnectTimer
        <3> DEFINE c == [live EXCEPT !.timer = FALSE]
        <3>1. live' = Connected(c) /\ live.timer
            BY <2>2 DEF ReconnectTimer
        <3>2. c \in Clients /\ c.org = live.org /\ ~c.timer /\ c.socket = live.socket /\ c.status = live.status
            BY <1>1 DEF Clients
        <3> HIDE DEF c
        <3>3. CASE live.socket = "none"
            <4>1. live' \in Clients /\ live'.org = live.org /\ (c.status # "connected" => Sound(live'))
                BY <3>1, <3>2, <3>3, ConnectedIs
            <4> QED BY <1>1, <3>2, <3>3, <4>1 DEF Sound
        <3>4. CASE live.socket # "none"
            BY <1>1, <3>1, <3>2, <3>4 DEF Sound, Connected, Clients
        <3> QED BY <3>3, <3>4
    <2> QED BY <2>1, <2>2
<1> QED BY <1>2, <1>3 DEF LiveInv, LiveTypes, OwnFrames, LiveViewIsOurs, Sound

LEMMA FramesMove ==
    ASSUME LiveInv, Message \/ \E o \in LiveOrgs : Recorded(o) PROVE LiveInv'
<1>1. live \in Clients /\ pipe \in Seq(LiveOrgs \X Nat) /\ usage \in [LiveOrgs -> Nat]
    BY DEF LiveInv, LiveTypes
<1>2. UNCHANGED <<org, live>>
    BY DEF Message, Recorded
<1>3. CASE Message
    <2>1. /\ pipe # <<>> /\ pipe' = Tail(pipe) /\ shown' = shown \cup {Head(pipe)} /\ UNCHANGED usage
        BY <1>3 DEF Message, Dispatch
    <2>2. pipe' \in Seq(LiveOrgs \X Nat) /\ Head(pipe) = pipe[1] /\ 1 \in 1..Len(pipe)
          /\ Len(pipe') = Len(pipe) - 1 /\ \A i \in 1..Len(pipe') : pipe'[i] = pipe[i + 1]
        BY <1>1, <2>1
    <2>3. OwnFrames'
        <3>1. ASSUME NEW i \in 1..Len(pipe') PROVE pipe'[i][1] = live.org
            <4>1. Len(pipe) \in Nat /\ i \in Nat /\ 1 <= i /\ i <= Len(pipe) - 1
                <5>1. Len(pipe) \in Nat /\ Len(pipe') = Len(pipe) - 1
                    BY <1>1, <2>2
                <5> QED BY <5>1
            <4>2. i + 1 \in 1..Len(pipe) /\ pipe'[i] = pipe[i + 1]
                BY <2>2, <4>1
            <4>3. \A j \in 1..Len(pipe) : pipe[j][1] = live.org
                BY DEF LiveInv, OwnFrames
            <4> QED BY <4>2, <4>3
        <3> QED BY <1>2, <3>1 DEF OwnFrames
    <2>4. live.org # NoOrg => \A event \in shown' : event[1] = org
        BY <2>1, <2>2 DEF LiveInv, OwnFrames, LiveViewIsOurs
    <2> QED BY <1>1, <1>2, <2>1, <2>2, <2>3, <2>4 DEF LiveInv, LiveTypes, LiveViewIsOurs
<1>4. ASSUME NEW o \in LiveOrgs, Recorded(o) PROVE LiveInv'
    <2>1. usage' = [usage EXCEPT ![o] = usage[o] + 1] /\ usage' \in [LiveOrgs -> Nat] /\ UNCHANGED shown
        BY <1>1, <1>4 DEF Recorded
    <2>2. CASE pipe' = pipe
        BY <1>1, <1>2, <2>1, <2>2 DEF LiveInv, LiveTypes, OwnFrames, LiveViewIsOurs
    <2>3. CASE live.org = o /\ pipe' = Append(pipe, <<o, usage'[o]>>)
        <3>1. <<o, usage'[o]>> \in LiveOrgs \X Nat
            BY <2>1
        <3>2. pipe' \in Seq(LiveOrgs \X Nat) /\ OwnFrames'
            <4>1. /\ pipe' \in Seq(LiveOrgs \X Nat) /\ Len(pipe') = Len(pipe) + 1
                  /\ Len(pipe) \in Nat
                BY <1>1, <2>3, <3>1
            <4>2. /\ \A i \in 1..Len(pipe) : pipe'[i] = pipe[i]
                  /\ pipe'[Len(pipe) + 1] = <<o, usage'[o]>>
                BY <1>1, <2>3, <3>1
            <4>3. \A i \in 1..Len(pipe) : pipe[i][1] = live.org
                BY DEF LiveInv, OwnFrames
            <4>4. ASSUME NEW i \in 1..Len(pipe') PROVE pipe'[i][1] = live.org
                <5>1. CASE i = Len(pipe) + 1
                    BY <2>3, <4>2, <5>1
                <5>2. CASE i # Len(pipe) + 1
                    <6>1. i \in 1..Len(pipe)
                        BY <4>1, <5>2
                    <6> QED BY <4>2, <4>3, <6>1
                <5> QED BY <5>1, <5>2
            <4> QED BY <1>2, <4>1, <4>4 DEF OwnFrames
        <3> QED BY <1>1, <1>2, <2>1, <3>2 DEF LiveInv, LiveTypes, LiveViewIsOurs
    <2> QED BY <1>4, <2>2, <2>3 DEF Recorded
<1> QED BY <1>3, <1>4

(* The live figures of a tab are those of the organization it shows, its   *)
(* status is that of its socket, and no timer runs beside one, for any     *)
(* organizations and any number of attempts, switches and drops.           *)
THEOREM LiveFiguresAreOurs == LiveSpec => []LiveViewIsOurs
<1>1. LiveInit => LiveInv /\ org \in LiveOrgs \cup {NoOrg}
    BY DEF LiveInit, LiveInv, LiveTypes, OwnFrames, LiveViewIsOurs, NoClient, Clients
<1>2. LiveInv /\ org \in LiveOrgs \cup {NoOrg} /\ [LiveNext]_liveVars
        => LiveInv' /\ (org \in LiveOrgs \cup {NoOrg})'
    <2> SUFFICES ASSUME LiveInv, org \in LiveOrgs \cup {NoOrg}, [LiveNext]_liveVars
                 PROVE  LiveInv' /\ org' \in LiveOrgs \cup {NoOrg}
        OBVIOUS
    <2>1. CASE TokenStored \/ TokenCleared
        BY <2>1, EffectStep DEF TokenStored, TokenCleared
    <2>2. CASE \E o \in LiveOrgs : SwitchOrganization(o)
        BY <2>2, EffectStep DEF SwitchOrganization
    <2>3. CASE Opened \/ AuthRejected \/ GoesSilent \/ Closed
        BY <2>3, SocketEvents DEF Opened, AuthRejected, GoesSilent, Closed, Socket
    <2>4. CASE Nudge \/ ReconnectTimer
        BY <2>4, Reconnects DEF Nudge, ReconnectTimer
    <2>5. CASE Message \/ \E o \in LiveOrgs : Recorded(o)
        BY <2>5, FramesMove DEF Message, Recorded
    <2>6. CASE \/ TokenAges \/ TokenRenewed \/ LateMessage \/ InvalidateCharts
               \/ (\E o \in LiveOrgs : Load(o) \/ Loaded(o)) \/ UNCHANGED liveVars
        <3>1. UNCHANGED <<org, live, pipe, shown, usage>>
            BY <2>6 DEF TokenAges, TokenRenewed, LateMessage, LateFrame, InvalidateCharts, Load, Loaded, liveVars
        <3> QED BY <3>1 DEF LiveInv, LiveTypes, OwnFrames, LiveViewIsOurs
    <2> QED BY <2>1, <2>2, <2>3, <2>4, <2>5, <2>6 DEF LiveNext
<1>3. LiveInv => LiveViewIsOurs
    BY DEF LiveInv
<1> QED BY <1>1, <1>2, <1>3, PTL DEF LiveSpec

-----------------------------------------------------------------------------
(* Reading the cost records.  Whatever the key, a GROUP BY puts each        *)
(* selected record in one row, so the sum of its rows is that of the       *)
(* records (GroupsAddUp); limits, merges by week and month and the         *)
(* overview's dates follow from it part by part (PartAddsUp), and the      *)
(* table a statement reads is one the request may answer from.             *)

(* One row of a GROUP BY, for the group of the key and currency in g.      *)
GroupOf(table, S, key) == [i \in S |-> <<key[i], table[i].currency>>]
RowFor(table, S, key) ==
    [g \in Labels(GroupOf(table, S, key), S) |->
        [key |-> g[1], currency |-> g[2],
         cost |-> Cost(table, Labelled(GroupOf(table, S, key), S, g)),
         requests |-> Cardinality(Labelled(GroupOf(table, S, key), S, g))]]
CostIn(table) == [i \in RecordIds |-> table[i].cost]
RecordsAt(table, S) == \A i \in S : table[i] \in Records

LEMMA CostIsSum ==
    ASSUME NEW table, NEW S \in SUBSET RecordIds, RecordsAt(table, S)
    PROVE  /\ IsFiniteSet(S)
           /\ Cost(table, S) = SumOn(CostIn(table), S)
           /\ Cost(table, S) \in Nat
           /\ \A i \in S : CostIn(table)[i] \in Nat
<1>1. IsFiniteSet(S)
  BY RecordsAssumption, FS_Subset
<1>2. \A i \in S : CostIn(table)[i] = [j \in S |-> table[j].cost][i] /\ CostIn(table)[i] \in Nat
  BY DEF CostIn, RecordsAt, Records
<1>3. SumOn(CostIn(table), S) = SumOn([j \in S |-> table[j].cost], S)
  <2> DEFINE f == [j \in S |-> table[j].cost]
  <2>1. \A i \in S : CostIn(table)[i] = f[i]
    BY <1>2
  <2> HIDE DEF f
  <2>2. SumOn(CostIn(table), S) = SumOn(f, S)
    BY <1>1, <2>1, SumSame
  <2> USE DEF f
  <2>3. QED
    BY <2>2
<1>4. SumOn(CostIn(table), S) \in Nat
  BY <1>1, <1>2, SumIsNat
<1>5. Cost(table, S) = SumOn([j \in S |-> table[j].cost], S)
  BY DEF Cost, SumOn
<1>6. QED
  BY <1>1, <1>2, <1>3, <1>4, <1>5

LEMMA RowsOfGroups ==
    ASSUME NEW table, NEW S, NEW key
    PROVE  GroupBy(table, S, key) = {RowFor(table, S, key)[g] : g \in Labels(GroupOf(table, S, key), S)}
<1>1. GroupBy(table, S, key) =
        {[key |-> g[1], currency |-> g[2],
          cost |-> Cost(table, {i \in S : GroupOf(table, S, key)[i] = g}),
          requests |-> Cardinality({i \in S : GroupOf(table, S, key)[i] = g})] :
            g \in {GroupOf(table, S, key)[i] : i \in S}}
  BY Zenon DEF GroupBy, GroupOf
<1>2. \A g \in Labels(GroupOf(table, S, key), S) : RowFor(table, S, key)[g] =
        [key |-> g[1], currency |-> g[2],
          cost |-> Cost(table, {i \in S : GroupOf(table, S, key)[i] = g}),
          requests |-> Cardinality({i \in S : GroupOf(table, S, key)[i] = g})]
  BY Zenon DEF RowFor, Labelled
<1>3. Labels(GroupOf(table, S, key), S) = {GroupOf(table, S, key)[i] : i \in S}
  BY DEF Labels
<1>4. \A x : x \in GroupBy(table, S, key) <=>
        x \in {RowFor(table, S, key)[g] : g \in Labels(GroupOf(table, S, key), S)}
  <2> TAKE x
  <2> DEFINE groups == Labels(GroupOf(table, S, key), S)
             Raw(g) == [key |-> g[1], currency |-> g[2],
                        cost |-> Cost(table, {i \in S : GroupOf(table, S, key)[i] = g}),
                        requests |-> Cardinality({i \in S : GroupOf(table, S, key)[i] = g})]
  <2>1. GroupBy(table, S, key) = {Raw(g) : g \in groups}
    BY Zenon, <1>1, <1>3
  <2>2. \A g \in groups : RowFor(table, S, key)[g] = Raw(g)
    BY <1>2
  <2> HIDE DEF Raw, groups
  <2>3. x \in {Raw(g) : g \in groups} <=> x \in {RowFor(table, S, key)[g] : g \in groups}
    BY Zenon, <2>2
  <2> USE DEF groups
  <2>4. QED
    BY <2>1, <2>3
<1>5. QED
  BY <1>4

(* What the rows of a GROUP BY carry, whatever the key: no record is left  *)
(* out and none is counted twice.                                          *)
Billed(rows, C) == {r \in rows : r.currency \in C}
BilledRecords(table, S, C) == {i \in S : table[i].currency \in C}

LEMMA RowsAreTyped ==
    ASSUME NEW table, NEW S \in SUBSET RecordIds, RecordsAt(table, S), NEW key
    PROVE  /\ IsFiniteSet(GroupBy(table, S, key))
           /\ \A r \in GroupBy(table, S, key) : /\ r.cost \in Nat
                                                /\ \E i \in S : r.key = key[i] /\ r.currency = table[i].currency
           /\ \A i \in S : \E r \in GroupBy(table, S, key) : r.key = key[i]
<1> DEFINE group == GroupOf(table, S, key)
           groups == Labels(group, S)
           line == RowFor(table, S, key)
<1>1. IsFiniteSet(S)
  BY CostIsSum
<1>2. GroupBy(table, S, key) = {line[g] : g \in groups}
  BY RowsOfGroups
<1>3. IsFiniteSet(groups)
  BY <1>1, FiniteImage DEF Labels
<1>4. IsFiniteSet({line[g] : g \in groups})
  <2> HIDE DEF groups, line
  <2>1. QED
    BY <1>3, FiniteImage
<1>5. \A g \in groups : line[g].cost \in Nat /\ \E i \in S : line[g].key = key[i] /\ line[g].currency = table[i].currency
  <2> SUFFICES ASSUME NEW g \in groups
               PROVE  line[g].cost \in Nat /\ \E i \in S : line[g].key = key[i] /\ line[g].currency = table[i].currency
    OBVIOUS
  <2>1. PICK i \in S : g = <<key[i], table[i].currency>>
    BY DEF Labels, GroupOf
  <2>2. Labelled(group, S, g) \in SUBSET S
    BY DEF Labelled
  <2>3. Cost(table, Labelled(group, S, g)) \in Nat
    <3> DEFINE part == Labelled(group, S, g)
    <3>1. part \in SUBSET RecordIds /\ RecordsAt(table, part)
      BY <2>2 DEF RecordsAt
    <3> HIDE DEF part
    <3>2. Cost(table, part) \in Nat
      BY <3>1, CostIsSum
    <3> USE DEF part
    <3>3. QED
      BY <3>2
  <2>4. line[g].cost = Cost(table, Labelled(group, S, g)) /\ line[g].key = g[1] /\ line[g].currency = g[2]
    BY DEF RowFor
  <2>5. QED
    BY <2>1, <2>3, <2>4
<1>6. \A i \in S : group[i] \in groups /\ line[group[i]].key = key[i]
  BY DEF Labels, GroupOf, RowFor
<1>7. QED
  <2> HIDE DEF group, groups, line
  <2>1. \A r \in GroupBy(table, S, key) : /\ r.cost \in Nat
                                          /\ \E i \in S : r.key = key[i] /\ r.currency = table[i].currency
    BY <1>2, <1>5
  <2>2. \A i \in S : \E r \in GroupBy(table, S, key) : r.key = key[i]
    BY <1>2, <1>6
  <2>3. QED
    BY <1>2, <1>4, <2>1, <2>2

LEMMA GroupsAddUp ==
    ASSUME NEW table, NEW S \in SUBSET RecordIds, RecordsAt(table, S), NEW key, NEW C
    PROVE  /\ Amount(Billed(GroupBy(table, S, key), C)) = Cost(table, BilledRecords(table, S, C))
           /\ RequestCount(Billed(GroupBy(table, S, key), C)) = Cardinality(BilledRecords(table, S, C))
<1> DEFINE group == GroupOf(table, S, key)
           T == BilledRecords(table, S, C)
           L == Labels(group, T)
           line == RowFor(table, S, key)
           chosen == Billed(GroupBy(table, S, key), C)
<1>1. IsFiniteSet(S) /\ T \in SUBSET RecordIds /\ T \in SUBSET S /\ RecordsAt(table, T)
  BY CostIsSum DEF BilledRecords, RecordsAt
<1>2. IsFiniteSet(T) /\ IsFiniteSet(L)
  <2>1. IsFiniteSet(T)
    BY <1>1, FS_Subset
  <2>2. QED
    BY <2>1, FiniteImage DEF Labels
<1>3. L \in SUBSET Labels(group, S) /\ \A g \in Labels(group, S) : g \in L <=> g[2] \in C
  <2>1. L \in SUBSET Labels(group, S)
    BY <1>1 DEF Labels
  <2>2. ASSUME NEW g \in Labels(group, S) PROVE g \in L <=> g[2] \in C
    <3>1. PICK i \in S : g = group[i]
      BY DEF Labels
    <3>2. \A j \in S : group[j][2] = table[j].currency
      BY DEF GroupOf
    <3>3. g[2] \in C => g \in L
      <4> SUFFICES ASSUME g[2] \in C PROVE g \in L
        OBVIOUS
      <4>1. i \in T
        BY <3>1, <3>2 DEF BilledRecords
      <4>2. QED
        BY <3>1, <4>1 DEF Labels
    <3>4. g \in L => g[2] \in C
      <4> SUFFICES ASSUME g \in L PROVE g[2] \in C
        OBVIOUS
      <4>1. PICK j \in T : g = group[j]
        BY DEF Labels
      <4>2. QED
        BY <3>2, <4>1 DEF BilledRecords
    <3>5. QED
      BY <3>3, <3>4
  <2>3. QED
    BY <2>1, <2>2
<1>4. \A g \in Labels(group, S) : /\ line[g].currency = g[2] /\ line[g].key = g[1]
                                  /\ line[g].cost = Cost(table, Labelled(group, S, g))
                                  /\ line[g].requests = Cardinality(Labelled(group, S, g))
  BY DEF RowFor
<1>5. chosen = {line[g] : g \in L}
  <2>1. GroupBy(table, S, key) = {line[g] : g \in Labels(group, S)}
    BY RowsOfGroups
  <2> HIDE DEF line, L, group
  <2>2. QED
    BY <1>3, <1>4, <2>1 DEF Billed
<1>6. \A g, h \in L : line[g] = line[h] => g = h
  <2> SUFFICES ASSUME NEW g \in L, NEW h \in L, line[g] = line[h] PROVE g = h
    OBVIOUS
  <2>1. g[1] = h[1] /\ g[2] = h[2]
    BY <1>3, <1>4
  <2>2. PICK i \in S, j \in S : g = <<key[i], table[i].currency>> /\ h = <<key[j], table[j].currency>>
    BY <1>3 DEF Labels, GroupOf
  <2>3. QED
    BY <2>1, <2>2
<1>7. \A g \in L : Labelled(group, T, g) = Labelled(group, S, g)
  <2> SUFFICES ASSUME NEW g \in L PROVE Labelled(group, S, g) \subseteq T
    BY <1>1 DEF Labelled
  <2>1. g[2] \in C
    BY <1>3
  <2>2. \A i \in S : group[i] = g => table[i].currency \in C
    BY <2>1 DEF GroupOf
  <2>3. QED
    BY <2>2 DEF Labelled, BilledRecords
<1>8. Amount(chosen) = Cost(table, T)
  <2> DEFINE f == CostIn(table)
             p == GroupSums(f, group, T)
             v == [r \in chosen |-> r.cost]
  <2>1. IsFiniteSet(T) /\ Cost(table, T) = SumOn(f, T) /\ \A i \in T : f[i] \in Nat
    BY <1>1, CostIsSum
  <2>2. \A g \in L : p[g] = Cost(table, Labelled(group, S, g)) /\ p[g] \in Nat
    <3> SUFFICES ASSUME NEW g \in L PROVE p[g] = Cost(table, Labelled(group, S, g)) /\ p[g] \in Nat
      OBVIOUS
    <3> DEFINE part == Labelled(group, T, g)
    <3>1. part \in SUBSET RecordIds /\ RecordsAt(table, part)
      BY <1>1 DEF RecordsAt, Labelled
    <3>2. p[g] = SumOn(f, part)
      BY DEF GroupSums
    <3> HIDE DEF part, p
    <3>3. Cost(table, part) = SumOn(CostIn(table), part) /\ Cost(table, part) \in Nat
      BY <3>1, CostIsSum
    <3>4. p[g] = Cost(table, part) /\ p[g] \in Nat
      BY <3>2, <3>3
    <3>5. part = Labelled(group, S, g)
      BY <1>7 DEF part
    <3>6. QED
      BY <3>4, <3>5
  <2>3. \A g \in L : p[g] \in Nat /\ v[line[g]] = p[g]
    <3> SUFFICES ASSUME NEW g \in L PROVE v[line[g]] = p[g]
      BY <2>2
    <3>1. line[g] \in chosen /\ line[g].cost = p[g]
      BY <1>3, <1>4, <1>5, <2>2
    <3> HIDE DEF line, chosen, p
    <3>2. QED
      BY <3>1
  <2>4. SumOn(p, L) = SumOn(f, T)
    <3> HIDE DEF T, f, group
    <3>1. QED
      BY <2>1, SumOfGroups
  <2>5. SumOn(v, {line[g] : g \in L}) = SumOn(p, L)
    <3> HIDE DEF L, line, p, v
    <3>1. QED
      BY <1>2, <1>6, <2>3, SumOverImage
  <2>6. Amount(chosen) = SumOn(v, chosen)
    BY DEF Amount, SumOn
  <2> HIDE DEF chosen, v, p, f, L, T, line
  <2>7. QED
    BY <1>5, <2>1, <2>4, <2>5, <2>6
<1>9. RequestCount(chosen) = Cardinality(T)
  <2> DEFINE f == [i \in T |-> 1]
             p == GroupSums(f, group, T)
             v == [r \in chosen |-> r.requests]
  <2>1. SumOn(f, T) = Cardinality(T)
    <3>1. \A i \in T : f[i] = 1
      OBVIOUS
    <3> HIDE DEF f, T
    <3>2. QED
      BY <1>2, <3>1, SumOfOnes
  <2>2. \A g \in L : p[g] = Cardinality(Labelled(group, S, g)) /\ p[g] \in Nat
    <3> SUFFICES ASSUME NEW g \in L PROVE p[g] = Cardinality(Labelled(group, S, g)) /\ p[g] \in Nat
      OBVIOUS
    <3> DEFINE part == Labelled(group, T, g)
    <3>1. IsFiniteSet(part) /\ \A i \in part : f[i] = 1
      BY <1>2, FS_Subset DEF Labelled
    <3>2. p[g] = SumOn(f, part)
      BY DEF GroupSums
    <3> HIDE DEF part, p, f
    <3>3. SumOn(f, part) = Cardinality(part) /\ Cardinality(part) \in Nat
      BY <3>1, SumOfOnes, FS_CardinalityType
    <3>4. part = Labelled(group, S, g)
      BY <1>7 DEF part
    <3>5. QED
      BY <3>2, <3>3, <3>4
  <2>3. \A g \in L : p[g] \in Nat /\ v[line[g]] = p[g]
    <3> SUFFICES ASSUME NEW g \in L PROVE v[line[g]] = p[g]
      BY <2>2
    <3>1. line[g] \in chosen /\ line[g].requests = p[g]
      BY <1>3, <1>4, <1>5, <2>2
    <3> HIDE DEF line, chosen, p
    <3>2. QED
      BY <3>1
  <2>4. SumOn(p, L) = SumOn(f, T)
    <3>1. \A i \in T : f[i] \in Nat
      OBVIOUS
    <3> HIDE DEF T, f, group
    <3>2. QED
      BY <1>2, <3>1, SumOfGroups
  <2>5. SumOn(v, {line[g] : g \in L}) = SumOn(p, L)
    <3> HIDE DEF L, line, p, v
    <3>1. QED
      BY <1>2, <1>6, <2>3, SumOverImage
  <2>6. RequestCount(chosen) = SumOn(v, chosen)
    BY DEF RequestCount, SumOn
  <2> HIDE DEF chosen, v, p, f, L, T, line
  <2>7. QED
    BY <1>5, <2>1, <2>4, <2>5, <2>6
<1>10. QED
  BY <1>8, <1>9

Tables == [RecordIds -> Records \cup {NoRecord}]

LEMMA SelectedRecords ==
    ASSUME NEW table \in Tables, NEW from, NEW to, NEW filter
    PROVE  /\ Selected(table, from, to, filter) \in SUBSET RecordIds
           /\ RecordsAt(table, Selected(table, from, to, filter))
  BY DEF Selected, RecordsAt, Tables

LEMMA BilledIsSpent ==
    ASSUME NEW table \in Tables, NEW from, NEW to, NEW filter, NEW C
    PROVE  Cost(table, BilledRecords(table, Selected(table, from, to, filter), C)) = Spent(table, from, to, filter, C)
<1>1. BilledRecords(table, Selected(table, from, to, filter), C)
        = {i \in RecordIds : /\ table[i] # NoRecord /\ table[i].day \in from..to
                             /\ Matches(table[i], filter) /\ table[i].currency \in C}
  BY DEF BilledRecords, Selected
<1>2. QED
  BY Zenon, <1>1 DEF Spent

(* A breakdown by any key, in one currency and in all of them.             *)
LEMMA InOneCurrency ==
    ASSUME NEW table \in Tables, NEW from, NEW to, NEW filter, NEW key, NEW currency
    PROVE  Amount(In(GroupBy(table, Selected(table, from, to, filter), key), currency))
             = Spent(table, from, to, filter, {currency})
<1> DEFINE S == Selected(table, from, to, filter)
           rows == GroupBy(table, S, key)
<1>1. S \in SUBSET RecordIds /\ RecordsAt(table, S)
  BY SelectedRecords
<1>2. In(rows, currency) = Billed(rows, {currency})
  BY DEF In, Billed
<1>3. Amount(Billed(rows, {currency})) = Cost(table, BilledRecords(table, S, {currency}))
  <2> HIDE DEF S
  <2>1. QED
    BY <1>1, GroupsAddUp
<1>4. Cost(table, BilledRecords(table, S, {currency})) = Spent(table, from, to, filter, {currency})
  BY BilledIsSpent
<1> HIDE DEF S, rows
<1>5. Amount(In(rows, currency)) = Spent(table, from, to, filter, {currency})
  BY <1>2, <1>3, <1>4
<1> USE DEF S, rows
<1>6. QED
  BY <1>5

LEMMA InAllCurrencies ==
    ASSUME NEW table \in Tables, NEW from, NEW to, NEW filter, NEW S, S = Selected(table, from, to, filter), NEW key
    PROVE  /\ Amount(GroupBy(table, S, key)) = Spent(table, from, to, filter, Currencies)
           /\ Amount(GroupBy(table, S, key)) = Cost(table, S)
           /\ RequestCount(GroupBy(table, S, key)) = Cardinality(S)
<1> DEFINE rows == GroupBy(table, S, key)
<1>1. S \in SUBSET RecordIds /\ RecordsAt(table, S)
  BY SelectedRecords
<1>2. \A i \in S : table[i].currency \in Currencies
  BY <1>1 DEF RecordsAt, Records
<1>3. BilledRecords(table, S, Currencies) = S
  BY <1>2 DEF BilledRecords
<1>4. Billed(rows, Currencies) = rows
  <2>1. \A r \in rows : \E i \in S : r.currency = table[i].currency
    BY <1>1, RowsAreTyped
  <2> HIDE DEF rows
  <2>2. QED
    BY <1>2, <2>1 DEF Billed
<1>5. /\ Amount(Billed(rows, Currencies)) = Cost(table, BilledRecords(table, S, Currencies))
      /\ RequestCount(Billed(rows, Currencies)) = Cardinality(BilledRecords(table, S, Currencies))
  BY <1>1, GroupsAddUp
<1>6. Cost(table, BilledRecords(table, S, Currencies)) = Spent(table, from, to, filter, Currencies)
  BY BilledIsSpent
<1> HIDE DEF rows
<1>7. Amount(rows) = Spent(table, from, to, filter, Currencies) /\ Amount(rows) = Cost(table, S)
      /\ RequestCount(rows) = Cardinality(S)
  BY <1>3, <1>4, <1>5, <1>6
<1> USE DEF rows
<1>8. QED
  BY <1>7

(* A list of the dearest rows never exceeds what all of them come to.      *)
LEMMA InTheTop ==
    ASSUME NEW table \in Tables, NEW from, NEW to, NEW filter, NEW key, NEW currency,
           NEW n, NEW top \in Limited(GroupBy(table, Selected(table, from, to, filter), key), n)
    PROVE  Amount(In(top, currency)) <= Spent(table, from, to, filter, {currency})
<1> DEFINE S == Selected(table, from, to, filter)
           rows == GroupBy(table, S, key)
           f == [r \in In(rows, currency) |-> r.cost]
           g == [r \in In(top, currency) |-> r.cost]
<1>1. S \in SUBSET RecordIds /\ RecordsAt(table, S)
  BY SelectedRecords
<1>2. IsFiniteSet(rows) /\ \A r \in rows : r.cost \in Nat
  BY <1>1, RowsAreTyped
<1>3. top \subseteq rows
  <2>1. top \in Limited(rows, n)
    OBVIOUS
  <2> HIDE DEF rows
  <2>2. QED
    BY <2>1 DEF Limited, kSubset
<1>4. /\ IsFiniteSet(In(rows, currency)) /\ In(top, currency) \in SUBSET In(rows, currency)
      /\ \A r \in In(rows, currency) : f[r] \in Nat
      /\ \A r \in In(top, currency) : g[r] = f[r]
  <2> HIDE DEF rows
  <2>1. In(rows, currency) \in SUBSET rows
    BY DEF In
  <2>2. IsFiniteSet(In(rows, currency))
    BY <1>2, <2>1, FS_Subset
  <2>3. In(top, currency) \in SUBSET In(rows, currency)
    BY <1>3 DEF In
  <2>4. \A r \in In(rows, currency) : f[r] \in Nat
    BY <1>2, <2>1
  <2>5. QED
    BY <2>2, <2>3, <2>4
<1>5. SumOn(f, In(top, currency)) <= SumOn(f, In(rows, currency))
  <2> HIDE DEF f, rows
  <2>1. QED
    BY <1>4, SumOfSubset
<1>6. SumOn(g, In(top, currency)) = SumOn(f, In(top, currency))
  <2>1. IsFiniteSet(In(top, currency))
    BY <1>4, FS_Subset
  <2> HIDE DEF f, g, rows
  <2>2. QED
    BY <1>4, <2>1, SumSame
<1>7. Amount(In(top, currency)) = SumOn(g, In(top, currency)) /\ Amount(In(rows, currency)) = SumOn(f, In(rows, currency))
  BY DEF Amount, SumOn
<1>8. Amount(In(rows, currency)) = Spent(table, from, to, filter, {currency})
  BY InOneCurrency
<1> HIDE DEF f, g, rows
<1>9. QED
  BY <1>5, <1>6, <1>7, <1>8

LEMMA TheCurrency ==
    ASSUME NEW table \in Tables, OneCurrency(table), NEW i \in RecordIds, NEW j \in RecordIds,
           table[i] # NoRecord, table[j] # NoRecord
    PROVE  table[i].currency = table[j].currency
<1> DEFINE used == {table[k].currency : k \in RecordIds} \ {"none"}
           pair == {table[i].currency, table[j].currency}
<1>1. table[i] \in Records /\ table[j] \in Records
  BY DEF Tables
<1>2. table[i].currency # "none" /\ table[j].currency # "none"
  BY <1>1, RecordsAssumption DEF Records, Currencies
<1>3. IsFiniteSet(used)
  <2>1. IsFiniteSet({table[k].currency : k \in RecordIds})
    <3> DEFINE f == [k \in RecordIds |-> table[k].currency]
    <3>1. {f[k] : k \in RecordIds} = {table[k].currency : k \in RecordIds}
      OBVIOUS
    <3> HIDE DEF f
    <3>2. IsFiniteSet({f[k] : k \in RecordIds})
      BY RecordsAssumption, FiniteImage
    <3>3. QED
      BY <3>1, <3>2
  <2>2. QED
    BY <2>1, FS_Subset
<1>4. pair \subseteq used
  BY <1>2
<1>5. Cardinality(used) <= 1
  BY DEF OneCurrency
<1>6. Cardinality(used) \in Nat
  BY <1>3, FS_CardinalityType
<1> HIDE DEF used
<1>7. Cardinality(pair) <= 1
  <2>1. Cardinality(pair) <= Cardinality(used)
    BY <1>3, <1>4, FS_Subset
  <2>2. Cardinality(pair) \in Nat
    BY <1>3, <1>4, FS_Subset, FS_CardinalityType
  <2>3. QED
    BY <1>5, <1>6, <2>1, <2>2
<1>8. SUFFICES ASSUME table[i].currency # table[j].currency PROVE FALSE
  OBVIOUS
<1>9. Cardinality(pair) = 2
  <2>1. IsFiniteSet({table[j].currency}) /\ Cardinality({table[j].currency}) = 1
    BY FS_Singleton
  <2>2. pair = {table[j].currency} \cup {table[i].currency} /\ table[i].currency \notin {table[j].currency}
    BY <1>8
  <2> HIDE DEF pair
  <2>3. Cardinality(pair) = Cardinality({table[j].currency}) + 1
    BY <2>1, <2>2, FS_AddElement
  <2>4. QED
    BY <2>1, <2>3
<1>10. QED
  BY <1>7, <1>9

(* Merging the rows of a bucket keeps the sum.                             *)
BucketLabel(daily, bucketOf) == [r \in daily |-> bucketOf[r.key]]
BucketRow(daily, bucketOf, label) ==
    [b \in Labels(BucketLabel(daily, bucketOf), daily) |->
        [key |-> b, currency |-> label[b],
         cost |-> Amount(Labelled(BucketLabel(daily, bucketOf), daily, b)),
         requests |-> RequestCount(Labelled(BucketLabel(daily, bucketOf), daily, b))]]

LEMMA BucketRows ==
    ASSUME NEW daily, NEW bucketOf, NEW rows \in Rebucketed(daily, bucketOf)
    PROVE  \E label :
             /\ rows = {BucketRow(daily, bucketOf, label)[b] : b \in Labels(BucketLabel(daily, bucketOf), daily)}
             /\ \A b \in Labels(BucketLabel(daily, bucketOf), daily) : \E r \in daily : label[b] = r.currency
<1> DEFINE buckets == {bucketOf[r.key] : r \in daily}
           Of(b) == {r \in daily : bucketOf[r.key] = b}
           Firsts(b) == {r.currency : r \in {x \in Of(b) : \A y \in Of(b) : x.key <= y.key}}
           Merged(label) == {[key |-> b, currency |-> label[b], cost |-> Amount(Of(b)), requests |-> RequestCount(Of(b))] :
                               b \in buckets}
<1>1. rows \in {Merged(label) : label \in {f \in [buckets -> Currencies] : \A b \in buckets : f[b] \in Firsts(b)}}
  BY Zenon DEF Rebucketed
<1>2. PICK label \in {f \in [buckets -> Currencies] : \A b \in buckets : f[b] \in Firsts(b)} : rows = Merged(label)
  BY Zenon, <1>1
<1>3. buckets = Labels(BucketLabel(daily, bucketOf), daily)
  BY DEF Labels, BucketLabel
<1>4. \A b : Of(b) = Labelled(BucketLabel(daily, bucketOf), daily, b)
  BY DEF Labelled, BucketLabel
<1>5. \A b \in buckets : \E r \in daily : label[b] = r.currency
  <2> SUFFICES ASSUME NEW b \in buckets PROVE \E r \in daily : label[b] = r.currency
    OBVIOUS
  <2>1. label[b] \in Firsts(b)
    BY <1>2
  <2>2. QED
    BY <2>1
<1>6. rows = {BucketRow(daily, bucketOf, label)[b] : b \in buckets}
  <2> DEFINE Raw(b) == [key |-> b, currency |-> label[b], cost |-> Amount(Of(b)), requests |-> RequestCount(Of(b))]
  <2>1. \A b \in buckets : BucketRow(daily, bucketOf, label)[b] = Raw(b)
    <3> SUFFICES ASSUME NEW b \in buckets PROVE BucketRow(daily, bucketOf, label)[b] = Raw(b)
      OBVIOUS
    <3>1. b \in Labels(BucketLabel(daily, bucketOf), daily)
      BY <1>3
    <3>2. BucketRow(daily, bucketOf, label)[b] =
            [key |-> b, currency |-> label[b],
             cost |-> Amount(Labelled(BucketLabel(daily, bucketOf), daily, b)),
             requests |-> RequestCount(Labelled(BucketLabel(daily, bucketOf), daily, b))]
      BY <3>1 DEF BucketRow
    <3>3. Labelled(BucketLabel(daily, bucketOf), daily, b) = Of(b)
      BY <1>4
    <3> HIDE DEF Of
    <3>4. QED
      BY <3>2, <3>3
  <2>2. rows = {Raw(b) : b \in buckets}
    BY Zenon, <1>2
  <2> HIDE DEF Raw, buckets
  <2>3. \A x : x \in {Raw(b) : b \in buckets} <=> x \in {BucketRow(daily, bucketOf, label)[b] : b \in buckets}
    BY Zenon, <2>1
  <2>4. QED
    BY <2>2, <2>3
<1> HIDE DEF buckets
<1>7. QED
  BY <1>3, <1>5, <1>6

LEMMA MergedRowsAddUp ==
    ASSUME NEW daily, IsFiniteSet(daily), \A r \in daily : r.cost \in Nat, NEW bucketOf, NEW label
    PROVE  Amount({BucketRow(daily, bucketOf, label)[b] : b \in Labels(BucketLabel(daily, bucketOf), daily)})
             = Amount(daily)
<1> DEFINE bucket == BucketLabel(daily, bucketOf)
           L == Labels(bucket, daily)
           line == BucketRow(daily, bucketOf, label)
           rows == {line[b] : b \in L}
           f == [r \in daily |-> r.cost]
           p == GroupSums(f, bucket, daily)
           v == [r \in rows |-> r.cost]
<1>1. \A r \in daily : f[r] \in Nat
  OBVIOUS
<1>2. IsFiniteSet(L)
  BY FiniteImage DEF Labels
<1>3. \A b \in L : line[b].key = b /\ line[b].cost = Amount(Labelled(bucket, daily, b))
  BY DEF BucketRow
<1>4. \A b \in L : p[b] = Amount(Labelled(bucket, daily, b)) /\ p[b] \in Nat
  <2> SUFFICES ASSUME NEW b \in L PROVE p[b] = Amount(Labelled(bucket, daily, b)) /\ p[b] \in Nat
    OBVIOUS
  <2> DEFINE part == Labelled(bucket, daily, b)
             g == [r \in part |-> r.cost]
  <2>1. part \in SUBSET daily /\ IsFiniteSet(part)
    BY FS_Subset DEF Labelled
  <2>2. \A r \in part : g[r] = f[r] /\ f[r] \in Nat
    BY <2>1
  <2>3. p[b] = SumOn(f, part)
    BY DEF GroupSums
  <2>4. Amount(part) = SumOn(g, part)
    BY DEF Amount, SumOn
  <2> HIDE DEF part, f, g, p
  <2>5. SumOn(g, part) = SumOn(f, part)
    BY <2>1, <2>2, SumSame
  <2>6. SumOn(f, part) \in Nat
    BY <2>1, <2>2, SumIsNat
  <2>7. p[b] = Amount(part) /\ p[b] \in Nat
    BY <2>3, <2>4, <2>5, <2>6
  <2> USE DEF part
  <2>8. QED
    BY <2>7
<1>5. \A b, c \in L : line[b] = line[c] => b = c
  <2> HIDE DEF line, L
  <2>1. QED
    BY <1>3
<1>6. \A b \in L : p[b] \in Nat /\ v[line[b]] = p[b]
  <2> SUFFICES ASSUME NEW b \in L PROVE v[line[b]] = p[b]
    BY <1>4
  <2>1. line[b] \in rows /\ line[b].cost = p[b]
    BY <1>3, <1>4
  <2> HIDE DEF line, rows, p
  <2>2. QED
    BY <2>1
<1>7. Amount(rows) = SumOn(v, rows) /\ Amount(daily) = SumOn(f, daily)
  BY DEF Amount, SumOn
<1>8. SumOn(p, L) = SumOn(f, daily)
  <2> HIDE DEF f, bucket
  <2>1. QED
    BY <1>1, SumOfGroups
<1>9. SumOn(v, rows) = SumOn(p, L)
  <2> HIDE DEF L, line, p, v
  <2>1. SumOn(v, {line[b] : b \in L}) = SumOn(p, L)
    BY <1>2, <1>5, <1>6, SumOverImage
  <2>2. QED
    BY <2>1
<1> HIDE DEF v, p, f
<1>10. Amount(rows) = Amount(daily)
  BY <1>7, <1>8, <1>9
<1>11. QED
  BY <1>10

LEMMA NothingCosts ==
    /\ Amount({}) = 0
    /\ \A table : Cost(table, {}) = 0
<1>1. Amount({}) = SumOn([r \in {} |-> r.cost], {})
  BY DEF Amount, SumOn
<1>2. \A table : Cost(table, {}) = SumOn([i \in {} |-> table[i].cost], {})
  BY DEF Cost, SumOn
<1>3. QED
  BY <1>1, <1>2, EmptySum

(* While one currency is in use, a merged series is that of the days.      *)
LEMMA InBuckets ==
    ASSUME NEW table \in Tables, OneCurrency(table), NEW from, NEW to, NEW filter, NEW key, NEW currency,
           NEW bucketOf, NEW rows \in Rebucketed(GroupBy(table, Selected(table, from, to, filter), key), bucketOf)
    PROVE  Amount(In(rows, currency)) = Spent(table, from, to, filter, {currency})
<1> DEFINE S == Selected(table, from, to, filter)
           daily == GroupBy(table, S, key)
<1>1. S \in SUBSET RecordIds /\ RecordsAt(table, S) /\ \A i \in S : table[i] # NoRecord
  BY SelectedRecords DEF Selected
<1>2. /\ IsFiniteSet(daily)
      /\ \A r \in daily : r.cost \in Nat /\ \E i \in S : r.currency = table[i].currency
  BY <1>1, RowsAreTyped
<1>3. PICK label :
        /\ rows = {BucketRow(daily, bucketOf, label)[b] : b \in Labels(BucketLabel(daily, bucketOf), daily)}
        /\ \A b \in Labels(BucketLabel(daily, bucketOf), daily) : \E r \in daily : label[b] = r.currency
  BY BucketRows
<1>4. Amount(rows) = Amount(daily)
  <2> HIDE DEF daily
  <2>1. QED
    BY <1>2, <1>3, MergedRowsAddUp
<1>5. Amount(daily) = Cost(table, S)
  BY InAllCurrencies
<1>6. \A x \in rows : \E i \in S : x.currency = table[i].currency
  <2> HIDE DEF daily
  <2> SUFFICES ASSUME NEW x \in rows PROVE \E i \in S : x.currency = table[i].currency
    OBVIOUS
  <2>1. PICK b \in Labels(BucketLabel(daily, bucketOf), daily) : x = BucketRow(daily, bucketOf, label)[b]
    BY <1>3
  <2>2. x.currency = label[b]
    BY <2>1 DEF BucketRow
  <2>3. QED
    BY <1>2, <1>3, <2>2
<1>7. \A i, j \in S : table[i].currency = table[j].currency
  <2> HIDE DEF S
  <2>1. QED
    BY <1>1, TheCurrency
<1>8. Cost(table, BilledRecords(table, S, {currency})) = Spent(table, from, to, filter, {currency})
  BY BilledIsSpent
<1>9. CASE \E i \in S : table[i].currency = currency
  <2>1. \A i \in S : table[i].currency = currency
    BY <1>7, <1>9
  <2>2. BilledRecords(table, S, {currency}) = S
    BY <2>1 DEF BilledRecords
  <2>3. In(rows, currency) = rows
    BY <1>6, <2>1 DEF In
  <2> HIDE DEF S, daily
  <2>4. QED
    BY <1>4, <1>5, <1>8, <2>2, <2>3
<1>10. CASE ~(\E i \in S : table[i].currency = currency)
  <2>1. BilledRecords(table, S, {currency}) = {}
    BY <1>10 DEF BilledRecords
  <2>2. In(rows, currency) = {}
    BY <1>6, <1>10 DEF In
  <2> HIDE DEF S, daily
  <2>3. QED
    BY <1>8, <2>1, <2>2, NothingCosts
<1>11. QED
  BY <1>9, <1>10

LEMMA KeysOfRows ==
    ASSUME NEW table, NEW S \in SUBSET RecordIds, RecordsAt(table, S), NEW key
    PROVE  {x.key : x \in GroupBy(table, S, key)} = {key[i] : i \in S}
<1> DEFINE rows == GroupBy(table, S, key)
<1>1. /\ IsFiniteSet(GroupBy(table, S, key))
      /\ \A r \in GroupBy(table, S, key) : /\ r.cost \in Nat
                                           /\ \E i \in S : r.key = key[i] /\ r.currency = table[i].currency
      /\ \A i \in S : \E r \in GroupBy(table, S, key) : r.key = key[i]
  BY RowsAreTyped
<1>2. (\A r \in rows : \E i \in S : r.key = key[i]) /\ (\A i \in S : \E r \in rows : r.key = key[i])
  BY <1>1
<1> HIDE DEF rows
<1>3. {x.key : x \in rows} = {key[i] : i \in S}
  BY <1>2
<1> USE DEF rows
<1>4. QED
  BY <1>3

(* Each statement answers what the table it reads has.                     *)
LEMMA PartAddsUp ==
    ASSUME NEW table \in Tables, NEW r, r.from \in {1, MonthStart}, NEW part,
           NEW amount \in Part(part, table, r.from, Today, r.filter, r.currency)
    PROVE  AddsUp(part, amount, table, r)
<1> DEFINE all == [field |-> "all", value |-> "all"]
           S == Selected(table, r.from, Today, r.filter)
           AllTime == Selected(table, 1, Today, all)
           Dates(a, b) == {i \in AllTime : table[i].day \in a..b}
<1>1. Today \in Nat /\ MonthStart \in 1..Today
  BY DaysAssumption
<1>2. \A i \in RecordIds : table[i] # NoRecord =>
        table[i] \in Records /\ table[i].day \in 1..Today /\ table[i].provider # "none" /\ table[i].currency # "none"
  BY RecordsAssumption DEF Tables, Records, Currencies
<1>3. \A a \in 1..(Today + 1), b \in 0..Today : Dates(a, b) = Selected(table, a, b, all)
  BY <1>1, <1>2 DEF Selected
<1>4. CASE part = "providers"
  <2>1. amount = Amount(In(TotalsByProvider(table, S), r.currency))
    BY <1>4 DEF Part
  <2>2. amount = Spent(table, r.from, Today, r.filter, {r.currency})
    BY <2>1, InOneCurrency DEF TotalsByProvider
  <2>3. QED
    BY <1>4, <2>2 DEF AddsUp
<1>5. CASE part = "all_models"
  <2>1. amount = Amount(In(TotalsByModel(table, S), r.currency))
    BY <1>5 DEF Part
  <2>2. amount = Spent(table, r.from, Today, r.filter, {r.currency})
    BY <2>1, InOneCurrency DEF TotalsByModel
  <2>3. QED
    BY <1>5, <2>2 DEF AddsUp
<1>6. CASE part = "projects"
  <2>1. amount = Amount(In(TotalsByProject(table, S), r.currency))
    BY <1>6 DEF Part
  <2>2. amount = Spent(table, r.from, Today, r.filter, {r.currency})
    BY <2>1, InOneCurrency DEF TotalsByProject
  <2>3. QED
    BY <1>6, <2>2 DEF AddsUp
<1>7. CASE part = "heatmap"
  <2>1. amount = Amount(In(Heatmap(table, S), r.currency))
    BY <1>7 DEF Part
  <2>2. amount = Spent(table, r.from, Today, r.filter, {r.currency})
    BY <2>1, InOneCurrency DEF Heatmap
  <2>3. QED
    BY <1>7, <2>2 DEF AddsUp
<1>8. CASE part = "daily"
  <2>1. amount = Amount(In(DailyTrend(table, S), r.currency))
    BY <1>8 DEF Part
  <2>2. amount = Spent(table, r.from, Today, r.filter, {r.currency})
    BY <2>1, InOneCurrency DEF DailyTrend
  <2>3. QED
    BY <1>8, <2>2 DEF AddsUp
<1>9. CASE part = "cost_summary"
  <2>1. amount = Amount(In(TotalsByOrg(table, S), r.currency))
    BY <1>9 DEF Part
  <2>2. amount = Spent(table, r.from, Today, r.filter, {r.currency})
    BY <2>1, InOneCurrency DEF TotalsByOrg
  <2>3. QED
    BY <1>9, <2>2 DEF AddsUp
<1>10. CASE part = "weekly"
  <2>1. \E rows \in Rebucketed(DailyTrend(table, S), [d \in 1..Today |-> Week(d)]) : amount = Amount(In(rows, r.currency))
    BY <1>10 DEF Part
  <2>2. OneCurrency(table) => amount = Spent(table, r.from, Today, r.filter, {r.currency})
    BY <2>1, InBuckets DEF DailyTrend
  <2>3. QED
    BY <1>10, <2>2 DEF AddsUp
<1>11. CASE part = "monthly"
  <2>1. \E rows \in Rebucketed(DailyTrend(table, S), [d \in 1..Today |-> Month(d)]) : amount = Amount(In(rows, r.currency))
    BY <1>11 DEF Part
  <2>2. OneCurrency(table) => amount = Spent(table, r.from, Today, r.filter, {r.currency})
    BY <2>1, InBuckets DEF DailyTrend
  <2>3. QED
    BY <1>11, <2>2 DEF AddsUp
<1>12. CASE part = "models"
  <2>1. \E rows \in Limited(TotalsByModel(table, S), TopModels) : amount = Amount(In(rows, r.currency))
    BY <1>12 DEF Part
  <2>2. amount <= Spent(table, r.from, Today, r.filter, {r.currency})
    BY <2>1, InTheTop DEF TotalsByModel
  <2>3. QED
    BY <1>12, <2>2 DEF AddsUp
<1>13. CASE part = "usage_summary"
  <2>1. amount = RequestCount(TotalsByOrg(table, S))
    BY <1>13 DEF Part
  <2>2. amount = Cardinality(S)
    BY <2>1, InAllCurrencies DEF TotalsByOrg
  <2>3. S = {i \in RecordIds : table[i].day \in r.from..Today /\ Matches(table[i], r.filter)}
    <3>1. \A i \in RecordIds : table[i] = NoRecord => table[i].day \notin r.from..Today
      BY <1>1 DEF NoRecord
    <3>2. QED
      BY <3>1 DEF Selected
  <2> HIDE DEF S
  <2>4. QED
    BY <1>13, <2>2, <2>3 DEF AddsUp
<1>14. CASE part = "kpi_total"
  <2>1. amount = Amount(TotalsByOrg(table, S))
    BY <1>14 DEF Part
  <2>2. amount = Spent(table, r.from, Today, r.filter, Currencies)
    BY <2>1, InAllCurrencies DEF TotalsByOrg
  <2>3. QED
    BY <1>14, <2>2 DEF AddsUp
<1>15. CASE part = "total_spend"
  <2>1. amount = Amount(TotalsByOrg(table, AllTime))
    BY <1>15 DEF Part
  <2>2. amount = Spent(table, 1, Today, all, Currencies)
    BY <2>1, InAllCurrencies DEF TotalsByOrg
  <2>3. QED
    BY <1>15, <2>2 DEF AddsUp
<1>16. CASE part = "month_spend"
  <2>1. amount = Amount(TotalsByOrg(table, Dates(MonthStart, Today)))
    BY <1>16 DEF Part
  <2>2. Dates(MonthStart, Today) = Selected(table, MonthStart, Today, all)
    <3>1. MonthStart \in 1..(Today + 1) /\ Today \in 0..Today
      BY <1>1
    <3> HIDE DEF Dates
    <3>2. QED
      BY Zenon, <1>3, <3>1
  <2> DEFINE chosen == Dates(MonthStart, Today)
  <2>3. amount = Spent(table, MonthStart, Today, all, Currencies)
    <3>1. amount = Amount(GroupBy(table, chosen, [i \in chosen |-> "organization"]))
      BY <2>1 DEF TotalsByOrg
    <3>2. chosen = Selected(table, MonthStart, Today, all)
      BY <2>2
    <3> HIDE DEF chosen
    <3>3. QED
      BY <3>1, <3>2, InAllCurrencies
  <2>4. QED
    BY <1>16, <2>3 DEF AddsUp
<1>17. CASE part = "today_spend"
  <2>1. amount = Amount(TotalsByOrg(table, Dates(Today, Today)))
    BY <1>17 DEF Part
  <2>2. Dates(Today, Today) = Selected(table, Today, Today, all)
    <3>1. Today \in 1..(Today + 1) /\ Today \in 0..Today
      BY <1>1
    <3> HIDE DEF Dates
    <3>2. QED
      BY Zenon, <1>3, <3>1
  <2> DEFINE chosen == Dates(Today, Today)
  <2>3. amount = Spent(table, Today, Today, all, Currencies)
    <3>1. amount = Amount(GroupBy(table, chosen, [i \in chosen |-> "organization"]))
      BY <2>1 DEF TotalsByOrg
    <3>2. chosen = Selected(table, Today, Today, all)
      BY <2>2
    <3> HIDE DEF chosen
    <3>3. QED
      BY <3>1, <3>2, InAllCurrencies
  <2>4. QED
    BY <1>17, <2>3 DEF AddsUp
<1>18. CASE part = "prior_spend"
  <2>1. amount = Amount(TotalsByOrg(table, Dates(1, MonthStart - 1)))
    BY <1>18 DEF Part
  <2>2. Dates(1, MonthStart - 1) = Selected(table, 1, MonthStart - 1, all)
    <3>1. 1 \in 1..(Today + 1) /\ MonthStart - 1 \in 0..Today
      BY <1>1
    <3> HIDE DEF Dates
    <3>2. QED
      BY Zenon, <1>3, <3>1
  <2> DEFINE chosen == Dates(1, MonthStart - 1)
  <2>3. amount = Spent(table, 1, MonthStart - 1, all, Currencies)
    <3>1. amount = Amount(GroupBy(table, chosen, [i \in chosen |-> "organization"]))
      BY <2>1 DEF TotalsByOrg
    <3>2. chosen = Selected(table, 1, MonthStart - 1, all)
      BY <2>2
    <3> HIDE DEF chosen
    <3>3. QED
      BY <3>1, <3>2, InAllCurrencies
  <2>4. QED
    BY <1>18, <2>3 DEF AddsUp
<1>19. CASE part = "active"
  <2> DEFINE rows == TotalsByProvider(table, AllTime)
  <2>1. amount = Cardinality({x.key : x \in rows})
    BY <1>19 DEF Part
  <2>2. AllTime \in SUBSET RecordIds /\ RecordsAt(table, AllTime)
    BY SelectedRecords
  <2>3. {x.key : x \in rows} = {table[i].provider : i \in AllTime}
    <3> DEFINE key == [i \in AllTime |-> table[i].provider]
    <3>1. rows = GroupBy(table, AllTime, key)
      BY DEF TotalsByProvider
    <3>2. {key[i] : i \in AllTime} = {table[i].provider : i \in AllTime}
      OBVIOUS
    <3> HIDE DEF AllTime, rows, key
    <3>3. {x.key : x \in GroupBy(table, AllTime, key)} = {key[i] : i \in AllTime}
      BY <2>2, KeysOfRows
    <3>4. QED
      BY <3>1, <3>2, <3>3
  <2>4. AllTime = {i \in RecordIds : table[i] # NoRecord}
    BY <1>2 DEF Selected, Matches
  <2>5. {table[i].provider : i \in RecordIds} \ {"none"} = {table[i].provider : i \in AllTime}
    <3>1. \A i \in RecordIds : table[i].provider # "none" <=> table[i] # NoRecord
      BY <1>2 DEF NoRecord
    <3> HIDE DEF AllTime
    <3>2. QED
      BY <2>4, <3>1
  <2> HIDE DEF rows, AllTime
  <2>6. QED
    BY <1>19, <2>1, <2>3, <2>5 DEF AddsUp
<1>20. CASE part \notin {"providers", "all_models", "projects", "heatmap", "daily", "cost_summary", "weekly", "monthly",
                         "models", "usage_summary", "kpi_total", "total_spend", "month_spend", "today_spend",
                         "prior_spend", "active"}
  BY <1>20 DEF AddsUp
<1>21. QED
  BY <1>4, <1>5, <1>6, <1>7, <1>8, <1>9, <1>10, <1>11, <1>12, <1>13, <1>14, <1>15, <1>16, <1>17, <1>18, <1>19, <1>20

(* A request and what it saw: while it runs, the table of now is the last  *)
(* of its tables.                                                          *)
ReadFields(r) ==
    r \in [at : {r.at}, todo : {r.todo}, from : {r.from}, to : {r.to}, currency : {r.currency},
           filter : {r.filter}, saw : {r.saw}, tables : {r.tables}]
ReadIsRight(r, table) ==
    /\ ReadFields(r)
    /\ r.from \in {1, MonthStart}
    /\ r.tables \in Seq(Tables)
    /\ r.at = "reading" => r.tables # <<>> /\ r.tables[Len(r.tables)] = table
    /\ \A seen \in r.saw :
          seen[3] \in 1..Len(r.tables) /\ AddsUp(seen[1], seen[2], r.tables[seen[3]], r)

ReadsInv ==
    /\ cost_records \in Tables
    /\ read = [q \in Reads |-> read[q]]
    /\ \A q \in Reads : ReadIsRight(read[q], cost_records)

(* What a request asked for is all that AddsUp knows of it.                *)
LEMMA SameRequest ==
    ASSUME NEW part, NEW amount, NEW table, NEW r, NEW s,
           s.from = r.from, s.filter = r.filter, s.currency = r.currency,
           AddsUp(part, amount, table, r)
    PROVE  AddsUp(part, amount, table, s)
  BY Zenon DEF AddsUp

LEMMA ReadsInvInit == ReadsInit => ReadsInv
<1> SUFFICES ASSUME ReadsInit PROVE ReadsInv
  OBVIOUS
<1>1. cost_records \in Tables
  BY DEF ReadsInit, Tables
<1>2. \A q \in Reads : read[q] = NoRead
  BY DEF ReadsInit
<1>3. \A table : ReadIsRight(NoRead, table)
  BY DEF NoRead, ReadIsRight, ReadFields
<1>4. read = [q \in Reads |-> read[q]]
  BY DEF ReadsInit
<1>5. QED
  BY <1>1, <1>2, <1>3, <1>4 DEF ReadsInv

LEMMA UpsertRecordKeepsReads == ReadsInv /\ UpsertRecord => ReadsInv'
<1> SUFFICES ASSUME ReadsInv, UpsertRecord PROVE ReadsInv'
  OBVIOUS
<1>1. PICK i \in RecordIds, s \in Shapes :
        cost_records' = [cost_records EXCEPT ![i] = Upserted(cost_records[i], s)]
  BY DEF UpsertRecord
<1>2. Upserted(cost_records[i], s) \in Records
  <2>1. s \in Records
    BY RecordsAssumption
  <2>2. CASE cost_records[i] = NoRecord
    BY <2>1, <2>2 DEF Upserted
  <2>3. CASE cost_records[i] # NoRecord
    <3>1. cost_records[i] \in Records
      BY <2>3 DEF ReadsInv, Tables
    <3>2. [cost_records[i] EXCEPT !.day = s.day, !.currency = s.currency, !.cost = s.cost] \in Records
      BY <2>1, <3>1 DEF Records
    <3>3. QED
      BY <2>3, <3>2 DEF Upserted
  <2>4. QED
    BY <2>2, <2>3
<1>3. cost_records' \in Tables
  BY <1>1, <1>2 DEF ReadsInv, Tables
<1>4. read' = [q \in Reads |-> IF read[q].at = "reading"
                                 THEN [read[q] EXCEPT !.tables = Append(@, cost_records')] ELSE read[q]]
  BY DEF UpsertRecord
<1>5. ASSUME NEW q \in Reads PROVE ReadIsRight(read'[q], cost_records')
  <2>1. ReadIsRight(read[q], cost_records)
    BY DEF ReadsInv
  <2>2. PICK table : table = cost_records'
    OBVIOUS
  <2>3. CASE read[q].at = "reading"
    <3>1. PICK r : r = read[q]
      OBVIOUS
    <3>2. PICK n : n = read'[q]
      OBVIOUS
    <3>3. n = [r EXCEPT !.tables = Append(@, table)]
      BY <1>4, <2>2, <2>3, <3>1, <3>2
    <3>4. ReadFields(r)
      BY <2>1, <3>1 DEF ReadIsRight
    <3>5. /\ n.from = r.from /\ n.filter = r.filter /\ n.currency = r.currency
          /\ n.saw = r.saw /\ n.tables = Append(r.tables, table)
      BY <3>3, <3>4 DEF ReadFields
    <3>6. ReadFields(n)
      BY <3>3, <3>4 DEF ReadFields
    <3>7. /\ n.tables \in Seq(Tables) /\ n.tables # <<>> /\ n.tables[Len(n.tables)] = table
          /\ \A k \in 1..Len(r.tables) : k \in 1..Len(n.tables) /\ n.tables[k] = r.tables[k]
      <4>1. r.tables \in Seq(Tables) /\ table \in Tables
        BY <1>3, <2>1, <2>2, <3>1 DEF ReadIsRight
      <4>2. PICK ts \in Seq(Tables) : ts = r.tables
        BY <4>1
      <4>3. PICK more : more = Append(ts, table)
        OBVIOUS
      <4>4. more \in Seq(Tables) /\ Len(more) = Len(ts) + 1
        BY <4>1, <4>3
      <4>5. more # <<>> /\ more[Len(more)] = table
        BY <4>1, <4>3, <4>4
      <4>6. \A k \in 1..Len(ts) : k \in 1..Len(more) /\ more[k] = ts[k]
        BY <4>3, <4>4
      <4>7. n.tables = more
        BY <3>5, <4>2, <4>3
      <4>8. QED
        BY <4>2, <4>4, <4>5, <4>6, <4>7
    <3>8. ASSUME NEW seen \in n.saw
          PROVE  seen[3] \in 1..Len(n.tables) /\ AddsUp(seen[1], seen[2], n.tables[seen[3]], n)
      <4>1. seen[3] \in 1..Len(r.tables) /\ AddsUp(seen[1], seen[2], r.tables[seen[3]], r)
        BY <2>1, <3>1, <3>5, <3>8 DEF ReadIsRight
      <4>2. AddsUp(seen[1], seen[2], r.tables[seen[3]], n)
        BY <3>5, <4>1, SameRequest
      <4>3. QED
        BY <3>7, <4>1, <4>2
    <3>10. r.from \in {1, MonthStart}
      BY <2>1, <3>1 DEF ReadIsRight
    <3>11. ReadIsRight(n, table)
      BY <3>5, <3>6, <3>7, <3>8, <3>10 DEF ReadIsRight
    <3>9. QED
      BY <2>2, <3>2, <3>11
  <2>4. CASE read[q].at # "reading"
    <3>1. read'[q] = read[q]
      BY <1>4, <2>4
    <3>2. ReadIsRight(read[q], cost_records')
      BY <2>1, <2>4 DEF ReadIsRight
    <3>3. QED
      BY <3>1, <3>2
  <2>5. QED
    BY <2>3, <2>4
<1>6. read' = [q \in Reads |-> read'[q]]
  BY <1>4
<1>7. QED
  BY <1>3, <1>5, <1>6 DEF ReadsInv

(* A step of one request, the others as they were.                         *)
LEMMA OneRead ==
    ASSUME ReadsInv, cost_records' = cost_records, NEW q \in Reads, NEW n,
           read' = [read EXCEPT ![q] = n], ReadIsRight(n, cost_records)
    PROVE  ReadsInv'
<1>1. \A p \in Reads : ReadIsRight(read'[p], cost_records')
  <2> SUFFICES ASSUME NEW p \in Reads PROVE ReadIsRight(read'[p], cost_records')
    OBVIOUS
  <2>1. read'[p] = IF p = q THEN n ELSE read[p]
    BY DEF ReadsInv
  <2>2. ReadIsRight(read[p], cost_records)
    BY DEF ReadsInv
  <2>3. QED
    BY <2>1, <2>2
<1>2. read' = [p \in Reads |-> read'[p]] /\ cost_records' \in Tables
  BY DEF ReadsInv
<1>3. QED
  BY <1>1, <1>2 DEF ReadsInv

LEMMA BeginReadKeepsReads == \A q \in Reads : ReadsInv /\ BeginRead(q) => ReadsInv'
<1> SUFFICES ASSUME NEW q \in Reads, ReadsInv, BeginRead(q) PROVE ReadsInv'
  OBVIOUS
<1>1. PICK statements \in Statements, from \in {1, MonthStart}, currency \in Currencies, filter \in Filters :
        /\ statements \in {Overview, Organization} => filter.field = "all"
        /\ read' = [read EXCEPT ![q] = [NoRead EXCEPT !.at = "reading", !.todo = statements, !.from = from,
                                          !.currency = currency, !.filter = filter, !.tables = <<cost_records>>]]
  BY DEF BeginRead
<1> DEFINE n == [NoRead EXCEPT !.at = "reading", !.todo = statements, !.from = from,
                               !.currency = currency, !.filter = filter, !.tables = <<cost_records>>]
<1>2. ReadFields(n) /\ n.from = from /\ n.saw = {} /\ n.tables = <<cost_records>>
  <2>1. ReadFields(NoRead) /\ NoRead.saw = {}
    BY DEF NoRead, ReadFields
  <2>2. ReadFields(n)
    BY <2>1 DEF ReadFields
  <2>3. n.from = from /\ n.saw = {} /\ n.tables = <<cost_records>>
    BY <2>1 DEF ReadFields
  <2>4. QED
    BY <2>2, <2>3
<1>3. cost_records' = cost_records
  BY DEF BeginRead
<1> HIDE DEF n
<1>4. ReadIsRight(n, cost_records)
  <2>1. cost_records \in Tables
    BY DEF ReadsInv
  <2>2. <<cost_records>> \in Seq(Tables) /\ Len(<<cost_records>>) = 1 /\ <<cost_records>>[1] = cost_records
    BY <2>1
  <2>3. QED
    BY <1>2, <2>2 DEF ReadIsRight
<1>5. read' = [read EXCEPT ![q] = n]
  BY <1>1 DEF n
<1>6. QED
  BY <1>3, <1>4, <1>5, OneRead

LEMMA StatementKeepsReads == \A q \in Reads : ReadsInv /\ Statement(q) => ReadsInv'
<1> SUFFICES ASSUME NEW q \in Reads, ReadsInv, Statement(q) PROVE ReadsInv'
  OBVIOUS
<1>1. PICK r : r = read[q]
  OBVIOUS
<1>2. r.at = "reading" /\ cost_records' = cost_records
  BY <1>1 DEF Statement
<1>3. PICK amount \in Part(Head(r.todo), cost_records, r.from, Today, r.filter, r.currency) :
        read' = [read EXCEPT ![q].todo = Tail(r.todo), 
                             ![q].saw = @ \cup {<<Head(r.todo), amount, Len(r.tables)>>}]
  BY <1>1 DEF Statement
<1>4. ReadIsRight(r, cost_records) /\ cost_records \in Tables
  BY <1>1 DEF ReadsInv
<1>5. AddsUp(Head(r.todo), amount, cost_records, r)
  <2>1. r.from \in {1, MonthStart}
    BY <1>4 DEF ReadIsRight
  <2>2. QED
    BY <1>3, <1>4, <2>1, PartAddsUp
<1>6. PICK part : part = Head(r.todo)
  OBVIOUS
<1>7. PICK rest : rest = Tail(r.todo)
  OBVIOUS
<1>8. PICK more : more = r.saw \cup {<<part, amount, Len(r.tables)>>}
  OBVIOUS
<1> DEFINE n == [r EXCEPT !.todo = rest, !.saw = more]
<1>9. read' = [read EXCEPT ![q] = n]
  BY <1>1, <1>3, <1>6, <1>7, <1>8 DEF ReadsInv
<1>10. ReadFields(r)
  BY <1>4 DEF ReadIsRight
<1>11. /\ ReadFields(n)
       /\ n.from = r.from /\ n.filter = r.filter /\ n.currency = r.currency /\ n.at = r.at
       /\ n.saw = r.saw \cup {<<part, amount, Len(r.tables)>>} /\ n.tables = r.tables
  <2>1. ReadFields(n)
    BY <1>10 DEF ReadFields
  <2>2. n.from = r.from /\ n.filter = r.filter /\ n.currency = r.currency
    BY <1>10 DEF ReadFields
  <2>3. n.at = r.at /\ n.saw = more /\ n.tables = r.tables
    BY <1>10 DEF ReadFields
  <2>4. QED
    BY <1>8, <2>1, <2>2, <2>3
<1> HIDE DEF n
<1>12. /\ r.tables \in Seq(Tables) /\ r.tables # <<>> /\ r.tables[Len(r.tables)] = cost_records
       /\ Len(r.tables) \in 1..Len(r.tables)
  <2>1. r.tables \in Seq(Tables) /\ r.tables # <<>> /\ r.tables[Len(r.tables)] = cost_records
    BY <1>2, <1>4 DEF ReadIsRight
  <2>2. Len(r.tables) \in 1..Len(r.tables)
    BY <2>1
  <2>3. QED
    BY <2>1, <2>2
<1>13. ASSUME NEW seen \in n.saw
       PROVE  seen[3] \in 1..Len(n.tables) /\ AddsUp(seen[1], seen[2], n.tables[seen[3]], n)
  <2>1. CASE seen \in r.saw
    <3>1. seen[3] \in 1..Len(r.tables) /\ AddsUp(seen[1], seen[2], r.tables[seen[3]], r)
      BY <1>4, <2>1 DEF ReadIsRight
    <3>2. AddsUp(seen[1], seen[2], r.tables[seen[3]], n)
      BY <1>11, <3>1, SameRequest
    <3>3. QED
      BY <1>11, <3>1, <3>2
  <2>2. CASE seen = <<part, amount, Len(r.tables)>>
    <3>1. AddsUp(part, amount, cost_records, n)
      BY <1>5, <1>6, <1>11, SameRequest
    <3>2. seen[1] = part /\ seen[2] = amount /\ seen[3] = Len(r.tables)
      BY <2>2
    <3>3. QED
      BY <1>11, <1>12, <3>1, <3>2
  <2>3. QED
    BY <1>11, <1>13, <2>1, <2>2
<1>14. ReadIsRight(n, cost_records)
  BY <1>4, <1>11, <1>12, <1>13 DEF ReadIsRight
<1>15. QED
  BY <1>2, <1>9, <1>14, OneRead

LEMMA RespondKeepsReads == \A q \in Reads : ReadsInv /\ Respond(q) => ReadsInv'
<1> SUFFICES ASSUME NEW q \in Reads, ReadsInv, Respond(q) PROVE ReadsInv'
  OBVIOUS
<1>1. PICK r : r = read[q]
  OBVIOUS
<1> DEFINE n == [r EXCEPT !.at = "done"]
<1>2. read' = [read EXCEPT ![q] = n] /\ cost_records' = cost_records
  BY <1>1 DEF Respond, ReadsInv
<1>3. ReadIsRight(r, cost_records)
  BY <1>1 DEF ReadsInv
<1>4. ReadFields(r)
  BY <1>3 DEF ReadIsRight
<1>5. /\ ReadFields(n)
      /\ n.from = r.from /\ n.filter = r.filter /\ n.currency = r.currency /\ n.at = "done"
      /\ n.saw = r.saw /\ n.tables = r.tables
  BY <1>4 DEF ReadFields
<1> HIDE DEF n
<1>6. ASSUME NEW seen \in n.saw
      PROVE  seen[3] \in 1..Len(n.tables) /\ AddsUp(seen[1], seen[2], n.tables[seen[3]], n)
  <2>1. seen[3] \in 1..Len(r.tables) /\ AddsUp(seen[1], seen[2], r.tables[seen[3]], r)
    BY <1>3, <1>5, <1>6 DEF ReadIsRight
  <2>2. AddsUp(seen[1], seen[2], r.tables[seen[3]], n)
    BY <1>5, <2>1, SameRequest
  <2>3. QED
    BY <1>5, <2>1, <2>2
<1>7. ReadIsRight(n, cost_records)
  BY <1>3, <1>5, <1>6 DEF ReadIsRight
<1>8. QED
  BY <1>2, <1>7, OneRead

(* api/v1/dashboard.py and analytics.py: every breakdown and total of an   *)
(* answer is what was spent over the days, under the filter and in the     *)
(* currency asked for, in the table committed when its statement ran,      *)
(* whatever usage is written or rewritten between the statements: no       *)
(* grouping leaves a record out or counts one twice, and a list cut to the *)
(* dearest rows never exceeds the whole.  The series by week and month and *)
(* the totals of the overview and the KPIs do while one currency is in use.*)
THEOREM AnswersAddUp == ReadsSpec => []PartsAddUp
<1>1. ReadsInit => ReadsInv
  BY ReadsInvInit
<1>2. ReadsInv /\ [ReadsNext]_readVars => ReadsInv'
  <2> SUFFICES ASSUME ReadsInv, [ReadsNext]_readVars PROVE ReadsInv'
    OBVIOUS
  <2>1. CASE UpsertRecord
    BY <2>1, UpsertRecordKeepsReads
  <2>2. ASSUME NEW q \in Reads, BeginRead(q) PROVE ReadsInv'
    BY <2>2, BeginReadKeepsReads
  <2>3. ASSUME NEW q \in Reads, Statement(q) PROVE ReadsInv'
    BY <2>3, StatementKeepsReads
  <2>4. ASSUME NEW q \in Reads, Respond(q) PROVE ReadsInv'
    BY <2>4, RespondKeepsReads
  <2>5. CASE UNCHANGED readVars
    <3>1. cost_records' = cost_records /\ read' = read
      BY <2>5 DEF readVars
    <3>2. QED
      BY <3>1 DEF ReadsInv
  <2>6. QED
    BY <2>1, <2>2, <2>3, <2>4, <2>5 DEF ReadsNext
<1>3. ReadsInv => PartsAddUp
  BY DEF ReadsInv, ReadIsRight, PartsAddUp
<1>4. QED
  BY <1>1, <1>2, <1>3, PTL DEF ReadsSpec
=============================================================================
