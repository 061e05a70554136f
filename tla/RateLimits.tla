----------------------------- MODULE RateLimits ------------------------------
(***************************************************************************)
(* The limits on attempts (backend/app/auth/rate_limit.py,                 *)
(* realtime/rate_limit.py and the endpoints that ask them): a sliding      *)
(* window per address, and for logins a lockout per account.  One address  *)
(* and one account; a limiter of each kind has keys of its own, so a       *)
(* behaviour is about one kind.                                            *)
(*                                                                         *)
(* The limits live in Redis, which every process shares; a call that Redis *)
(* fails is made on the memory of the process instead.  A request makes    *)
(* several calls, and requests cross between them.                         *)
(***************************************************************************)
EXTENDS Naturals, FiniteSets, Functions

CONSTANTS
    Tries,           \* requests in progress at one time
    Replicas,        \* processes
    WindowSeconds,   \* length of the window, in ticks
    MaxPerWindow,    \* attempts it admits
    MaxInARow,       \* failures before a lockout
    LockoutMax,      \* longest lockout, in ticks; the shortest is one
    FailureTTL,      \* ticks after which failures are forgotten
    MaxTicks,        \* bound: ticks of the clock
    MaxSlips         \* bound: calls that Redis fails

ASSUME LimitsAssumption ==
    /\ Tries # {} /\ IsFiniteSet(Tries)
    /\ WindowSeconds \in Nat \ {0} /\ MaxPerWindow \in Nat \ {0} /\ MaxInARow \in Nat \ {0}
    /\ LockoutMax \in Nat \ {0} /\ FailureTTL \in Nat \ {0} /\ MaxTicks \in Nat \ {0} /\ MaxSlips \in Nat

VARIABLES
    limiter,    \* "login", "email" (verification, reset, invitation) or "connection"
    ticks,      \* the clock
    marks,      \* marks[s]: the attempts in the window of store s
    failing,    \* failing[s]: consecutive failures, and when they are forgotten
    lockout,    \* lockout[s]: the time until which store s has the account locked
    visit,        \* visit[t]: a request
    admitted,   \* history: admitted[n] requests were let through at time n
    guesses,    \* history: failed logins since the shared count was last zero
    unlocks,    \* history: how often a shared lockout ended since then
    slips       \* calls that Redis failed

limitVars == <<limiter, ticks, marks, failing, lockout, visit, admitted, guesses, unlocks, slips>>
windowVars == <<marks, admitted>>
accountLockVars == <<failing, lockout, guesses, unlocks>>

Shared == "redis"
LimitStores == {Shared} \cup Replicas
NoTry == [at |-> "idle", now |-> 0, failures |-> 0]
Limiters == {"login", "email", "connection"}

LimitsInit ==
    /\ limiter \in Limiters
    /\ ticks = 1 /\ slips = 0
    /\ marks = [s \in LimitStores |-> [n \in 1..MaxTicks |-> 0]]
    /\ failing = [s \in LimitStores |-> [count |-> 0, until |-> 0]]
    /\ lockout = [s \in LimitStores |-> 0]
    /\ visit = [t \in Tries |-> NoTry]
    /\ admitted = [n \in 1..MaxTicks |-> 0]
    /\ guesses = 0 /\ unlocks = 0

-----------------------------------------------------------------------------
(* The stores                                                              *)

(* _call: Redis, or after an error the memory of the request's process.    *)
Ask(s) ==
    \/ s = Shared /\ UNCHANGED slips
    \/ s \in Replicas /\ slips < MaxSlips /\ slips' = slips + 1

(* count_in_window drops what is older first.                              *)
Inside(now, n) == n + WindowSeconds > now
CountInWindow(s, now) == SumFunctionOnSet(marks[s], {n \in 1..MaxTicks : Inside(now, n)})
Trimmed(s, now) == [n \in 1..MaxTicks |-> IF Inside(now, n) THEN marks[s][n] ELSE 0]

(* Keys with a time to live vanish when it ends; the memory drops its      *)
(* entries when it reads them.                                             *)
ClockTicks ==
    /\ ticks < MaxTicks
    /\ ticks' = ticks + 1
    /\ failing' = [s \in LimitStores |-> IF failing[s].until > ticks' THEN failing[s] ELSE [count |-> 0, until |-> 0]]
    /\ lockout' = [s \in LimitStores |-> IF lockout[s] > ticks' THEN lockout[s] ELSE 0]
    /\ IF failing[Shared].count > 0 /\ failing'[Shared].count = 0
       THEN guesses' = 0 /\ unlocks' = 0
       ELSE /\ unlocks' = unlocks + (IF lockout[Shared] > 0 /\ lockout'[Shared] = 0 THEN 1 ELSE 0)
            /\ UNCHANGED guesses
    /\ UNCHANGED <<limiter, marks, visit, admitted, slips>>

-----------------------------------------------------------------------------
(* A request: the time it works with is read at its start.                 *)

Arrive(t) ==
    /\ visit[t] = NoTry
    /\ visit' = [visit EXCEPT ![t] = [NoTry EXCEPT !.now = ticks, !.at =
                  CASE limiter = "login" -> "lock" [] limiter = "email" -> "count" [] limiter = "connection" -> "connect"]]
    /\ UNCHANGED <<limiter, ticks, windowVars, accountLockVars, slips>>

(* LoginRateLimiter.check                                                  *)
GetLockout(t, s) ==
    /\ visit[t].at = "lock" /\ Ask(s)
    /\ visit' = [visit EXCEPT ![t] = IF lockout[s] > visit[t].now THEN NoTry ELSE [visit[t] EXCEPT !.at = "count"]]
    /\ UNCHANGED <<limiter, ticks, windowVars, accountLockVars>>

(* A full window answers 429; check_and_record does the same for e-mails.  *)
CountAttempts(t, s) ==
    /\ visit[t].at = "count" /\ Ask(s)
    /\ marks' = [marks EXCEPT ![s] = Trimmed(s, visit[t].now)]
    /\ visit' = [visit EXCEPT ![t] = IF CountInWindow(s, visit[t].now) >= MaxPerWindow THEN NoTry
                                 ELSE [visit[t] EXCEPT !.at = "add"]]
    /\ UNCHANGED <<limiter, ticks, admitted, accountLockVars>>

Admit(t) == admitted' = [admitted EXCEPT ![visit[t].now] = @ + 1]

(* An admitted e-mail is sent, an admitted login is verified.              *)
Added(t, s) ==
    /\ Admit(t)
    /\ visit' = [visit EXCEPT ![t] = IF limiter = "email" THEN NoTry ELSE [visit[t] EXCEPT !.at = "verify"]]
    /\ UNCHANGED <<limiter, ticks, accountLockVars>>

(* Mutation: only attempts that fail are counted.                          *)
AddNothing(t, s) ==
    /\ visit[t].at = "add" /\ Ask(s) /\ Added(t, s) /\ UNCHANGED marks

AddAttempt(t, s) ==
    /\ visit[t].at = "add" /\ Ask(s) /\ Added(t, s)
    /\ marks' = [marks EXCEPT ![s][visit[t].now] = @ + 1]

(* ConnectionRateLimiter.check: one transaction of Redis, or one step of   *)
(* the event loop, that counts the refused as well (beyond the limit the   *)
(* model keeps no count).                                                  *)
Connect(t, s) ==
    /\ visit[t].at = "connect" /\ Ask(s)
    /\ marks' = [marks EXCEPT ![s] = [Trimmed(s, visit[t].now) EXCEPT ![visit[t].now] =
                                         IF @ <= MaxPerWindow THEN @ + 1 ELSE @]]
    /\ IF CountInWindow(s, visit[t].now) + 1 <= MaxPerWindow THEN Admit(t) ELSE UNCHANGED admitted
    /\ visit' = [visit EXCEPT ![t] = NoTry]
    /\ UNCHANGED <<limiter, ticks, accountLockVars>>

(* The password is right, wrong, or belongs to an account that may not     *)
(* sign in, which is no failure to the limiter.                            *)
Verify(t) ==
    /\ visit[t].at = "verify"
    /\ \/ visit' = [visit EXCEPT ![t].at = "succeed"] /\ UNCHANGED guesses
       \/ visit' = [visit EXCEPT ![t].at = "fail", ![t].now = ticks] /\ guesses' = guesses + 1
       \/ visit' = [visit EXCEPT ![t] = NoTry] /\ UNCHANGED guesses
    /\ UNCHANGED <<limiter, ticks, windowVars, failing, lockout, unlocks, slips>>

(* record_success                                                          *)
ResetFailures(t, s) ==
    /\ visit[t].at = "succeed" /\ Ask(s)
    /\ failing' = [failing EXCEPT ![s] = [count |-> 0, until |-> 0]]
    /\ IF s = Shared THEN guesses' = 0 /\ unlocks' = 0 ELSE UNCHANGED <<guesses, unlocks>>
    /\ visit' = [visit EXCEPT ![t] = NoTry]
    /\ UNCHANGED <<limiter, ticks, windowVars, lockout>>

(* record_failure                                                          *)
IncrFailures(t, s) ==
    /\ visit[t].at = "fail" /\ Ask(s)
    /\ failing' = [failing EXCEPT ![s] = [count |-> @.count + 1, until |-> ticks + FailureTTL]]
    /\ visit' = [visit EXCEPT ![t] = IF failing'[s].count >= MaxInARow
                                 THEN [visit[t] EXCEPT !.at = "lockout", !.failures = failing'[s].count]
                                 ELSE NoTry]
    /\ UNCHANGED <<limiter, ticks, windowVars, lockout, guesses, unlocks>>

Duration(failures) ==
    LET doubled == 2 ^ (failures - MaxInARow) IN IF doubled \in 1..LockoutMax THEN doubled ELSE LockoutMax

(* A duration counts from when the password was wrong, and the last one    *)
(* set holds, be it shorter; one set late may have ended already.          *)
SetLockout(t, s) ==
    /\ visit[t].at = "lockout" /\ Ask(s)
    /\ LET until == visit[t].now + Duration(visit[t].failures)
       IN lockout' = [lockout EXCEPT ![s] = IF until > ticks THEN until ELSE 0]
    /\ unlocks' = unlocks + (IF s = Shared /\ lockout'[s] = 0 THEN 1 ELSE 0)
    /\ visit' = [visit EXCEPT ![t] = NoTry]
    /\ UNCHANGED <<limiter, ticks, windowVars, failing, guesses>>

LimitsNext ==
    \/ ClockTicks
    \/ \E t \in Tries :
          \/ Arrive(t) \/ Verify(t)
          \/ \E s \in LimitStores : \/ GetLockout(t, s) \/ CountAttempts(t, s) \/ AddAttempt(t, s) \/ Connect(t, s)
                               \/ ResetFailures(t, s) \/ IncrFailures(t, s) \/ SetLockout(t, s)

LimitsSpec == LimitsInit /\ [][LimitsNext]_limitVars

-----------------------------------------------------------------------------
LimitsTypeOK ==
    /\ limiter \in Limiters /\ ticks \in 1..MaxTicks /\ slips \in 0..MaxSlips
    /\ \A s \in LimitStores : marks[s] \in [1..MaxTicks -> Nat] /\ lockout[s] <= MaxTicks + LockoutMax
    /\ admitted \in [1..MaxTicks -> Nat] /\ guesses \in Nat /\ unlocks \in Nat

(* rate_limit.py:1-19: no window admits more than its limit, over all      *)
(* processes together, but for one request for each call that Redis failed *)
(* and those in progress: they crossed between counting and adding, or use *)
(* a time read before the window they are added to.  Between two lockouts  *)
(* of an account no more logins fail than crossed each other, after the    *)
(* first failures that lock it.                                            *)
LimitsHold ==
    /\ \A end \in 1..MaxTicks :
          SumFunctionOnSet(admitted, {n \in 1..end : Inside(end, n)})
             <= MaxPerWindow + slips + 2 * (Cardinality(Tries) - 1)
    /\ guesses <= MaxInARow - 1 + Cardinality(Tries) * (unlocks + 1) + slips
=============================================================================
