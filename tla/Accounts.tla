------------------------------ MODULE Accounts -------------------------------
(***************************************************************************)
(* One account (backend/app/auth/service.py, api/v1/auth.py and the        *)
(* repositories they use): registration, password and Google sign-in,      *)
(* sessions, one-time links in e-mails, passwords changed, set and reset,  *)
(* deletion.                                                               *)
(*                                                                         *)
(* A request is one transaction: it reads the rows its guards need, then   *)
(* locks the user's row by an UPDATE, then writes the rest and commits.    *)
(* PostgreSQL (READ COMMITTED) and Google are external: one address, one   *)
(* Google account.  Refreshing a session and the rate limits are left out: *)
(* they touch nothing that is modelled here.                               *)
(***************************************************************************)
EXTENDS Naturals, Sequences, FiniteSets

CONSTANTS
    Browsers,     \* requests in progress at one time
    MaxAttempts,  \* bound: requests
    MaxSessions,  \* bound: session rows
    MaxLinks      \* bound: one-time links

ASSUME AccountsAssumption ==
    MaxAttempts \in Nat /\ MaxSessions \in Nat /\ MaxLinks \in Nat

VARIABLES
    holder,     \* the row of the address, and which ways to sign in it has
    epoch,      \* how often a password was changed or reset
    sessions,   \* session rows, in the order of their commits
    links,      \* verification and password-reset tokens, likewise
    attempt,    \* attempt[b]: the request of b and its progress
    attempts    \* how many requests were made

accountVars == <<holder, epoch, sessions, links, attempt, attempts>>

NoUser == [state |-> "none", password |-> FALSE, google |-> FALSE, verified |-> FALSE]
NoAttempt == [op |-> "none", at |-> "idle", session |-> 0, link |-> 0,
              known |-> FALSE, linked |-> FALSE, revokes |-> {}, before |-> 0]

Live == holder.state = "live"
ActiveSessions == {i \in DOMAIN sessions : sessions[i].active}
Usable(kind) == {i \in DOMAIN links : links[i].kind = kind /\ links[i].valid}
-----------------------------------------------------------------------------
(* Empty sessions and link tables, as the ep05 migration leaves them.      *)
AccountsInit ==
    /\ holder = NoUser /\ epoch = 0
    /\ sessions = <<>> /\ links = <<>>
    /\ attempt = [b \in Browsers |-> NoAttempt]
    /\ attempts = 0
-----------------------------------------------------------------------------
(* A request arrives: what its handler, and get_current_user before it,    *)
(* check                                                                   *)

(* Mutation: an account may lose its only way to sign in.                *)
UnlinkAny == TRUE

(* LastAuthMethodError                                                     *)
UnlinkAllowed == holder.password

SignedOut ==
    {op \in {"register", "login", "google", "forgot", "resend"} :
        /\ op = "register" => ~Live
        /\ op = "login"    => Live /\ holder.password /\ holder.verified
        /\ op = "forgot"   => Live
        /\ op = "resend"   => Live /\ ~holder.verified}

SignedIn ==
    {op \in {"logout", "link", "unlink", "set", "change", "delete"} :
        /\ Live
        /\ op = "unlink" => UnlinkAllowed
        /\ op = "set"    => ~holder.password
        /\ op \in {"change", "delete"} => holder.password}

LinksAccepted ==
    {i \in DOMAIN links : Live /\ links[i].valid /\ (links[i].kind = "verify" => ~holder.verified)}

(* What a request has read before its first write.                         *)
Arrives(b, q) ==
    attempt' = [attempt EXCEPT ![b] = [q EXCEPT !.at = "checked", !.known = Live,
                                                !.linked = holder.google]]

StartAttempt(b) ==
    /\ attempt[b] = NoAttempt
    /\ attempts < MaxAttempts
    /\ attempts' = attempts + 1
    /\ \/ \E op \in SignedOut : Arrives(b, [NoAttempt EXCEPT !.op = op])
       \/ \E op \in SignedIn, s \in ActiveSessions :
             Arrives(b, [NoAttempt EXCEPT !.op = op, !.session = s])
       \/ \E i \in LinksAccepted : Arrives(b, [NoAttempt EXCEPT !.op = links[i].kind, !.link = i])
    /\ UNCHANGED <<holder, epoch, sessions, links>>
-----------------------------------------------------------------------------
(* The UPDATE of the user's row: it waits for another transaction's, and   *)
(* others wait for it until the transaction ends.                          *)
OnUser == {"login", "google", "link", "unlink", "set", "change", "delete", "verify", "reset"}
Holding == {"locked", "revoked"}

UserLocked == \E b \in Browsers : attempt[b].at \in Holding

WriteUser(b) ==
    /\ attempt[b].at = "checked" /\ attempt[b].op \in OnUser /\ attempt[b].known
    /\ ~UserLocked
    /\ attempt' = [attempt EXCEPT ![b].at = "locked"]
    /\ UNCHANGED <<holder, epoch, sessions, links, attempts>>

(* revoke_all_for_user, or all but the caller's: the sessions it finds     *)
Revoking == {"change", "reset", "delete"}

(* Mutation: the caller's session is the only one that is revoked.       *)
RevokeOwn(b) ==
    /\ attempt[b].at = "locked" /\ attempt[b].op \in Revoking
    /\ attempt' = [attempt EXCEPT ![b].at = "revoked", ![b].revokes = {attempt[b].session}]
    /\ UNCHANGED <<holder, epoch, sessions, links, attempts>>

RevokeSessions(b) ==
    /\ attempt[b].at = "locked" /\ attempt[b].op \in Revoking
    /\ attempt' = [attempt EXCEPT ![b].at = "revoked",
                                  ![b].revokes = ActiveSessions \ {attempt[b].session}]
    /\ UNCHANGED <<holder, epoch, sessions, links, attempts>>

(* invalidate_for_user: the links of its kind that it finds                *)
KindOf(op) == IF op = "forgot" THEN "reset" ELSE "verify"

(* Mutation: older links stay valid.                                     *)
InvalidateNone(b) ==
    /\ attempt[b].at = "checked" /\ attempt[b].op \in {"resend", "forgot"}
    /\ attempt' = [attempt EXCEPT ![b].at = "mailing", ![b].before = Len(links)]
    /\ UNCHANGED <<holder, epoch, sessions, links, attempts>>
-----------------------------------------------------------------------------
(* The rest of its writes, and the commit                                  *)

InvalidateLinks(b) ==
    /\ attempt[b].at = "checked" /\ attempt[b].op \in {"resend", "forgot"}
    /\ attempt' = [attempt EXCEPT ![b].at = "mailing", ![b].before = Len(links),
                                  ![b].revokes = Usable(KindOf(attempt[b].op))]
    /\ UNCHANGED <<holder, epoch, sessions, links, attempts>>

Done(b, op, at) ==
    /\ attempt[b].op = op /\ attempt[b].at = at
    /\ attempt' = [attempt EXCEPT ![b] = NoAttempt]
    /\ UNCHANGED attempts

(* `made`: the epoch a session belongs to                                  *)
NewSession ==
    /\ Len(sessions) < MaxSessions
    /\ sessions' = Append(sessions, [active |-> TRUE, made |-> epoch])

(* `before`: the rows that were there when links were invalidated          *)
Mailed(b, kind) ==
    /\ Len(links) < MaxLinks
    /\ links' = Append([i \in DOMAIN links |->
                           IF i \in attempt[b].revokes THEN [links[i] EXCEPT !.valid = FALSE]
                           ELSE links[i]],
                       [kind |-> kind, valid |-> TRUE, before |-> attempt[b].before])

(* INSERT: an IntegrityError if the address has a row, deleted or not.     *)
RegisterAccount(b) ==
    /\ Done(b, "register", "checked")
    /\ holder.state = "none"
    /\ holder' = [NoUser EXCEPT !.state = "live", !.password = TRUE]
    /\ Mailed(b, "verify")
    /\ UNCHANGED <<epoch, sessions>>

Login(b) ==
    /\ Done(b, "login", "locked")
    /\ NewSession
    /\ UNCHANGED <<holder, epoch, links>>

(* A new account, or the one of the address, linked if it was not.        *)
GoogleRegister(b) ==
    /\ Done(b, "google", "checked") /\ ~attempt[b].known
    /\ holder.state = "none"
    /\ holder' = [NoUser EXCEPT !.state = "live", !.google = TRUE, !.verified = TRUE]
    /\ NewSession
    /\ UNCHANGED <<epoch, links>>

GoogleLogin(b) ==
    /\ Done(b, "google", "locked")
    /\ holder' = IF attempt[b].linked THEN holder ELSE [holder EXCEPT !.google = TRUE]
    /\ NewSession
    /\ UNCHANGED <<epoch, links>>

LinkGoogle(b) ==
    /\ Done(b, "link", "locked")
    /\ holder' = [holder EXCEPT !.google = IF attempt[b].linked THEN @ ELSE TRUE]
    /\ UNCHANGED <<epoch, sessions, links>>

(* A column is updated when its value differs from the one that was read.  *)
UnlinkGoogle(b) ==
    /\ Done(b, "unlink", "locked")
    /\ holder' = [holder EXCEPT !.google = IF attempt[b].linked THEN FALSE ELSE @]
    /\ UNCHANGED <<epoch, sessions, links>>

SetPassword(b) ==
    /\ Done(b, "set", "locked")
    /\ holder' = [holder EXCEPT !.password = TRUE]
    /\ UNCHANGED <<epoch, sessions, links>>

(* The sessions that were found are revoked; the one that asked stays.     *)
SignOut(b, new) ==
    sessions' = [i \in DOMAIN sessions |->
                    [active |-> sessions[i].active /\ i \notin attempt[b].revokes,
                     made   |-> IF i = attempt[b].session THEN new ELSE sessions[i].made]]

ChangePassword(b) ==
    /\ Done(b, "change", "revoked")
    /\ epoch' = epoch + 1 /\ SignOut(b, epoch + 1)
    /\ UNCHANGED <<holder, links>>

(* The token is used up, whoever used it since it was found valid.         *)
ResetPassword(b) ==
    /\ Done(b, "reset", "revoked")
    /\ holder' = [holder EXCEPT !.password = TRUE]
    /\ epoch' = epoch + 1 /\ SignOut(b, epoch + 1)
    /\ links' = [links EXCEPT ![attempt[b].link].valid = FALSE]

(* The caller's session is revoked with the others.                        *)
DeleteAccount(b) ==
    /\ Done(b, "delete", "revoked")
    /\ holder' = [holder EXCEPT !.state = "deleted"]
    /\ sessions' = [i \in DOMAIN sessions |->
                       [sessions[i] EXCEPT !.active = @ /\ i \notin attempt[b].revokes
                                                        /\ i # attempt[b].session]]
    /\ UNCHANGED <<epoch, links>>

VerifyEmail(b) ==
    /\ Done(b, "verify", "locked")
    /\ holder' = [holder EXCEPT !.verified = TRUE]
    /\ links' = [links EXCEPT ![attempt[b].link].valid = FALSE]
    /\ UNCHANGED <<epoch, sessions>>

SendLink(b) ==
    /\ \E op \in {"resend", "forgot"} : Done(b, op, "mailing") /\ Mailed(b, KindOf(op))
    /\ UNCHANGED <<holder, epoch, sessions>>

Logout(b) ==
    /\ Done(b, "logout", "checked")
    /\ sessions' = [sessions EXCEPT ![attempt[b].session].active = FALSE]
    /\ UNCHANGED <<holder, epoch, links>>

(* A constraint, an error, or a process that dies: nothing is written.     *)
AttemptFails(b) ==
    /\ attempt[b] # NoAttempt
    /\ attempt' = [attempt EXCEPT ![b] = NoAttempt]
    /\ UNCHANGED <<holder, epoch, sessions, links, attempts>>
-----------------------------------------------------------------------------
(* 24 hours, 1 hour                                                        *)
LinkExpires(i) ==
    /\ links[i].valid
    /\ links' = [links EXCEPT ![i].valid = FALSE]
    /\ UNCHANGED <<holder, epoch, sessions, attempt, attempts>>

AccountsNext ==
    \/ \E b \in Browsers :
          \/ StartAttempt(b) \/ WriteUser(b) \/ RevokeSessions(b) \/ InvalidateLinks(b)
          \/ RegisterAccount(b) \/ Login(b) \/ GoogleRegister(b) \/ GoogleLogin(b)
          \/ LinkGoogle(b) \/ UnlinkGoogle(b) \/ SetPassword(b) \/ ChangePassword(b)
          \/ ResetPassword(b) \/ DeleteAccount(b) \/ VerifyEmail(b) \/ SendLink(b)
          \/ Logout(b) \/ AttemptFails(b)
    \/ \E i \in DOMAIN links : LinkExpires(i)

AccountsSpec == AccountsInit /\ [][AccountsNext]_accountVars
-----------------------------------------------------------------------------
AccountsTypeOK ==
    /\ holder \in [state : {"none", "live", "deleted"}, password : BOOLEAN,
                 google : BOOLEAN, verified : BOOLEAN]
    /\ epoch \in 0..MaxAttempts /\ attempts \in 0..MaxAttempts
    /\ \A i \in DOMAIN sessions : sessions[i].active \in BOOLEAN /\ sessions[i].made \in 0..epoch
    /\ \A i \in DOMAIN links : links[i].kind \in {"verify", "reset"} /\ links[i].before < i
    /\ \A b \in Browsers : attempt[b].session \in 0..Len(sessions)
    /\ Cardinality({b \in Browsers : attempt[b].at \in Holding}) <= 1

(* "A Google-only account must never be left with zero ways to sign in"    *)
(* (auth/service.py), whatever requests cross while it is linked,          *)
(* unlinked, given a password or deleted.                                  *)
KeepsAWayIn == Live => holder.password \/ holder.google

(* "Sign out everywhere": once a password was changed or reset, no session *)
(* is left that was there before but the one that changed it: two such     *)
(* requests, a deletion, a sign-in or a sign-out that cross miss none.     *)
(* (A sign-in that has read the old password and has not committed is not  *)
(* a session yet: it becomes one afterwards.)                              *)
SignedOutEverywhere == \A i \in ActiveSessions : sessions[i].made = epoch

(* "Only the newest outstanding link should ever be redeemable": a link    *)
(* that is valid beside a newer one of its kind was not yet committed when *)
(* the newer one's request looked for links to invalidate.                 *)
NewestLinkOnly ==
    \A i, j \in DOMAIN links :
        i < j /\ links[i].kind = links[j].kind /\ links[i].valid => i > links[j].before

(* The three together: no order of sign-ins, links, resets, password       *)
(* changes and deletions takes the account from its owner's hands.         *)
AccountStaysWithItsOwner == KeepsAWayIn /\ SignedOutEverywhere /\ NewestLinkOnly
=============================================================================
