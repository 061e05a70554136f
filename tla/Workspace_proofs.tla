-------------------------- MODULE Workspace_proofs ---------------------------
(***************************************************************************)
(* The people of a workspace: what holds of an account, of a workspace, of *)
(* signing in with Google and of the limits on attempts, for any number of *)
(* requests in progress, sessions, links, people, invitations, flows and   *)
(* processes.                                                              *)
(***************************************************************************)
EXTENDS Accounts, Memberships, GoogleSignIn, RateLimits, SumLemmas, SequenceTheorems,
        FiniteSetTheorems, TLAPS

-----------------------------------------------------------------------------
(* Accounts.  The UPDATE of the user's row is what the argument rests on:  *)
(* the transaction that holds it sees every session there is until it      *)
(* commits, because a session is only made by a transaction that holds the *)
(* row, or that finds no row at all.                                       *)
UserRows == [state : {"none", "live", "deleted"}, password : BOOLEAN, google : BOOLEAN,
             verified : BOOLEAN]
SessionRows == [active : BOOLEAN, made : Nat]
LinkRows == [kind : {"verify", "reset"}, valid : BOOLEAN, before : Nat]
Operations == {"none", "register", "login", "google", "forgot", "resend", "logout", "link",
               "unlink", "set", "change", "delete", "verify", "reset"}
Stages == {"idle", "checked", "locked", "revoked", "mailing"}
AttemptRows == [op : Operations, at : Stages, session : Nat, link : Nat, known : BOOLEAN,
                linked : BOOLEAN, revokes : SUBSET Nat, before : Nat]

AccountTypes ==
    /\ holder \in UserRows
    /\ epoch \in Nat /\ sessions \in Seq(SessionRows) /\ links \in Seq(LinkRows)
    /\ attempt \in [Browsers -> AttemptRows]

(* A row that was found is never missing again, only one transaction holds *)
(* it, and unlinking began with a password, which nothing takes away.      *)
RowIsHeldOnce ==
    /\ \A b, c \in Browsers : attempt[b].at \in Holding /\ attempt[c].at \in Holding => b = c
    /\ \A b \in Browsers :
          /\ attempt[b].known => holder.state # "none"
          /\ attempt[b].at \in Holding => attempt[b].known
          /\ attempt[b].op = "unlink" => holder.state # "none" /\ holder.password

(* The sessions a holder found are all there are.                          *)
RevokesAll ==
    \A b \in Browsers :
        attempt[b].at = "revoked" => ActiveSessions \subseteq attempt[b].revokes \cup {attempt[b].session}

(* The links a request found to invalidate are all of its kind there were. *)
InvalidatesAll ==
    \A b \in Browsers :
        /\ attempt[b].at # "mailing" => attempt[b].before = 0
        /\ attempt[b].before <= Len(links)
        /\ \A i \in DOMAIN links :
              (i <= attempt[b].before /\ links[i].kind = KindOf(attempt[b].op) /\ links[i].valid)
                  => i \in attempt[b].revokes

AccountInv ==
    AccountTypes /\ RowIsHeldOnce /\ RevokesAll /\ InvalidatesAll /\ AccountStaysWithItsOwner
LEMMA InitAccountInv == AccountsInit => AccountInv
<1> SUFFICES ASSUME AccountsInit PROVE AccountInv
  OBVIOUS
<1>1. NoUser \in UserRows /\ NoUser.state = "none" /\ NoAttempt \in AttemptRows
      /\ NoAttempt.at = "idle" /\ NoAttempt.known = FALSE /\ NoAttempt.op = "none"
      /\ NoAttempt.before = 0
  <2>1. NoUser \in UserRows /\ NoUser.state = "none"
    BY DEF NoUser, UserRows
  <2>2. NoAttempt \in AttemptRows
    BY DEF NoAttempt, AttemptRows, Operations, Stages
  <2>3. NoAttempt.at = "idle" /\ NoAttempt.known = FALSE /\ NoAttempt.op = "none"
        /\ NoAttempt.before = 0
    BY DEF NoAttempt
  <2>4. QED
    BY <2>1, <2>2, <2>3
<1>2. AccountTypes
  BY <1>1 DEF AccountsInit, AccountTypes
<1>3. RowIsHeldOnce /\ RevokesAll /\ InvalidatesAll
  BY <1>1 DEF AccountsInit, RowIsHeldOnce, RevokesAll, InvalidatesAll, Holding
<1>4. AccountStaysWithItsOwner
  BY <1>1 DEF AccountsInit, AccountStaysWithItsOwner, KeepsAWayIn, Live, SignedOutEverywhere,
              ActiveSessions, NewestLinkOnly
<1>5. QED
  BY <1>2, <1>3, <1>4 DEF AccountInv

(* What a step may do to the rows: a user's row and its password stay,     *)
(* sessions only end while a holder revokes them, links only lose their    *)
(* validity.                                                               *)
HolderMoves ==
    /\ holder' \in UserRows /\ KeepsAWayIn'
    /\ holder.state # "none" => holder'.state # "none" /\ (holder.password => holder'.password)

SessionsMove ==
    /\ epoch' \in Nat /\ sessions' \in Seq(SessionRows) /\ SignedOutEverywhere'
    /\ \A c \in Browsers :
          attempt'[c].at = "revoked" => ActiveSessions' \subseteq ActiveSessions

LinksMove ==
    /\ links' \in Seq(LinkRows) /\ Len(links) <= Len(links') /\ NewestLinkOnly'
    /\ \A i \in DOMAIN links :
          links'[i].kind = links[i].kind /\ (links'[i].valid => links[i].valid)

(* A request ends (or none does).                                          *)
LEMMA EndKeepsAccountInv ==
    ASSUME AccountInv, attempt' \in [Browsers -> AttemptRows],
           \A c \in Browsers : attempt'[c] \in {attempt[c], NoAttempt},
           HolderMoves, SessionsMove, LinksMove
    PROVE  AccountInv'
<1> USE DEF AccountInv
<1>1. /\ NoAttempt.at = "idle" /\ NoAttempt.known = FALSE /\ NoAttempt.op = "none"
      /\ NoAttempt.before = 0
  BY DEF NoAttempt
<1>2. AccountTypes'
  BY DEF AccountTypes, HolderMoves, SessionsMove, LinksMove
<1>3. RowIsHeldOnce'
  BY <1>1 DEF RowIsHeldOnce, HolderMoves, Holding
<1>4. RevokesAll'
  BY <1>1 DEF RevokesAll, SessionsMove
<1>5. InvalidatesAll'
  <2> SUFFICES ASSUME NEW b \in Browsers
               PROVE  /\ attempt'[b].at # "mailing" => attempt'[b].before = 0
                      /\ attempt'[b].before <= Len(links')
                      /\ \A i \in DOMAIN links' :
                            (i <= attempt'[b].before /\ links'[i].kind = KindOf(attempt'[b].op)
                                /\ links'[i].valid) => i \in attempt'[b].revokes
    BY DEF InvalidatesAll
  <2>1. Len(links) \in Nat /\ Len(links') \in Nat /\ DOMAIN links = 1..Len(links)
        /\ DOMAIN links' = 1..Len(links') /\ Len(links) <= Len(links')
    BY DEF AccountTypes, LinksMove
  <2>2. CASE attempt'[b] = NoAttempt
    BY <1>1, <2>1, <2>2
  <2>3. CASE attempt'[b] = attempt[b]
    <3>1. attempt[b].before <= Len(links) /\ attempt[b].before \in Nat
      BY DEF InvalidatesAll, AccountTypes, AttemptRows
    <3>2. \A i \in DOMAIN links' : i <= attempt[b].before => i \in DOMAIN links
      BY <2>1, <3>1
    <3>3. QED
      BY <2>1, <2>3, <3>1, <3>2 DEF InvalidatesAll, LinksMove
  <2>4. QED
    BY <2>2, <2>3
<1>6. AccountStaysWithItsOwner'
  BY DEF AccountStaysWithItsOwner, HolderMoves, SessionsMove, LinksMove
<1>7. QED
  BY <1>2, <1>3, <1>4, <1>5, <1>6
(* A request gets on: it has read rows, or locked the user's row, or read  *)
(* the rows it will change.                                                *)
LEMMA ProgressKeepsAccountInv ==
    ASSUME AccountInv, NEW b \in Browsers, NEW q \in AttemptRows,
           attempt' = [attempt EXCEPT ![b] = q], UNCHANGED <<holder, epoch, sessions, links>>,
           q.at \in Holding => (q.known /\ (~UserLocked \/ attempt[b].at \in Holding)),
           q.known => holder.state # "none",
           q.op = "unlink" => holder.state # "none" /\ holder.password,
           q.at = "revoked" => ActiveSessions \subseteq q.revokes \cup {q.session},
           q.at # "mailing" => q.before = 0,
           q.before <= Len(links),
           \A i \in DOMAIN links :
              (i <= q.before /\ links[i].kind = KindOf(q.op) /\ links[i].valid) => i \in q.revokes
    PROVE  AccountInv'
<1>1. AccountTypes'
  BY DEF AccountInv, AccountTypes
<1>2. \A c \in Browsers : attempt'[c] = IF c = b THEN q ELSE attempt[c]
  BY DEF AccountInv, AccountTypes
<1>3. RowIsHeldOnce'
  BY <1>2 DEF AccountInv, RowIsHeldOnce, UserLocked
<1>4. RevokesAll'
  BY <1>2 DEF AccountInv, RevokesAll, ActiveSessions
<1>5. InvalidatesAll'
  BY <1>2 DEF AccountInv, InvalidatesAll
<1>6. AccountStaysWithItsOwner'
  BY DEF AccountInv, AccountStaysWithItsOwner, KeepsAWayIn, Live, SignedOutEverywhere,
         ActiveSessions, NewestLinkOnly
<1>7. QED
  BY <1>1, <1>3, <1>4, <1>5, <1>6 DEF AccountInv

LEMMA StartAttemptInv ==
    ASSUME AccountInv, NEW b \in Browsers, StartAttempt(b)
    PROVE  AccountInv'
<1>2. holder \in UserRows /\ Len(links) \in Nat /\ DOMAIN links = 1..Len(links)
      /\ DOMAIN sessions = 1..Len(sessions) /\ Len(sessions) \in Nat
      /\ \A i \in DOMAIN links : links[i] \in LinkRows
  BY DEF AccountInv, AccountTypes
<1> DEFINE Checked(q) == q \in AttemptRows /\ q.before = 0 /\ (q.op = "unlink" => Live /\ holder.password)
<1>a. ASSUME NEW op \in SignedOut PROVE Checked([NoAttempt EXCEPT !.op = op])
  <2>1. op \in Operations /\ op # "unlink"
    BY DEF SignedOut, Operations
  <2>2. QED
    BY <2>1 DEF NoAttempt, AttemptRows, Stages
<1>b. ASSUME NEW op \in SignedIn, NEW s \in ActiveSessions
      PROVE  Checked([NoAttempt EXCEPT !.op = op, !.session = s])
  <2>1. s \in Nat
    BY <1>2 DEF ActiveSessions
  <2>2. op \in Operations /\ (op = "unlink" => Live /\ holder.password)
    BY DEF SignedIn, Operations, UnlinkAllowed
  <2>3. QED
    BY <2>1, <2>2 DEF NoAttempt, AttemptRows, Stages
<1>c. ASSUME NEW i \in LinksAccepted
      PROVE  Checked([NoAttempt EXCEPT !.op = links[i].kind, !.link = i])
  <2>1. i \in Nat /\ links[i].kind \in {"verify", "reset"}
    BY <1>2 DEF LinksAccepted, LinkRows
  <2>2. QED
    BY <2>1 DEF NoAttempt, AttemptRows, Stages, Operations
<1> HIDE DEF Checked
<1>1. PICK q : Checked(q) /\ Arrives(b, q)
  BY <1>a, <1>b, <1>c DEF StartAttempt
<1> DEFINE p == [q EXCEPT !.at = "checked", !.known = Live, !.linked = holder.google]
<1>3. q \in AttemptRows /\ q.before = 0 /\ (q.op = "unlink" => Live /\ holder.password)
  BY <1>1 DEF Checked
<1>4. p \in AttemptRows /\ p.at = "checked" /\ p.known = Live /\ p.before = 0 /\ p.op = q.op
  BY <1>2, <1>3 DEF AttemptRows, UserRows, Live, Stages
<1>5. UNCHANGED <<holder, epoch, sessions, links>> /\ attempt' = [attempt EXCEPT ![b] = p]
  BY <1>1 DEF StartAttempt, Arrives
<1>6. \A i \in DOMAIN links : ~(i <= p.before)
  BY <1>2, <1>4
<1>7. p.at \notin Holding /\ p.at # "revoked" /\ (p.known => holder.state # "none")
      /\ (p.op = "unlink" => holder.state # "none" /\ holder.password) /\ p.before <= Len(links)
  <2>1. p.at \notin Holding /\ p.at # "revoked"
    BY <1>4 DEF Holding
  <2>2. (p.known => holder.state # "none")
        /\ (p.op = "unlink" => holder.state # "none" /\ holder.password)
    BY <1>2, <1>3, <1>4 DEF Live, UserRows
  <2>3. QED
    BY <1>2, <1>4, <2>1, <2>2
<1> HIDE DEF p
<1>8. QED
  BY <1>4, <1>5, <1>6, <1>7, ProgressKeepsAccountInv

LEMMA WriteUserInv ==
    ASSUME AccountInv, NEW b \in Browsers, WriteUser(b)
    PROVE  AccountInv'
<1> DEFINE p == [attempt[b] EXCEPT !.at = "locked"]
<1>1. attempt[b] \in AttemptRows /\ attempt \in [Browsers -> AttemptRows]
      /\ DOMAIN links = 1..Len(links)
  BY DEF AccountInv, AccountTypes
<1>2. p \in AttemptRows /\ p.at = "locked" /\ p.known = attempt[b].known
      /\ p.op = attempt[b].op /\ p.before = attempt[b].before
  BY <1>1 DEF AttemptRows, Stages
<1>3. attempt' = [attempt EXCEPT ![b] = p] /\ UNCHANGED <<holder, epoch, sessions, links>>
      /\ attempt[b].at = "checked" /\ attempt[b].known /\ ~UserLocked
  BY <1>1 DEF WriteUser
<1>4. p.before = 0 /\ p.before <= Len(links)
  BY <1>2, <1>3 DEF AccountInv, InvalidatesAll
<1>5. \A i \in DOMAIN links : ~(i <= p.before)
  BY <1>1, <1>4
<1>6. (p.known => holder.state # "none")
      /\ (p.op = "unlink" => holder.state # "none" /\ holder.password)
  BY <1>2 DEF AccountInv, RowIsHeldOnce
<1> HIDE DEF p
<1>7. QED
  BY <1>2, <1>3, <1>4, <1>5, <1>6, ProgressKeepsAccountInv

LEMMA RevokeSessionsInv ==
    ASSUME AccountInv, NEW b \in Browsers, RevokeSessions(b)
    PROVE  AccountInv'
<1> DEFINE p == [attempt[b] EXCEPT !.at = "revoked",
                                   !.revokes = ActiveSessions \ {attempt[b].session}]
<1>1. attempt[b] \in AttemptRows /\ attempt \in [Browsers -> AttemptRows]
      /\ DOMAIN links = 1..Len(links) /\ DOMAIN sessions = 1..Len(sessions)
      /\ Len(sessions) \in Nat
  BY DEF AccountInv, AccountTypes
<1>a. ActiveSessions \ {attempt[b].session} \in SUBSET Nat
  BY <1>1 DEF ActiveSessions
<1>2. p \in AttemptRows /\ p.at = "revoked" /\ p.known = attempt[b].known
      /\ p.op = attempt[b].op /\ p.before = attempt[b].before /\ p.session = attempt[b].session
      /\ p.revokes = ActiveSessions \ {attempt[b].session}
  BY <1>1, <1>a DEF AttemptRows, Stages
<1>3. attempt' = [attempt EXCEPT ![b] = p] /\ UNCHANGED <<holder, epoch, sessions, links>>
      /\ attempt[b].at = "locked"
  BY <1>1 DEF RevokeSessions
<1>4. p.before = 0 /\ p.before <= Len(links)
  BY <1>2, <1>3 DEF AccountInv, InvalidatesAll
<1>5. \A i \in DOMAIN links : ~(i <= p.before)
  BY <1>1, <1>4
<1>6. p.known /\ attempt[b].at \in Holding /\ (p.known => holder.state # "none")
      /\ (p.op = "unlink" => holder.state # "none" /\ holder.password)
  BY <1>2, <1>3 DEF AccountInv, RowIsHeldOnce, Holding
<1>7. ActiveSessions \subseteq p.revokes \cup {p.session}
  BY <1>2
<1> HIDE DEF p
<1>8. QED
  BY <1>2, <1>3, <1>4, <1>5, <1>6, <1>7, ProgressKeepsAccountInv

LEMMA InvalidateLinksInv ==
    ASSUME AccountInv, NEW b \in Browsers, InvalidateLinks(b)
    PROVE  AccountInv'
<1> DEFINE p == [attempt[b] EXCEPT !.at = "mailing", !.before = Len(links),
                                   !.revokes = Usable(KindOf(attempt[b].op))]
<1>1. attempt[b] \in AttemptRows /\ attempt \in [Browsers -> AttemptRows]
      /\ DOMAIN links = 1..Len(links) /\ Len(links) \in Nat
  BY DEF AccountInv, AccountTypes
<1>a. Usable(KindOf(attempt[b].op)) \in SUBSET Nat
  BY <1>1 DEF Usable
<1>2. p \in AttemptRows /\ p.at = "mailing" /\ p.known = attempt[b].known
      /\ p.op = attempt[b].op /\ p.before = Len(links)
      /\ p.revokes = Usable(KindOf(attempt[b].op))
  BY <1>1, <1>a DEF AttemptRows, Stages
<1>3. attempt' = [attempt EXCEPT ![b] = p] /\ UNCHANGED <<holder, epoch, sessions, links>>
  BY <1>1 DEF InvalidateLinks
<1>4. (p.known => holder.state # "none")
      /\ (p.op = "unlink" => holder.state # "none" /\ holder.password)
  BY <1>2 DEF AccountInv, RowIsHeldOnce
<1>5. \A i \in DOMAIN links :
          (i <= p.before /\ links[i].kind = KindOf(p.op) /\ links[i].valid) => i \in p.revokes
  BY <1>2 DEF Usable
<1>6. p.before <= Len(links)
  BY <1>1, <1>2
<1> HIDE DEF p
<1>7. QED
  BY <1>2, <1>3, <1>4, <1>5, <1>6, ProgressKeepsAccountInv DEF Holding
(* What the requests that end do to each of the rows.                      *)
LEMMA DoneEnds ==
    ASSUME AccountInv, NEW b \in Browsers, NEW op, NEW at, Done(b, op, at)
    PROVE  /\ attempt' \in [Browsers -> AttemptRows]
           /\ \A c \in Browsers : attempt'[c] \in {attempt[c], NoAttempt}
           /\ at \in Holding => \A c \in Browsers : attempt'[c].at # "revoked"
<1>1. NoAttempt \in AttemptRows /\ NoAttempt.at = "idle"
  BY DEF NoAttempt, AttemptRows, Operations, Stages
<1>2. attempt \in [Browsers -> AttemptRows] /\ attempt[b].at = at
      /\ attempt' = [attempt EXCEPT ![b] = NoAttempt]
  BY DEF AccountInv, AccountTypes, Done
<1>3. \A c \in Browsers : attempt'[c] = IF c = b THEN NoAttempt ELSE attempt[c]
  BY <1>2
<1>4. at \in Holding => \A c \in Browsers : attempt'[c].at # "revoked"
  BY <1>1, <1>2, <1>3 DEF AccountInv, RowIsHeldOnce, Holding
<1>5. QED
  BY <1>1, <1>2, <1>3, <1>4

LEMMA SameHolder == ASSUME AccountInv, UNCHANGED holder PROVE HolderMoves
BY DEF AccountInv, AccountTypes, HolderMoves, AccountStaysWithItsOwner, KeepsAWayIn, Live

LEMMA SameSessions == ASSUME AccountInv, UNCHANGED <<epoch, sessions>> PROVE SessionsMove
BY DEF AccountInv, AccountTypes, SessionsMove, AccountStaysWithItsOwner, SignedOutEverywhere,
       ActiveSessions

LEMMA SameLinks == ASSUME AccountInv, UNCHANGED links PROVE LinksMove
BY DEF AccountInv, AccountTypes, LinksMove, AccountStaysWithItsOwner, NewestLinkOnly

(* A row that is there keeps its password: only flags are set, or taken    *)
(* away where another way to sign in is left.                              *)
LEMMA HolderIsWritten ==
    ASSUME AccountInv, holder' \in UserRows,
           holder'.state = "live" => (holder'.password \/ holder'.google),
           holder.state # "none" => holder'.state # "none",
           holder.state # "none" => (holder.password => holder'.password)
    PROVE  HolderMoves
BY DEF HolderMoves, KeepsAWayIn, Live

LEMMA RowsAreASequence ==
    ASSUME NEW S, NEW n \in Nat, NEW f, f = [i \in 1..n |-> f[i]], \A i \in 1..n : f[i] \in S
    PROVE  f \in Seq(S)
OBVIOUS

(* A session is made while nobody revokes any.                             *)
LEMMA SessionIsMade ==
    ASSUME AccountInv, NewSession, UNCHANGED epoch,
           \A c \in Browsers : attempt'[c].at # "revoked"
    PROVE  SessionsMove
<1>0. sessions \in Seq(SessionRows) /\ epoch \in Nat /\ epoch' = epoch
  BY DEF AccountInv, AccountTypes
<1>1. PICK r \in SessionRows : r.made = epoch /\ sessions' = Append(sessions, r)
  <2>1. [active |-> TRUE, made |-> epoch] \in SessionRows
    BY <1>0 DEF SessionRows
  <2>2. QED
    BY <2>1 DEF NewSession
<1>3. sessions' \in Seq(SessionRows) /\ Len(sessions') = Len(sessions) + 1
      /\ \A i \in 1..Len(sessions) : sessions'[i] = sessions[i]
      /\ sessions'[Len(sessions) + 1] = r
  BY <1>0, <1>1, AppendProperties
<1>4. SignedOutEverywhere'
  <2> SUFFICES ASSUME NEW i \in ActiveSessions' PROVE sessions'[i].made = epoch'
    BY DEF SignedOutEverywhere
  <2>1. i \in 1..(Len(sessions) + 1) /\ sessions'[i].active /\ Len(sessions) \in Nat
    BY <1>0, <1>3 DEF ActiveSessions
  <2>2. CASE i = Len(sessions) + 1
    BY <1>0, <1>1, <1>3, <2>2
  <2>3. CASE i \in 1..Len(sessions)
    BY <1>0, <1>3, <2>1, <2>3 DEF AccountInv, AccountStaysWithItsOwner, SignedOutEverywhere,
                                  ActiveSessions
  <2>4. QED
    BY <2>1, <2>2, <2>3
<1>5. QED
  BY <1>0, <1>3, <1>4 DEF SessionsMove

(* The sessions a request did not find are none, so that its own is left.  *)
LEMMA SessionsAreRevoked ==
    ASSUME AccountInv, NEW b \in Browsers, attempt[b].at = "revoked",
           epoch' = epoch + 1, SignOut(b, epoch + 1),
           \A c \in Browsers : attempt'[c].at # "revoked"
    PROVE  SessionsMove
<1>1. sessions \in Seq(SessionRows) /\ epoch \in Nat
  BY DEF AccountInv, AccountTypes
<1>2. DOMAIN sessions = 1..Len(sessions) /\ Len(sessions) \in Nat
      /\ \A i \in DOMAIN sessions : sessions[i] \in SessionRows
  BY <1>1
<1>3. DOMAIN sessions' = DOMAIN sessions
      /\ \A i \in DOMAIN sessions :
            sessions'[i] = [active |-> sessions[i].active /\ i \notin attempt[b].revokes,
                            made |-> IF i = attempt[b].session THEN epoch + 1 ELSE sessions[i].made]
  BY DEF SignOut
<1>4. \A i \in DOMAIN sessions :
          /\ sessions'[i] \in SessionRows
          /\ sessions'[i].active => sessions[i].active /\ i \notin attempt[b].revokes
  <2> SUFFICES ASSUME NEW i \in DOMAIN sessions
               PROVE  /\ sessions'[i] \in SessionRows
                      /\ sessions'[i].active => sessions[i].active /\ i \notin attempt[b].revokes
    OBVIOUS
  <2>1. PICK m \in BOOLEAN : m = (sessions[i].active /\ i \notin attempt[b].revokes)
    OBVIOUS
  <2>2. sessions'[i] = [active |-> m, made |-> IF i = attempt[b].session THEN epoch + 1
                                                 ELSE sessions[i].made]
    BY <1>3, <2>1
  <2>3. sessions'[i] \in SessionRows
    BY <1>1, <1>2, <2>2 DEF SessionRows
  <2>4. sessions'[i].active = m
    BY <2>2
  <2>5. QED
    BY <2>1, <2>3, <2>4, Zenon
<1>5. sessions' = [i \in 1..Len(sessions) |-> sessions'[i]]
  BY <1>2 DEF SignOut
<1>6. sessions' \in Seq(SessionRows)
  BY <1>2, <1>4, <1>5, RowsAreASequence
<1>7. SignedOutEverywhere'
  <2> SUFFICES ASSUME NEW i \in ActiveSessions' PROVE sessions'[i].made = epoch'
    BY DEF SignedOutEverywhere
  <2>1. i \in DOMAIN sessions /\ sessions'[i].active
    BY <1>3 DEF ActiveSessions
  <2>2. sessions[i].active /\ i \notin attempt[b].revokes
    BY <1>4, <2>1
  <2>3. i = attempt[b].session
    BY <2>1, <2>2 DEF AccountInv, RevokesAll, ActiveSessions
  <2>4. QED
    BY <1>3, <2>1, <2>3
<1>8. QED
  BY <1>1, <1>6, <1>7 DEF SessionsMove

LEMMA SessionsEnd ==
    ASSUME AccountInv, UNCHANGED epoch, NEW S,
           sessions' = [i \in DOMAIN sessions |->
                           [sessions[i] EXCEPT !.active = @ /\ i \notin S]]
    PROVE  SessionsMove
<1>1. sessions \in Seq(SessionRows) /\ epoch \in Nat
  BY DEF AccountInv, AccountTypes
<1>2. DOMAIN sessions = 1..Len(sessions) /\ Len(sessions) \in Nat
      /\ \A i \in DOMAIN sessions : sessions[i] \in SessionRows
  BY <1>1
<1>3. \A i \in DOMAIN sessions :
          /\ sessions'[i] \in SessionRows /\ sessions'[i].made = sessions[i].made
          /\ sessions'[i].active => sessions[i].active
  <2> SUFFICES ASSUME NEW i \in DOMAIN sessions
               PROVE  /\ sessions'[i] \in SessionRows /\ sessions'[i].made = sessions[i].made
                      /\ sessions'[i].active => sessions[i].active
    OBVIOUS
  <2>1. PICK m \in BOOLEAN : m = (sessions[i].active /\ i \notin S)
    OBVIOUS
  <2>2. sessions'[i] = [sessions[i] EXCEPT !.active = m]
    BY <2>1
  <2>3. QED
    BY <1>2, <2>1, <2>2 DEF SessionRows
<1>4. sessions' = [i \in 1..Len(sessions) |-> sessions'[i]] /\ DOMAIN sessions' = DOMAIN sessions
  BY <1>2
<1>5. sessions' \in Seq(SessionRows)
  BY <1>2, <1>3, <1>4, RowsAreASequence
<1>6. ActiveSessions' \subseteq ActiveSessions
  BY <1>3, <1>4 DEF ActiveSessions
<1>7. SignedOutEverywhere'
  BY <1>3, <1>6 DEF SignedOutEverywhere, AccountInv, AccountStaysWithItsOwner, ActiveSessions
<1>8. QED
  BY <1>1, <1>5, <1>6, <1>7 DEF SessionsMove
LEMMA LinkIsUsedUp ==
    ASSUME AccountInv, NEW l, links' = [links EXCEPT ![l].valid = FALSE]
    PROVE  LinksMove
<1>1. links \in Seq(LinkRows) /\ DOMAIN links = 1..Len(links) /\ Len(links) \in Nat
      /\ \A i \in DOMAIN links : links[i] \in LinkRows
  BY DEF AccountInv, AccountTypes
<1>2. links' = [i \in 1..Len(links) |-> links'[i]] /\ DOMAIN links' = DOMAIN links
  BY <1>1
<1>3. \A i \in DOMAIN links :
          /\ links'[i] \in LinkRows /\ links'[i].kind = links[i].kind
          /\ links'[i].before = links[i].before /\ (links'[i].valid => links[i].valid)
  <2> SUFFICES ASSUME NEW i \in DOMAIN links
               PROVE  /\ links'[i] \in LinkRows /\ links'[i].kind = links[i].kind
                      /\ links'[i].before = links[i].before /\ (links'[i].valid => links[i].valid)
    OBVIOUS
  <2>1. links'[i] = IF i = l THEN [links[i] EXCEPT !.valid = FALSE] ELSE links[i]
    OBVIOUS
  <2>2. links[i] \in LinkRows
    BY <1>1
  <2>3. QED
    BY <2>1, <2>2 DEF LinkRows
<1>4. links' \in Seq(LinkRows) /\ Len(links') = Len(links)
  <2>1. \A i \in 1..Len(links) : links'[i] \in LinkRows
    BY <1>1, <1>3
  <2>2. links' \in Seq(LinkRows)
    BY <1>1, <1>2, <2>1, RowsAreASequence
  <2>3. QED
    BY <1>1, <1>2, <2>2
<1>5. NewestLinkOnly'
  BY <1>2, <1>3 DEF NewestLinkOnly, AccountInv, AccountStaysWithItsOwner
<1>6. QED
  BY <1>1, <1>3, <1>4, <1>5 DEF LinksMove

(* A new link: those of its kind that were there when the request looked   *)
(* are among the ones it found.                                            *)
LEMMA LinkIsSent ==
    ASSUME AccountInv, NEW b \in Browsers, Mailed(b, KindOf(attempt[b].op))
    PROVE  LinksMove
<1>1. links \in Seq(LinkRows) /\ DOMAIN links = 1..Len(links) /\ Len(links) \in Nat
      /\ \A i \in DOMAIN links : links[i] \in LinkRows
  BY DEF AccountInv, AccountTypes
<1>2. attempt[b] \in AttemptRows
  BY DEF AccountInv, AccountTypes
<1> DEFINE m == [i \in DOMAIN links |->
                    IF i \in attempt[b].revokes THEN [links[i] EXCEPT !.valid = FALSE]
                    ELSE links[i]]
<1>3. PICK r \in LinkRows : r.kind = KindOf(attempt[b].op) /\ r.before = attempt[b].before
                            /\ links' = Append(m, r)
  <2>1. [kind |-> KindOf(attempt[b].op), valid |-> TRUE, before |-> attempt[b].before] \in LinkRows
    BY <1>2 DEF LinkRows, KindOf, AttemptRows
  <2>2. QED
    BY <2>1 DEF Mailed
<1>4. \A i \in DOMAIN links :
          /\ m[i] \in LinkRows /\ m[i].kind = links[i].kind
          /\ m[i].before = links[i].before
          /\ m[i].valid => links[i].valid /\ i \notin attempt[b].revokes
  <2> SUFFICES ASSUME NEW i \in DOMAIN links
               PROVE  /\ m[i] \in LinkRows /\ m[i].kind = links[i].kind
                      /\ m[i].before = links[i].before
                      /\ m[i].valid => links[i].valid /\ i \notin attempt[b].revokes
    OBVIOUS
  <2>1. links[i] \in LinkRows
    BY <1>1
  <2>2. QED
    BY <2>1 DEF LinkRows
<1>5. m = [i \in 1..Len(links) |-> m[i]]
  BY <1>1
<1> HIDE DEF m
<1>6. m \in Seq(LinkRows) /\ Len(m) = Len(links)
  BY <1>1, <1>4, <1>5, RowsAreASequence
<1>7. links' \in Seq(LinkRows) /\ Len(links') = Len(links) + 1
      /\ \A i \in 1..Len(links) : links'[i] = m[i]
      /\ links'[Len(links) + 1] = r
  BY <1>3, <1>6, AppendProperties
<1>8. DOMAIN links' = 1..(Len(links) + 1)
  BY <1>7
<1>9. NewestLinkOnly'
  <2> SUFFICES ASSUME NEW i \in DOMAIN links', NEW j \in DOMAIN links',
                      i < j, links'[i].kind = links'[j].kind, links'[i].valid
               PROVE  i > links'[j].before
    BY DEF NewestLinkOnly
  <2>1. i \in DOMAIN links /\ links[i].valid /\ i \notin attempt[b].revokes
        /\ links[i].kind = links'[j].kind
    BY <1>1, <1>4, <1>7, <1>8
  <2>2. CASE j \in DOMAIN links
    BY <1>1, <1>4, <1>7, <2>1, <2>2 DEF NewestLinkOnly, AccountInv, AccountStaysWithItsOwner
  <2>3. CASE j = Len(links) + 1
    <3>1. links[i].kind = KindOf(attempt[b].op) /\ links'[j].before = attempt[b].before
      BY <1>3, <1>7, <2>1, <2>3
    <3>2. ~(i <= attempt[b].before)
      BY <2>1, <3>1 DEF AccountInv, InvalidatesAll
    <3>3. QED
      BY <1>1, <1>2, <2>1, <3>1, <3>2 DEF AttemptRows
  <2>4. QED
    BY <1>1, <1>8, <2>2, <2>3
<1>10. QED
  BY <1>1, <1>4, <1>7, <1>9 DEF LinksMove

-----------------------------------------------------------------------------
LEMMA RegisterAccountInv ==
    ASSUME AccountInv, NEW b \in Browsers, RegisterAccount(b) PROVE AccountInv'
<1>1. Done(b, "register", "checked") /\ attempt[b].op = "register"
      /\ UNCHANGED <<epoch, sessions>> /\ Mailed(b, KindOf(attempt[b].op))
  BY DEF RegisterAccount, Done, KindOf
<1>2. HolderMoves
  <2>1. [NoUser EXCEPT !.state = "live", !.password = TRUE] \in UserRows
    BY DEF NoUser, UserRows
  <2>2. holder' = [NoUser EXCEPT !.state = "live", !.password = TRUE] /\ holder.state = "none"
    BY DEF RegisterAccount
  <2>3. holder'.password
    BY <2>2 DEF NoUser
  <2>4. QED
    BY <2>1, <2>2, <2>3 DEF HolderMoves, KeepsAWayIn, Live
<1>3. QED
  BY <1>1, <1>2, DoneEnds, SameSessions, LinkIsSent, EndKeepsAccountInv

LEMMA LoginInv ==
    ASSUME AccountInv, NEW b \in Browsers, Login(b) PROVE AccountInv'
<1>1. Done(b, "login", "locked") /\ NewSession /\ UNCHANGED <<holder, epoch, links>>
      /\ "locked" \in Holding
  BY DEF Login, Holding
<1>2. QED
  BY <1>1, DoneEnds, SameHolder, SessionIsMade, SameLinks, EndKeepsAccountInv

(* No request knows of a row, so none is revoking sessions.                *)
LEMMA GoogleRegisterInv ==
    ASSUME AccountInv, NEW b \in Browsers, GoogleRegister(b) PROVE AccountInv'
<1>1. Done(b, "google", "checked") /\ NewSession /\ UNCHANGED <<epoch, links>>
      /\ holder.state = "none"
  BY DEF GoogleRegister
<1>2. HolderMoves
  <2>1. [NoUser EXCEPT !.state = "live", !.google = TRUE, !.verified = TRUE] \in UserRows
    BY DEF NoUser, UserRows
  <2>2. holder' = [NoUser EXCEPT !.state = "live", !.google = TRUE, !.verified = TRUE]
    BY DEF GoogleRegister
  <2>3. holder'.google
    BY <2>2 DEF NoUser
  <2>4. QED
    BY <1>1, <2>1, <2>2, <2>3 DEF HolderMoves, KeepsAWayIn, Live
<1>3. \A c \in Browsers : attempt'[c].at # "revoked"
  <2>1. NoAttempt.at = "idle"
    BY DEF NoAttempt
  <2>2. \A c \in Browsers : attempt[c].at # "revoked"
    BY <1>1 DEF AccountInv, RowIsHeldOnce, Holding
  <2>3. \A c \in Browsers : attempt'[c] \in {attempt[c], NoAttempt}
    BY <1>1, DoneEnds
  <2>4. QED
    BY <2>1, <2>2, <2>3
<1>4. QED
  BY <1>1, <1>2, <1>3, DoneEnds, SessionIsMade, SameLinks, EndKeepsAccountInv

LEMMA FlagsInv ==
    ASSUME AccountInv, NEW b \in Browsers,
           GoogleLogin(b) \/ LinkGoogle(b) \/ UnlinkGoogle(b) \/ SetPassword(b)
    PROVE  HolderMoves
<1>1. holder \in UserRows /\ (holder.state = "live" => (holder.password \/ holder.google))
  BY DEF AccountInv, AccountTypes, AccountStaysWithItsOwner, KeepsAWayIn, Live
<1>2. CASE GoogleLogin(b)
  <2>8. holder' \in UserRows /\ (holder'.state = "live" => (holder'.password \/ holder'.google))
        /\ (holder.state # "none" => holder'.state # "none") /\ (holder.password => holder'.password)
    BY <1>1, <1>2 DEF GoogleLogin, UserRows
  <2>9. QED
    BY <2>8, HolderIsWritten
<1>3. CASE LinkGoogle(b)
  <2>8. holder' \in UserRows /\ (holder'.state = "live" => (holder'.password \/ holder'.google))
        /\ (holder.state # "none" => holder'.state # "none") /\ (holder.password => holder'.password)
    BY <1>1, <1>3 DEF LinkGoogle, UserRows
  <2>9. QED
    BY <2>8, HolderIsWritten
<1>4. CASE UnlinkGoogle(b)
  <2>1. holder.password
    BY <1>4 DEF UnlinkGoogle, Done, AccountInv, RowIsHeldOnce
  <2>2. QED
    <3>8. holder' \in UserRows /\ (holder'.state = "live" => (holder'.password \/ holder'.google))
          /\ (holder.state # "none" => holder'.state # "none") /\ (holder.password => holder'.password)
      BY <1>1, <1>4, <2>1 DEF UnlinkGoogle, UserRows
    <3>9. QED
      BY <3>8, HolderIsWritten
<1>5. CASE SetPassword(b)
  <2>8. holder' \in UserRows /\ (holder'.state = "live" => (holder'.password \/ holder'.google))
        /\ (holder.state # "none" => holder'.state # "none") /\ (holder.password => holder'.password)
    BY <1>1, <1>5 DEF SetPassword, UserRows
  <2>9. QED
    BY <2>8, HolderIsWritten
<1>6. QED
  BY <1>2, <1>3, <1>4, <1>5

LEMMA GoogleLoginInv ==
    ASSUME AccountInv, NEW b \in Browsers, GoogleLogin(b) PROVE AccountInv'
<1>1. Done(b, "google", "locked") /\ NewSession /\ UNCHANGED <<epoch, links>>
      /\ "locked" \in Holding
  BY DEF GoogleLogin, Holding
<1>2. QED
  BY <1>1, DoneEnds, FlagsInv, SessionIsMade, SameLinks, EndKeepsAccountInv

LEMMA FlagOnlyInv ==
    ASSUME AccountInv, NEW b \in Browsers, LinkGoogle(b) \/ UnlinkGoogle(b) \/ SetPassword(b)
    PROVE  AccountInv'
<1>1. PICK op \in {"link", "unlink", "set"} : Done(b, op, "locked")
  BY DEF LinkGoogle, UnlinkGoogle, SetPassword
<1>2. UNCHANGED <<epoch, sessions>> /\ UNCHANGED links
  BY DEF LinkGoogle, UnlinkGoogle, SetPassword
<1>3. QED
  BY <1>1, <1>2, DoneEnds, FlagsInv, SameSessions, SameLinks, EndKeepsAccountInv

LEMMA ChangePasswordInv ==
    ASSUME AccountInv, NEW b \in Browsers, ChangePassword(b) PROVE AccountInv'
<1>1. Done(b, "change", "revoked") /\ attempt[b].at = "revoked" /\ "revoked" \in Holding
      /\ epoch' = epoch + 1 /\ SignOut(b, epoch + 1) /\ UNCHANGED holder /\ UNCHANGED links
  BY DEF ChangePassword, Done, Holding
<1>2. QED
  BY <1>1, DoneEnds, SameHolder, SessionsAreRevoked, SameLinks, EndKeepsAccountInv

LEMMA ResetPasswordInv ==
    ASSUME AccountInv, NEW b \in Browsers, ResetPassword(b) PROVE AccountInv'
<1>1. Done(b, "reset", "revoked") /\ attempt[b].at = "revoked" /\ "revoked" \in Holding
      /\ epoch' = epoch + 1 /\ SignOut(b, epoch + 1)
      /\ links' = [links EXCEPT ![attempt[b].link].valid = FALSE]
  BY DEF ResetPassword, Done, Holding
<1>2. HolderMoves
  <2>1. holder \in UserRows /\ holder' = [holder EXCEPT !.password = TRUE]
    BY DEF AccountInv, AccountTypes, ResetPassword
  <2>2. QED
    <3>8. holder' \in UserRows /\ (holder'.state = "live" => (holder'.password \/ holder'.google))
          /\ (holder.state # "none" => holder'.state # "none") /\ (holder.password => holder'.password)
      BY <2>1 DEF UserRows
    <3>9. QED
      BY <3>8, HolderIsWritten
<1>3. QED
  BY <1>1, <1>2, DoneEnds, SessionsAreRevoked, LinkIsUsedUp, EndKeepsAccountInv

LEMMA DeleteAccountInv ==
    ASSUME AccountInv, NEW b \in Browsers, DeleteAccount(b) PROVE AccountInv'
<1>1. Done(b, "delete", "revoked") /\ UNCHANGED epoch /\ UNCHANGED links
  BY DEF DeleteAccount
<1>2. HolderMoves
  <2>1. holder \in UserRows /\ holder' = [holder EXCEPT !.state = "deleted"]
    BY DEF AccountInv, AccountTypes, DeleteAccount
  <2>2. QED
    <3>8. holder' \in UserRows /\ (holder'.state = "live" => (holder'.password \/ holder'.google))
          /\ (holder.state # "none" => holder'.state # "none") /\ (holder.password => holder'.password)
      BY <2>1 DEF UserRows
    <3>9. QED
      BY <3>8, HolderIsWritten
<1>3. SessionsMove
  <2>1. sessions' = [i \in DOMAIN sessions |->
                        [sessions[i] EXCEPT !.active = @ /\ i \notin attempt[b].revokes \cup {attempt[b].session}]]
    BY DEF DeleteAccount
  <2>2. QED
    BY <1>1, <2>1, SessionsEnd
<1>4. QED
  BY <1>1, <1>2, <1>3, DoneEnds, SameLinks, EndKeepsAccountInv

LEMMA VerifyEmailInv ==
    ASSUME AccountInv, NEW b \in Browsers, VerifyEmail(b) PROVE AccountInv'
<1>1. Done(b, "verify", "locked") /\ UNCHANGED <<epoch, sessions>>
      /\ links' = [links EXCEPT ![attempt[b].link].valid = FALSE]
  BY DEF VerifyEmail
<1>2. HolderMoves
  <2>1. holder \in UserRows /\ holder' = [holder EXCEPT !.verified = TRUE]
        /\ (holder.state = "live" => (holder.password \/ holder.google))
    BY DEF AccountInv, AccountTypes, AccountStaysWithItsOwner, KeepsAWayIn, Live, VerifyEmail
  <2>2. QED
    <3>8. holder' \in UserRows /\ (holder'.state = "live" => (holder'.password \/ holder'.google))
          /\ (holder.state # "none" => holder'.state # "none") /\ (holder.password => holder'.password)
      BY <2>1 DEF UserRows
    <3>9. QED
      BY <3>8, HolderIsWritten
<1>3. QED
  BY <1>1, <1>2, DoneEnds, SameSessions, LinkIsUsedUp, EndKeepsAccountInv

LEMMA SendLinkInv ==
    ASSUME AccountInv, NEW b \in Browsers, SendLink(b) PROVE AccountInv'
<1>1. PICK op \in {"resend", "forgot"} : Done(b, op, "mailing") /\ Mailed(b, KindOf(op))
  BY DEF SendLink
<1>2. Mailed(b, KindOf(attempt[b].op)) /\ UNCHANGED holder /\ UNCHANGED <<epoch, sessions>>
  BY <1>1 DEF SendLink, Done
<1>3. QED
  BY <1>1, <1>2, DoneEnds, SameHolder, SameSessions, LinkIsSent, EndKeepsAccountInv

LEMMA LogoutInv ==
    ASSUME AccountInv, NEW b \in Browsers, Logout(b) PROVE AccountInv'
<1>1. Done(b, "logout", "checked") /\ UNCHANGED holder /\ UNCHANGED epoch /\ UNCHANGED links
  BY DEF Logout
<1>2. SessionsMove
  <2>1. sessions \in Seq(SessionRows)
        /\ sessions' = [sessions EXCEPT ![attempt[b].session].active = FALSE]
    BY DEF AccountInv, AccountTypes, Logout
  <2>2. DOMAIN sessions = 1..Len(sessions) /\ \A i \in DOMAIN sessions : sessions[i] \in SessionRows
    BY <2>1
  <2>3. sessions' = [i \in DOMAIN sessions |->
                        [sessions[i] EXCEPT !.active = @ /\ i \notin {attempt[b].session}]]
    BY <2>1, <2>2 DEF SessionRows
  <2>4. QED
    BY <1>1, <2>3, SessionsEnd
<1>3. QED
  BY <1>1, <1>2, DoneEnds, SameHolder, SameLinks, EndKeepsAccountInv

LEMMA AttemptFailsInv ==
    ASSUME AccountInv, NEW b \in Browsers, AttemptFails(b) PROVE AccountInv'
<1>1. attempt \in [Browsers -> AttemptRows] /\ attempt' = [attempt EXCEPT ![b] = NoAttempt]
      /\ NoAttempt \in AttemptRows
  BY DEF AccountInv, AccountTypes, AttemptFails, NoAttempt, AttemptRows, Operations, Stages
<1>2. attempt' \in [Browsers -> AttemptRows]
      /\ \A c \in Browsers : attempt'[c] \in {attempt[c], NoAttempt}
  BY <1>1
<1>3. UNCHANGED holder /\ UNCHANGED <<epoch, sessions>> /\ UNCHANGED links
  BY DEF AttemptFails
<1>4. QED
  BY <1>2, <1>3, SameHolder, SameSessions, SameLinks, EndKeepsAccountInv

LEMMA LinkExpiresInv ==
    ASSUME AccountInv, NEW i \in DOMAIN links, LinkExpires(i) PROVE AccountInv'
<1>1. UNCHANGED holder /\ UNCHANGED <<epoch, sessions>> /\ UNCHANGED attempt
      /\ links' = [links EXCEPT ![i].valid = FALSE]
  BY DEF LinkExpires
<1>2. attempt' \in [Browsers -> AttemptRows]
      /\ \A c \in Browsers : attempt'[c] \in {attempt[c], NoAttempt}
  BY <1>1 DEF AccountInv, AccountTypes
<1>3. QED
  BY <1>1, <1>2, SameHolder, SameSessions, LinkIsUsedUp, EndKeepsAccountInv

LEMMA AccountInvStep ==
    ASSUME AccountInv, [AccountsNext]_accountVars PROVE AccountInv'
<1>1. ASSUME NEW b \in Browsers,
             \/ StartAttempt(b) \/ WriteUser(b) \/ RevokeSessions(b) \/ InvalidateLinks(b)
             \/ RegisterAccount(b) \/ Login(b) \/ GoogleRegister(b) \/ GoogleLogin(b)
             \/ LinkGoogle(b) \/ UnlinkGoogle(b) \/ SetPassword(b) \/ ChangePassword(b)
             \/ ResetPassword(b) \/ DeleteAccount(b) \/ VerifyEmail(b) \/ SendLink(b)
             \/ Logout(b) \/ AttemptFails(b)
      PROVE  AccountInv'
  BY <1>1, StartAttemptInv, WriteUserInv, RevokeSessionsInv, InvalidateLinksInv,
     RegisterAccountInv, LoginInv, GoogleRegisterInv, GoogleLoginInv, FlagOnlyInv,
     ChangePasswordInv, ResetPasswordInv, DeleteAccountInv, VerifyEmailInv, SendLinkInv,
     LogoutInv, AttemptFailsInv, ZenonT(60)
<1>2. ASSUME NEW i \in DOMAIN links, LinkExpires(i) PROVE AccountInv'
  BY <1>2, LinkExpiresInv
<1>3. CASE UNCHANGED accountVars
  BY <1>3 DEF accountVars, AccountInv, AccountTypes, RowIsHeldOnce, RevokesAll, InvalidatesAll,
              ActiveSessions, AccountStaysWithItsOwner, KeepsAWayIn, Live, SignedOutEverywhere,
              NewestLinkOnly
<1>4. QED
  BY <1>1, <1>2, <1>3 DEF AccountsNext

(* Whatever sign-ins, links, resets, password changes and deletions cross, *)
(* a live account keeps a way in, a password change or reset leaves no     *)
(* session of before but its own, and a link that is superseded cannot be  *)
(* redeemed: for any number of requests at a time, sessions and links.     *)
THEOREM AccountIsItsOwners == AccountsSpec => []AccountStaysWithItsOwner
<1>1. AccountInv => AccountStaysWithItsOwner
  BY DEF AccountInv
<1>2. QED
  BY InitAccountInv, AccountInvStep, <1>1, PTL DEF AccountsSpec

(* Every password change or reset was a request of its own; a session is   *)
(* of an epoch that has begun, and a link is younger than the links its    *)
(* request found.                                                          *)
UnderWay == {b \in Browsers : attempt[b] # NoAttempt}

AttemptsAreCounted ==
    /\ attempts \in Nat /\ attempts <= MaxAttempts
    /\ IsFiniteSet(UnderWay) /\ epoch + Cardinality(UnderWay) <= attempts

SessionsAreOfThePast ==
    /\ \A i \in DOMAIN sessions : sessions[i].made <= epoch
    /\ \A b \in Browsers : attempt[b].session <= Len(sessions)

LinksLookBack == \A i \in DOMAIN links : links[i].before < i

(* What a step does to a request and to the epoch                          *)
Arriving(b) ==
    /\ attempt[b] = NoAttempt /\ attempts < MaxAttempts /\ attempts' = attempts + 1
    /\ attempt'[b] # NoAttempt /\ attempt'[b].session \in ActiveSessions \cup {0}
    /\ UNCHANGED <<epoch, sessions, links>>

Proceeding(b) ==
    /\ attempt[b] # NoAttempt /\ attempt'[b] # NoAttempt
    /\ attempt'[b].session = attempt[b].session
    /\ UNCHANGED <<epoch, sessions, links, attempts>>

Ending(b) ==
    /\ attempt[b] # NoAttempt /\ attempt' = [attempt EXCEPT ![b] = NoAttempt]
    /\ UNCHANGED attempts

LEMMA RequestMoves ==
    ASSUME AccountInv, NEW b \in Browsers,
           \/ StartAttempt(b) \/ WriteUser(b) \/ RevokeSessions(b) \/ InvalidateLinks(b)
    PROVE  /\ Arriving(b) \/ Proceeding(b)
           /\ \A c \in Browsers \ {b} : attempt'[c] = attempt[c]
<1>1. attempt \in [Browsers -> AttemptRows] /\ attempt[b] \in AttemptRows
  BY DEF AccountInv, AccountTypes
<1>2. NoAttempt.at = "idle" /\ NoAttempt.session = 0
  BY DEF NoAttempt
<1>3. CASE StartAttempt(b)
  <2>1. PICK q : q.at = "checked" /\ q.session \in ActiveSessions \cup {0}
                 /\ attempt' = [attempt EXCEPT ![b] = q]
    <3>1. CASE \E op \in SignedOut : Arrives(b, [NoAttempt EXCEPT !.op = op])
      <4>1. PICK op \in SignedOut : Arrives(b, [NoAttempt EXCEPT !.op = op])
        BY <3>1
      <4> DEFINE q == [[NoAttempt EXCEPT !.op = op] EXCEPT !.at = "checked", !.known = Live,
                                                           !.linked = holder.google]
      <4>2. q.at = "checked" /\ q.session = 0
        BY DEF NoAttempt
      <4>3. attempt' = [attempt EXCEPT ![b] = q]
        BY <4>1 DEF Arrives
      <4>4. QED
        BY <4>2, <4>3
    <3>2. CASE \E op \in SignedIn, s \in ActiveSessions :
                  Arrives(b, [NoAttempt EXCEPT !.op = op, !.session = s])
      <4>1. PICK op \in SignedIn, s \in ActiveSessions :
                    Arrives(b, [NoAttempt EXCEPT !.op = op, !.session = s])
        BY <3>2
      <4> DEFINE q == [[NoAttempt EXCEPT !.op = op, !.session = s]
                          EXCEPT !.at = "checked", !.known = Live, !.linked = holder.google]
      <4>2. q.at = "checked" /\ q.session = s
        BY DEF NoAttempt
      <4>3. attempt' = [attempt EXCEPT ![b] = q]
        BY <4>1 DEF Arrives
      <4>4. QED
        BY <4>2, <4>3
    <3>3. CASE \E i \in LinksAccepted : Arrives(b, [NoAttempt EXCEPT !.op = links[i].kind, !.link = i])
      <4>1. PICK i \in LinksAccepted : Arrives(b, [NoAttempt EXCEPT !.op = links[i].kind, !.link = i])
        BY <3>3
      <4> DEFINE q == [[NoAttempt EXCEPT !.op = links[i].kind, !.link = i]
                          EXCEPT !.at = "checked", !.known = Live, !.linked = holder.google]
      <4>2. q.at = "checked" /\ q.session = 0
        BY DEF NoAttempt
      <4>3. attempt' = [attempt EXCEPT ![b] = q]
        BY <4>1 DEF Arrives
      <4>4. QED
        BY <4>2, <4>3
    <3>4. QED
      BY <1>3, <3>1, <3>2, <3>3 DEF StartAttempt
  <2>2. attempt'[b] = q /\ \A c \in Browsers \ {b} : attempt'[c] = attempt[c]
    BY <1>1, <2>1
  <2>3. QED
    BY <1>2, <1>3, <2>1, <2>2 DEF StartAttempt, Arriving
<1>4. CASE WriteUser(b) \/ RevokeSessions(b) \/ InvalidateLinks(b)
  <2>1. attempt[b].at \in {"checked", "locked"}
    BY <1>4 DEF WriteUser, RevokeSessions, InvalidateLinks
  <2>2. /\ attempt'[b].at \in {"locked", "revoked", "mailing"}
        /\ attempt'[b].session = attempt[b].session
        /\ \A c \in Browsers \ {b} : attempt'[c] = attempt[c]
    BY <1>1, <1>4 DEF WriteUser, RevokeSessions, InvalidateLinks, AttemptRows
  <2>3. UNCHANGED <<epoch, sessions, links, attempts>>
    BY <1>4 DEF WriteUser, RevokeSessions, InvalidateLinks
  <2>4. QED
    BY <1>2, <2>1, <2>2, <2>3 DEF Proceeding
<1>5. QED
  BY <1>3, <1>4

(* The request ends, and one that changed the password began an epoch.     *)
Finishing(b) ==
    \/ RegisterAccount(b) \/ Login(b) \/ GoogleRegister(b) \/ GoogleLogin(b)
    \/ LinkGoogle(b) \/ UnlinkGoogle(b) \/ SetPassword(b) \/ ChangePassword(b)
    \/ ResetPassword(b) \/ DeleteAccount(b) \/ VerifyEmail(b) \/ SendLink(b)
    \/ Logout(b) \/ AttemptFails(b)

LEMMA FinishingEnds ==
    ASSUME AccountInv, NEW b \in Browsers, Finishing(b)
    PROVE  Ending(b) /\ epoch' \in {epoch, epoch + 1}
<1>1. NoAttempt.at = "idle"
  BY DEF NoAttempt
<1>2. CASE AttemptFails(b)
  BY <1>2 DEF AttemptFails, Ending
<1>3. CASE ~AttemptFails(b)
  <2>1. PICK op, at : Done(b, op, at) /\ at \in {"checked", "locked", "revoked", "mailing"}
    BY <1>3 DEF Finishing, RegisterAccount, Login, GoogleRegister, GoogleLogin, LinkGoogle,
                UnlinkGoogle, SetPassword, ChangePassword, ResetPassword, DeleteAccount,
                VerifyEmail, SendLink, Logout
  <2>2. Ending(b)
    BY <1>1, <2>1 DEF Done, Ending
  <2>3. epoch' \in {epoch, epoch + 1}
    BY <1>3 DEF Finishing, RegisterAccount, Login, GoogleRegister, GoogleLogin, LinkGoogle,
                UnlinkGoogle, SetPassword, ChangePassword, ResetPassword, DeleteAccount,
                VerifyEmail, SendLink, Logout
  <2>4. QED
    BY <2>2, <2>3
<1>4. QED
  BY <1>2, <1>3

LEMMA AttemptsStayCounted ==
    ASSUME AccountInv, AttemptsAreCounted, NEW b \in Browsers,
           \/ (Arriving(b) \/ Proceeding(b)) /\ \A c \in Browsers \ {b} : attempt'[c] = attempt[c]
           \/ Ending(b) /\ epoch' \in {epoch, epoch + 1}
    PROVE  AttemptsAreCounted'
<1>1. /\ attempts \in Nat /\ attempts <= MaxAttempts /\ MaxAttempts \in Nat /\ epoch \in Nat
      /\ IsFiniteSet(UnderWay) /\ epoch + Cardinality(UnderWay) <= attempts
      /\ Cardinality(UnderWay) \in Nat
  BY FS_CardinalityType, AccountsAssumption DEF AttemptsAreCounted, AccountInv, AccountTypes
<1>2. CASE Arriving(b) /\ \A c \in Browsers \ {b} : attempt'[c] = attempt[c]
  <2>1. b \notin UnderWay /\ UnderWay' = UnderWay \cup {b}
    BY <1>2 DEF UnderWay, Arriving
  <2>2. IsFiniteSet(UnderWay') /\ Cardinality(UnderWay') = Cardinality(UnderWay) + 1
    BY <1>1, <2>1, FS_AddElement
  <2>3. attempts' = attempts + 1 /\ attempts < MaxAttempts /\ epoch' = epoch
    BY <1>2 DEF Arriving
  <2>4. QED
    BY <1>1, <2>2, <2>3 DEF AttemptsAreCounted
<1>3. CASE Proceeding(b) /\ \A c \in Browsers \ {b} : attempt'[c] = attempt[c]
  <2>1. UnderWay' = UnderWay /\ epoch' = epoch /\ attempts' = attempts
    BY <1>3 DEF UnderWay, Proceeding
  <2>2. QED
    BY <1>1, <2>1 DEF AttemptsAreCounted
<1>4. CASE Ending(b) /\ epoch' \in {epoch, epoch + 1}
  <2>1. b \in UnderWay /\ UnderWay' = UnderWay \ {b}
    BY <1>4 DEF UnderWay, Ending, AccountInv, AccountTypes
  <2>2. IsFiniteSet(UnderWay') /\ Cardinality(UnderWay') = Cardinality(UnderWay) - 1
    BY <1>1, <2>1, FS_RemoveElement
  <2>3. attempts' = attempts
    BY <1>4 DEF Ending
  <2>4. QED
    BY <1>1, <1>4, <2>2, <2>3 DEF AttemptsAreCounted
<1>5. QED
  BY <1>2, <1>3, <1>4

LEMMA SessionsStayOfThePast ==
    ASSUME AccountInv, SessionsAreOfThePast, NEW b \in Browsers,
           \/ (Arriving(b) \/ Proceeding(b)) /\ \A c \in Browsers \ {b} : attempt'[c] = attempt[c]
           \/ Finishing(b) /\ Ending(b) /\ epoch' \in {epoch, epoch + 1}
    PROVE  SessionsAreOfThePast'
<1>1. /\ epoch \in Nat /\ sessions \in Seq(SessionRows) /\ Len(sessions) \in Nat
      /\ DOMAIN sessions = 1..Len(sessions)
      /\ \A i \in DOMAIN sessions : sessions[i].made \in Nat /\ sessions[i].made <= epoch
      /\ \A c \in Browsers : attempt[c].session <= Len(sessions)
  <2>1. epoch \in Nat /\ sessions \in Seq(SessionRows)
    BY DEF AccountInv, AccountTypes
  <2>2. Len(sessions) \in Nat /\ DOMAIN sessions = 1..Len(sessions)
    BY <2>1
  <2>3. \A i \in DOMAIN sessions : sessions[i] \in SessionRows
    BY <2>1, <2>2
  <2>4. QED
    BY <2>1, <2>2, <2>3 DEF SessionsAreOfThePast, SessionRows
<1>2. CASE (Arriving(b) \/ Proceeding(b)) /\ \A c \in Browsers \ {b} : attempt'[c] = attempt[c]
  <2>1. attempt'[b].session <= Len(sessions)
    BY <1>1, <1>2 DEF Arriving, Proceeding, ActiveSessions
  <2>2. sessions' = sessions /\ epoch' = epoch
    BY <1>2 DEF Arriving, Proceeding
  <2>3. QED
    BY <1>1, <1>2, <2>1, <2>2 DEF SessionsAreOfThePast
<1>3. ASSUME Finishing(b), epoch' \in {epoch, epoch + 1}
      PROVE  /\ Len(sessions') \in Nat /\ Len(sessions) <= Len(sessions')
             /\ \A i \in DOMAIN sessions' : sessions'[i].made <= epoch'
  <2>1. CASE Login(b) \/ GoogleRegister(b) \/ GoogleLogin(b)
    <3>1. NewSession /\ epoch' = epoch
      BY <2>1 DEF Login, GoogleRegister, GoogleLogin
    <3>2. PICK r \in SessionRows : r.made = epoch /\ sessions' = Append(sessions, r)
      <4>1. [active |-> TRUE, made |-> epoch] \in SessionRows
        BY <1>1 DEF SessionRows
      <4>2. QED
        BY <3>1, <4>1 DEF NewSession
    <3>3. sessions' \in Seq(SessionRows) /\ Len(sessions') = Len(sessions) + 1
          /\ \A i \in 1..Len(sessions) : sessions'[i] = sessions[i]
          /\ sessions'[Len(sessions) + 1] = r
      BY <1>1, <3>2, AppendProperties
    <3>4. ASSUME NEW i \in DOMAIN sessions' PROVE sessions'[i].made <= epoch'
      <4>1. i \in 1..Len(sessions) \/ i = Len(sessions) + 1
        BY <1>1, <3>3
      <4>2. QED
        BY <1>1, <3>1, <3>2, <3>3, <4>1
    <3>5. QED
      BY <1>1, <3>3, <3>4
  <2>2. CASE ChangePassword(b) \/ ResetPassword(b)
    <3>1. epoch' = epoch + 1 /\ SignOut(b, epoch + 1)
      BY <2>2 DEF ChangePassword, ResetPassword
    <3>2. sessions' = [i \in 1..Len(sessions) |->
                          [active |-> sessions[i].active /\ i \notin attempt[b].revokes,
                           made   |-> IF i = attempt[b].session THEN epoch + 1 ELSE sessions[i].made]]
      BY <1>1, <3>1 DEF SignOut
    <3>3. DOMAIN sessions' = 1..Len(sessions) /\ Len(sessions') = Len(sessions)
      BY <1>1, <3>2
    <3>4. \A i \in DOMAIN sessions' : sessions'[i].made \in {epoch + 1, sessions[i].made}
      BY <3>2
    <3>5. \A i \in DOMAIN sessions' : sessions'[i].made <= epoch + 1
      BY <1>1, <3>3, <3>4
    <3>6. QED
      BY <1>1, <3>1, <3>3, <3>5
  <2>3. CASE DeleteAccount(b) \/ Logout(b)
    <3>1. epoch' = epoch
      BY <2>3 DEF DeleteAccount, Logout
    <3>2. DOMAIN sessions' = 1..Len(sessions) /\ Len(sessions') = Len(sessions)
      <4>1. CASE DeleteAccount(b)
        BY <1>1, <4>1 DEF DeleteAccount
      <4>2. CASE Logout(b)
        BY <1>1, <4>2 DEF Logout
      <4>3. QED
        BY <2>3, <4>1, <4>2
    <3>3. \A i \in DOMAIN sessions : sessions[i] \in SessionRows
      BY <1>1
    <3>4. ASSUME NEW i \in DOMAIN sessions' PROVE sessions'[i].made = sessions[i].made
      <4>1. CASE DeleteAccount(b)
        BY <1>1, <3>2, <3>3, <4>1 DEF DeleteAccount, SessionRows
      <4>2. CASE Logout(b)
        BY <1>1, <3>2, <3>3, <4>2 DEF Logout, SessionRows
      <4>3. QED
        BY <2>3, <4>1, <4>2
    <3>5. QED
      BY <1>1, <3>1, <3>2, <3>4
  <2>4. CASE sessions' = sessions
    BY <1>1, <1>3, <2>4
  <2>5. sessions' = sessions
        \/ Login(b) \/ GoogleRegister(b) \/ GoogleLogin(b) \/ ChangePassword(b) \/ ResetPassword(b)
        \/ DeleteAccount(b) \/ Logout(b)
    BY <1>3 DEF Finishing, RegisterAccount, LinkGoogle, UnlinkGoogle, SetPassword, VerifyEmail,
                SendLink, AttemptFails
  <2>6. QED
    BY <2>1, <2>2, <2>3, <2>4, <2>5
<1>4. CASE Finishing(b) /\ Ending(b) /\ epoch' \in {epoch, epoch + 1}
  <2>1. \A c \in Browsers : attempt'[c].session \in {attempt[c].session, 0}
    BY <1>4 DEF Ending, AccountInv, AccountTypes, NoAttempt
  <2>2. \A c \in Browsers : attempt[c].session \in Nat
    BY DEF AccountInv, AccountTypes, AttemptRows
  <2>3. \A c \in Browsers : attempt'[c].session <= Len(sessions')
    BY <1>1, <1>3, <1>4, <2>1, <2>2
  <2>4. QED
    BY <1>3, <1>4, <2>3 DEF SessionsAreOfThePast
<1>5. QED
  BY <1>2, <1>4

LEMMA LinksStillLookBack ==
    ASSUME AccountInv, LinksLookBack,
           \/ UNCHANGED links
           \/ \E l : links' = [links EXCEPT ![l].valid = FALSE]
           \/ \E b \in Browsers, kind \in {"verify", "reset"} : Mailed(b, kind)
    PROVE  LinksLookBack'
<1>1. /\ links \in Seq(LinkRows) /\ DOMAIN links = 1..Len(links) /\ Len(links) \in Nat
      /\ \A i \in DOMAIN links : links[i] \in LinkRows /\ links[i].before < i
  BY DEF AccountInv, AccountTypes, LinksLookBack
<1>2. CASE UNCHANGED links
  BY <1>2 DEF LinksLookBack
<1>3. ASSUME NEW l, links' = [links EXCEPT ![l].valid = FALSE] PROVE LinksLookBack'
  <2>1. DOMAIN links' = DOMAIN links
    BY <1>1, <1>3
  <2>2. ASSUME NEW i \in DOMAIN links PROVE links'[i].before = links[i].before
    <3>1. links'[i] = IF i = l THEN [links[i] EXCEPT !.valid = FALSE] ELSE links[i]
      BY <1>3
    <3>2. QED
      BY <1>1, <3>1 DEF LinkRows
  <2>3. QED
    BY <1>1, <2>1, <2>2 DEF LinksLookBack
<1>4. ASSUME NEW b \in Browsers, NEW kind \in {"verify", "reset"}, Mailed(b, kind) PROVE LinksLookBack'
  <2> DEFINE m == [i \in DOMAIN links |->
                      IF i \in attempt[b].revokes THEN [links[i] EXCEPT !.valid = FALSE]
                      ELSE links[i]]
             r == [kind |-> kind, valid |-> TRUE, before |-> attempt[b].before]
  <2>1. links' = Append(m, r) /\ r.before = attempt[b].before
    BY <1>4 DEF Mailed
  <2>2. attempt[b].before \in Nat /\ attempt[b].before <= Len(links)
    BY DEF AccountInv, AccountTypes, InvalidatesAll, AttemptRows
  <2>3. r \in LinkRows
    BY <2>2 DEF LinkRows
  <2>4. \A i \in DOMAIN links : m[i] \in LinkRows /\ m[i].before = links[i].before
    BY <1>1 DEF LinkRows
  <2>5. m = [i \in 1..Len(links) |-> m[i]]
    BY <1>1
  <2> HIDE DEF m, r
  <2>6. m \in Seq(LinkRows) /\ Len(m) = Len(links)
    BY <1>1, <2>4, <2>5, RowsAreASequence
  <2>7. links' \in Seq(LinkRows) /\ Len(links') = Len(links) + 1
        /\ \A i \in 1..Len(links) : links'[i] = m[i]
        /\ links'[Len(links) + 1] = r
    BY <2>1, <2>3, <2>6, AppendProperties
  <2>8. ASSUME NEW i \in DOMAIN links' PROVE links'[i].before < i
    <3>1. i \in DOMAIN links \/ i = Len(links) + 1
      <4>1. i \in 1..(Len(links) + 1)
        BY <2>7, <2>8
      <4>2. Len(links) \in Nat
        BY <1>1
      <4>3. i \in 1..Len(links) \/ i = Len(links) + 1
        BY <4>1, <4>2
      <4>4. QED
        BY <1>1, <4>3
    <3>2. CASE i \in DOMAIN links
      BY <1>1, <2>4, <2>7, <3>2
    <3>3. CASE i = Len(links) + 1
      <4>1. links'[i].before = attempt[b].before
        BY <2>1, <2>7, <3>3
      <4>2. QED
        BY <1>1, <2>2, <3>3, <4>1
    <3>4. QED
      BY <3>1, <3>2, <3>3
  <2>9. QED
    BY <2>8 DEF LinksLookBack
<1>5. QED
  BY <1>2, <1>3, <1>4

AccountBounds == AttemptsAreCounted /\ SessionsAreOfThePast /\ LinksLookBack

LEMMA AccountBoundsStep ==
    ASSUME AccountInv, AccountBounds, [AccountsNext]_accountVars PROVE AccountBounds'
<1>1. ASSUME NEW b \in Browsers,
             \/ StartAttempt(b) \/ WriteUser(b) \/ RevokeSessions(b) \/ InvalidateLinks(b)
      PROVE  AccountBounds'
  <2>1. UNCHANGED links
    BY <1>1 DEF StartAttempt, WriteUser, RevokeSessions, InvalidateLinks
  <2>2. QED
    BY <1>1, <2>1, RequestMoves, AttemptsStayCounted, SessionsStayOfThePast, LinksStillLookBack
    DEF AccountBounds
<1>2. ASSUME NEW b \in Browsers, Finishing(b) PROVE AccountBounds'
  <2>1. \/ UNCHANGED links
        \/ \E l : links' = [links EXCEPT ![l].valid = FALSE]
        \/ \E kind \in {"verify", "reset"} : Mailed(b, kind)
    BY <1>2 DEF Finishing, RegisterAccount, Login, GoogleRegister, GoogleLogin, LinkGoogle,
                UnlinkGoogle, SetPassword, ChangePassword, ResetPassword, DeleteAccount,
                VerifyEmail, SendLink, Logout, AttemptFails, KindOf
  <2>2. Ending(b) /\ epoch' \in {epoch, epoch + 1}
    BY <1>2, FinishingEnds
  <2>3. LinksLookBack'
    BY <2>1, LinksStillLookBack DEF AccountBounds
  <2>4. QED
    BY <1>2, <2>2, <2>3, AttemptsStayCounted, SessionsStayOfThePast DEF AccountBounds
<1>3. ASSUME NEW i \in DOMAIN links, LinkExpires(i) PROVE AccountBounds'
  <2>1. UNCHANGED <<holder, epoch, sessions, attempt, attempts>>
        /\ links' = [links EXCEPT ![i].valid = FALSE]
    BY <1>3 DEF LinkExpires
  <2>2. AttemptsAreCounted' /\ SessionsAreOfThePast'
    BY <2>1 DEF AccountBounds, AttemptsAreCounted, UnderWay, SessionsAreOfThePast
  <2>3. QED
    BY <2>1, <2>2, LinksStillLookBack DEF AccountBounds
<1>4. CASE UNCHANGED accountVars
  BY <1>4 DEF accountVars, AccountBounds, AttemptsAreCounted, UnderWay, SessionsAreOfThePast,
              LinksLookBack
<1>5. QED
  BY <1>1, <1>2, <1>3, <1>4 DEF AccountsNext, Finishing

(* AccountsTypeOK, in every state and for any number of requests: one      *)
(* transaction at a time has the user's row; there are no more password    *)
(* epochs than requests; no session is of an epoch still to come, and no   *)
(* link is older than what its request found to invalidate.                *)
THEOREM OneHolderOfTheUserRow == AccountsSpec => []AccountsTypeOK
<1>1. AccountsInit => AccountBounds
  <2> SUFFICES ASSUME AccountsInit PROVE AccountBounds
    OBVIOUS
  <2>1. UnderWay = {} /\ IsFiniteSet({}) /\ Cardinality({}) = 0
    BY FS_EmptySet DEF AccountsInit, UnderWay
  <2>2. \A b \in Browsers : attempt[b].session = 0
    BY DEF AccountsInit, NoAttempt
  <2>3. epoch = 0 /\ attempts = 0 /\ 0 <= MaxAttempts /\ Len(sessions) = 0
        /\ DOMAIN sessions = {} /\ DOMAIN links = {}
    BY AccountsAssumption DEF AccountsInit
  <2>4. QED
    BY <2>1, <2>2, <2>3 DEF AccountBounds, AttemptsAreCounted, SessionsAreOfThePast, LinksLookBack
<1>2. AccountInv /\ AccountBounds => AccountsTypeOK
  <2> SUFFICES ASSUME AccountInv, AccountBounds PROVE AccountsTypeOK
    OBVIOUS
  <2>1. /\ holder \in UserRows /\ epoch \in Nat /\ sessions \in Seq(SessionRows)
        /\ links \in Seq(LinkRows) /\ attempt \in [Browsers -> AttemptRows]
    BY DEF AccountInv, AccountTypes
  <2>2. epoch \in 0..MaxAttempts /\ attempts \in 0..MaxAttempts
    <3>1. Cardinality(UnderWay) \in Nat
      BY FS_CardinalityType DEF AccountBounds, AttemptsAreCounted
    <3>2. QED
      BY <2>1, <3>1, AccountsAssumption DEF AccountBounds, AttemptsAreCounted
  <2>3. ASSUME NEW i \in DOMAIN sessions
        PROVE  sessions[i].active \in BOOLEAN /\ sessions[i].made \in 0..epoch
    <3>1. sessions[i] \in SessionRows
      BY <2>1
    <3>2. sessions[i].made <= epoch
      BY DEF AccountBounds, SessionsAreOfThePast
    <3>3. QED
      BY <2>1, <3>1, <3>2 DEF SessionRows
  <2>4. ASSUME NEW i \in DOMAIN links
        PROVE  links[i].kind \in {"verify", "reset"} /\ links[i].before < i
    <3>1. links[i] \in LinkRows
      BY <2>1
    <3>2. QED
      BY <3>1 DEF AccountBounds, LinksLookBack, LinkRows
  <2>5. \A b \in Browsers : attempt[b].session \in 0..Len(sessions)
    BY <2>1 DEF AccountBounds, SessionsAreOfThePast, AttemptRows
  <2>6. Cardinality({b \in Browsers : attempt[b].at \in Holding}) <= 1
    <3> DEFINE held == {b \in Browsers : attempt[b].at \in Holding}
    <3>1. held = {} \/ \E b \in Browsers : held = {b}
      BY DEF AccountInv, RowIsHeldOnce
    <3> HIDE DEF held
    <3>2. Cardinality({}) = 0 /\ \A b : Cardinality({b}) = 1
      BY FS_EmptySet, FS_Singleton
    <3>3. Cardinality(held) \in {0, 1}
      BY <3>1, <3>2
    <3>4. Cardinality(held) <= 1
      BY <3>3
    <3>5. QED
      BY <3>4 DEF held
  <2>7. QED
    BY <2>1, <2>2, <2>3, <2>4, <2>5, <2>6 DEF AccountsTypeOK, UserRows
<1>3. QED
  BY <1>1, <1>2, InitAccountInv, AccountInvStep, AccountBoundsStep, PTL DEF AccountsSpec
-----------------------------------------------------------------------------
(* Members.  A change, removal or transfer that was not stale was allowed   *)
(* by the state it was committed in, so what the guards look at is what    *)
(* they change; no other call takes an owner.                              *)
MemberRows == [state : {"never", "active", "removed"}, role : Roles, linked : BOOLEAN]
InviteRows == [to : People, role : Roles, status : {"pending", "accepted", "cancelled"},
               expired : BOOLEAN]
Callers == People \cup {Nobody}
CallRows == [op : {"none", "add", "change", "invite", "remove", "transfer", "delete", "close",
                   "accept", "resend", "cancel", "decline"},
             by : Callers, on : Callers, role : Roles, invite : Nat,
             found : Roles \cup {"pending", "accepted", "cancelled"}]

CallTypes ==
    /\ request \in [Calls -> CallRows]
    /\ \A r \in Calls :
          /\ request[r].op \in {"add", "invite", "transfer"} => request[r].on \in People
          /\ request[r].op = "accept" => request[r].by \in People

AcceptsExist ==
    \A r \in Calls :
        request[r].op = "accept" =>
            request[r].invite \in DOMAIN invites /\ invites[request[r].invite].to = request[r].by

MembershipTypes ==
    /\ account \in [People -> {"none", "live", "deleted"}]
    /\ member \in [People -> MemberRows]
    /\ workspace \in {"live", "deleted"}
    /\ invites \in Seq(InviteRows)
    /\ stale \in BOOLEAN /\ doubled \in BOOLEAN
    /\ CallTypes /\ AcceptsExist

MembershipInv == MembershipTypes /\ GuardsKeepAnOwner /\ OneWayIn

LEMMA NobodyAsks == NoRequest \in CallRows /\ NoRequest.op = "none"
BY DEF NoRequest, Anybody, CallRows, Callers, Roles

LEMMA AtMostOne ==
    ASSUME NEW S, NEW x, S \subseteq {x} PROVE Cardinality(S) <= 1
<1>1. CASE S = {}
  BY <1>1, FS_EmptySet
<1>2. CASE S = {x}
  BY <1>2, FS_Singleton
<1>3. QED
  BY <1>1, <1>2

LEMMA InvitesAreFinite ==
    ASSUME MembershipTypes, NEW p PROVE IsFiniteSet(ValidFor(p))
<1>1. DOMAIN invites = 1..Len(invites) /\ Len(invites) \in Nat
  BY DEF MembershipTypes
<1>2. IsFiniteSet(DOMAIN invites)
  BY <1>1, FS_Interval
<1>3. QED
  BY <1>2, FS_Subset DEF ValidFor

LEMMA InitMembershipInv == MembershipsInit => MembershipInv
<1> SUFFICES ASSUME MembershipsInit PROVE MembershipInv
  OBVIOUS
<1>1. MembershipTypes
  <2>1. member \in [People -> MemberRows]
    BY DEF MembershipsInit, MemberRows, NoMember, Roles
  <2>2. request \in [Calls -> CallRows]
    BY NobodyAsks DEF MembershipsInit
  <2>3. \A r \in Calls : request[r].op = "none"
    BY NobodyAsks DEF MembershipsInit
  <2>4. account \in [People -> {"none", "live", "deleted"}] /\ workspace \in {"live", "deleted"}
    BY DEF MembershipsInit
  <2>5. invites \in Seq(InviteRows) /\ stale \in BOOLEAN /\ doubled \in BOOLEAN
    <3>1. invites = <<>> /\ stale = FALSE /\ doubled = FALSE
      BY DEF MembershipsInit
    <3>2. stale \in BOOLEAN /\ doubled \in BOOLEAN
      BY <3>1, Zenon
    <3>3. invites \in Seq(InviteRows)
      BY <3>1
    <3>4. QED
      BY <3>2, <3>3
  <2>6. QED
    BY <2>1, <2>2, <2>3, <2>4, <2>5 DEF MembershipTypes, CallTypes, AcceptsExist
<1>2. GuardsKeepAnOwner
  <2>1. Founder \in Owners
    BY MembershipsAssumption DEF MembershipsInit, Owners, Active
  <2>2. QED
    BY <2>1 DEF GuardsKeepAnOwner, NeverOwnerless
<1>3. OneWayIn
  <2>1. DOMAIN invites = {}
    BY DEF MembershipsInit
  <2>2. \A p \in People : Cardinality(ValidFor(p)) <= 1
    BY <2>1, AtMostOne DEF ValidFor
  <2>3. QED
    BY <2>1, <2>2 DEF OneWayIn
<1>4. QED
  BY <1>1, <1>2, <1>3 DEF MembershipInv
(* A call that was not stale was allowed when it was committed.            *)
LEMMA AllowedMeans ==
    ASSUME NEW q, Allowed(q)
    PROVE  /\ q.op = "add" => AddAllowed(q)
           /\ q.op = "change" => ChangeAllowed(q)
           /\ q.op = "remove" => RemoveAllowed(q)
           /\ q.op = "transfer" => TransferAllowed(q)
           /\ q.op = "invite" => InviteAllowed(q)
           /\ q.op = "accept" => AcceptAllowed(q)
           /\ q.op = "close" => CloseAccountAllowed(q)
BY DEF Allowed

LEMMA FinishMeans ==
    ASSUME MembershipInv, NEW r \in Calls, NEW op, Finish(r, op)
    PROVE  /\ CallTypes' /\ stale' \in BOOLEAN
           /\ (\A i \in DOMAIN invites : i \in DOMAIN invites' /\ invites'[i].to = invites[i].to)
                  => AcceptsExist'
           /\ request[r] \in CallRows /\ request[r].op = op
           /\ op \in {"add", "invite", "transfer"} => request[r].on \in People
           /\ op = "accept" => request[r].by \in People
           /\ op = "accept" => /\ request[r].invite \in DOMAIN invites
                               /\ invites[request[r].invite].to = request[r].by
           /\ ~stale' => ~stale
           /\ ~stale' /\ op \in {"change", "remove", "transfer"} =>
                 Allowed(request[r]) /\ ~FoundOtherwise(request[r])
<1>1. CallTypes /\ AcceptsExist
  BY DEF MembershipInv, MembershipTypes
<1>2. request' = [request EXCEPT ![r] = NoRequest] /\ request[r].op = op
      /\ stale' = (stale \/ Outdated(request[r]))
  BY DEF Finish
<1>3. CallTypes'
  BY <1>1, <1>2, NobodyAsks DEF CallTypes
<1>4. PICK s \in BOOLEAN : s = (stale \/ Outdated(request[r]))
  OBVIOUS
<1>5. stale' \in BOOLEAN /\ (~stale' => ~stale /\ ~Outdated(request[r]))
  BY <1>2, <1>4, Zenon
<1>5a. ~Outdated(request[r]) /\ op \in {"change", "remove", "transfer"} =>
           Allowed(request[r]) /\ ~FoundOtherwise(request[r])
  BY <1>2, Zenon DEF Outdated
<1>6. (\A i \in DOMAIN invites : i \in DOMAIN invites' /\ invites'[i].to = invites[i].to)
          => AcceptsExist'
  BY <1>1, <1>2, NobodyAsks DEF CallTypes, AcceptsExist
<1>7. QED
  BY <1>1, <1>2, <1>3, <1>5, <1>5a, <1>6 DEF CallTypes, AcceptsExist

LEMMA OwnersStay ==
    ASSUME MembershipInv,
           ~stale' /\ workspace' = "live" =>
               ~stale /\ workspace = "live" /\ (Owners # {} => Owners' # {})
    PROVE  GuardsKeepAnOwner'
BY DEF MembershipInv, GuardsKeepAnOwner, NeverOwnerless

(* No invitation becomes valid, and who has accepted one is a member.      *)
LEMMA NoNewWayIn ==
    ASSUME MembershipInv, DOMAIN invites' = DOMAIN invites,
           \A p \in People : member[p].state # "never" => member'[p].state # "never",
           \A i \in DOMAIN invites :
               /\ invites'[i].to = invites[i].to
               /\ invites'[i].status = "accepted" =>
                     (invites[i].status = "accepted" \/ member'[invites[i].to].state # "never"),
           ~doubled' => ~doubled /\ (\A i \in DOMAIN invites : Valid(i)' => Valid(i))
    PROVE  OneWayIn'
<1> SUFFICES ASSUME NEW p \in People
             PROVE  /\ ~doubled' => Cardinality(ValidFor(p)') <= 1
                    /\ \A i \in DOMAIN invites' :
                          invites'[i].to = p /\ invites'[i].status = "accepted"
                              => member'[p].state # "never"
  BY DEF OneWayIn
<1>1. /\ ~doubled => Cardinality(ValidFor(p)) <= 1
      /\ \A i \in DOMAIN invites :
            invites[i].to = p /\ invites[i].status = "accepted" => member[p].state # "never"
  BY DEF MembershipInv, OneWayIn
<1>2. ASSUME ~doubled' PROVE Cardinality(ValidFor(p)') <= 1
  <2>1. ValidFor(p)' \subseteq ValidFor(p)
    BY <1>2 DEF ValidFor
  <2>2. IsFiniteSet(ValidFor(p))
    BY InvitesAreFinite DEF MembershipInv
  <2>3. /\ Cardinality(ValidFor(p)') <= Cardinality(ValidFor(p))
        /\ Cardinality(ValidFor(p)) \in Nat /\ Cardinality(ValidFor(p)') \in Nat
    BY <2>1, <2>2, FS_Subset, FS_CardinalityType
  <2>4. QED
    BY <1>1, <1>2, <2>3
<1>3. QED
  BY <1>1, <1>2

(* The parts of the invariant put together.                                *)
LEMMA MembershipInvHolds ==
    ASSUME account' \in [People -> {"none", "live", "deleted"}], member' \in [People -> MemberRows],
           workspace' \in {"live", "deleted"}, invites' \in Seq(InviteRows),
           stale' \in BOOLEAN, doubled' \in BOOLEAN, CallTypes', AcceptsExist',
           GuardsKeepAnOwner', OneWayIn'
    PROVE  MembershipInv'
BY DEF MembershipInv, MembershipTypes

LEMMA InvitesAreWritten ==
    ASSUME MembershipInv, invites' = [i \in DOMAIN invites |-> invites'[i]],
           \A i \in DOMAIN invites : invites'[i] \in InviteRows
    PROVE  invites' \in Seq(InviteRows) /\ DOMAIN invites' = DOMAIN invites
<1>1. DOMAIN invites = 1..Len(invites) /\ Len(invites) \in Nat
  BY DEF MembershipInv, MembershipTypes
<1>2. \A i \in 1..Len(invites) : invites'[i] \in InviteRows
  BY <1>1
<1>3. invites' = [i \in 1..Len(invites) |-> invites'[i]]
  BY <1>1
<1>4. QED
  BY <1>1, <1>2, <1>3, RowsAreASequence

LEMMA TypesNow ==
    ASSUME MembershipInv
    PROVE  /\ account \in [People -> {"none", "live", "deleted"}] /\ member \in [People -> MemberRows]
           /\ workspace \in {"live", "deleted"} /\ invites \in Seq(InviteRows)
           /\ stale \in BOOLEAN /\ doubled \in BOOLEAN /\ CallTypes /\ AcceptsExist
           /\ \A i \in DOMAIN invites : invites[i] \in InviteRows
BY DEF MembershipInv, MembershipTypes

(* A call that writes one membership, none of which comes to be "never".   *)
LEMMA MemberIsWritten ==
    ASSUME MembershipInv, NEW r \in Calls, NEW op, Finish(r, op), member' \in [People -> MemberRows],
           \A q \in People : member[q].state # "never" => member'[q].state # "never",
           UNCHANGED <<account, workspace, invites, doubled>>,
           ~stale' /\ workspace = "live" /\ Owners # {} => Owners' # {}
    PROVE  MembershipInv'
<1>1. /\ CallTypes' /\ stale' \in BOOLEAN /\ AcceptsExist' /\ (~stale' => ~stale)
  BY FinishMeans
<1>2. GuardsKeepAnOwner'
  BY <1>1, OwnersStay
<1>3. OneWayIn'
  BY <1>1, NoNewWayIn DEF Valid
<1>4. QED
  BY <1>1, <1>2, <1>3, TypesNow, MembershipInvHolds

LEMMA MembersAreRows ==
    ASSUME member' = [q \in People |-> member'[q]], \A q \in People : member'[q] \in MemberRows
    PROVE  member' \in [People -> MemberRows]
OBVIOUS

LEMMA AddMemberInv == ASSUME MembershipInv, NEW r \in Calls, AddMember(r) PROVE MembershipInv'
<1> DEFINE p == request[r].on
           f == [state |-> "active", role |-> request[r].role, linked |-> account[p] = "live"]
<1>1. Finish(r, "add") /\ UNCHANGED <<account, workspace, invites, doubled>>
      /\ member[p].state = "never" /\ member' = [member EXCEPT ![p] = f]
  BY DEF AddMember, InsertMember
<1>2. p \in People /\ request[r] \in CallRows
  BY <1>1, FinishMeans
<1>3. f \in MemberRows /\ f.state # "never"
  BY <1>2 DEF CallRows, MemberRows
<1>4. Owners \subseteq Owners'
  BY <1>1, <1>2, TypesNow DEF Owners, Active
<1>5. member' \in [People -> MemberRows]
      /\ \A q \in People : member[q].state # "never" => member'[q].state # "never"
  BY <1>1, <1>3, TypesNow
<1> HIDE DEF p, f
<1>6. QED
  BY <1>1, <1>4, <1>5, MemberIsWritten

(* Another owner is left: one is there besides the person, or there would  *)
(* not be two.                                                             *)
LEMMA AnotherOwner ==
    ASSUME NEW p, p \in Owners => Cardinality(Owners) > 1, Owners # {}
    PROVE  \E o \in Owners : o # p
<1> SUFFICES ASSUME Owners \subseteq {p} PROVE FALSE
  OBVIOUS
<1>1. Owners = {p}
  OBVIOUS
<1>2. Cardinality({p}) = 1
  BY FS_Singleton
<1>3. Cardinality(Owners) = 1 /\ p \in Owners
  BY <1>1, <1>2
<1>4. QED
  BY <1>3

LEMMA ChangeRoleInv == ASSUME MembershipInv, NEW r \in Calls, ChangeRole(r) PROVE MembershipInv'
<1> DEFINE p == request[r].on
<1>1. Finish(r, "change") /\ UNCHANGED <<account, workspace, invites, doubled>>
      /\ member' = IF request[r].found = request[r].role THEN member
                   ELSE [member EXCEPT ![p].role = request[r].role]
  BY DEF ChangeRole
<1>2. request[r] \in CallRows /\ request[r].op = "change"
      /\ (~stale' => Allowed(request[r]) /\ ~FoundOtherwise(request[r]))
  BY <1>1, FinishMeans
<1>3. ~stale' /\ Owners # {} => Owners' # {}
  <2> SUFFICES ASSUME ~stale', Owners # {} PROVE Owners' # {}
    OBVIOUS
  <2>1. p \in Owners /\ request[r].role # "owner" => Cardinality(Owners) > 1
    BY <1>2, AllowedMeans DEF ChangeAllowed
  <2>2. CASE request[r].role = "owner"
    BY <1>1, <2>2, TypesNow DEF Owners, Active, MemberRows
  <2>3. CASE request[r].role # "owner"
    <3>1. PICK o \in Owners : o # p
      BY <2>1, <2>3, AnotherOwner
    <3>2. o \in Owners'
      BY <1>1, <3>1, TypesNow DEF Owners, Active
    <3>3. QED
      BY <3>2
  <2>4. QED
    BY <2>2, <2>3
<1>4. \A q \in People : /\ member'[q] \in MemberRows
                        /\ member[q].state # "never" => member'[q].state # "never"
  <2> SUFFICES ASSUME NEW q \in People
               PROVE  /\ member'[q] \in MemberRows
                      /\ member[q].state # "never" => member'[q].state # "never"
    OBVIOUS
  <2>1. member'[q] \in {member[q], [member[q] EXCEPT !.role = request[r].role]}
    BY <1>1, TypesNow
  <2>2. member[q] \in MemberRows /\ request[r].role \in Roles
    BY <1>2, TypesNow DEF CallRows
  <2>3. QED
    BY <2>1, <2>2 DEF MemberRows
<1>5. member' \in [People -> MemberRows]
  <2>1. member' = [q \in People |-> member'[q]]
    BY <1>1, TypesNow
  <2>2. \A q \in People : member'[q] \in MemberRows
    BY <1>4
  <2>3. QED
    BY <2>1, <2>2, MembersAreRows
<1>6. QED
  BY <1>1, <1>3, <1>4, <1>5, MemberIsWritten
LEMMA RemoveMemberInv == ASSUME MembershipInv, NEW r \in Calls, RemoveMember(r) PROVE MembershipInv'
<1> DEFINE p == request[r].on
<1>1. Finish(r, "remove") /\ UNCHANGED <<account, workspace, invites, doubled>>
      /\ member' = [member EXCEPT ![p].state = "removed"]
  BY DEF RemoveMember
<1>2. request[r].op = "remove" /\ (~stale' => Allowed(request[r]))
  BY <1>1, FinishMeans
<1>3. ~stale' /\ Owners # {} => Owners' # {}
  <2> SUFFICES ASSUME ~stale', Owners # {} PROVE Owners' # {}
    OBVIOUS
  <2>1. p \in Owners => Cardinality(Owners) > 1
    BY <1>2, AllowedMeans DEF RemoveAllowed
  <2>2. PICK o \in Owners : o # p
    BY <2>1, AnotherOwner
  <2>3. o \in Owners'
    BY <1>1, <2>2, TypesNow DEF Owners, Active
  <2>4. QED
    BY <2>3
<1>4. \A q \in People : /\ member'[q] \in MemberRows
                        /\ member[q].state # "never" => member'[q].state # "never"
  <2> SUFFICES ASSUME NEW q \in People
               PROVE  /\ member'[q] \in MemberRows
                      /\ member[q].state # "never" => member'[q].state # "never"
    OBVIOUS
  <2>1. member'[q] \in {member[q], [member[q] EXCEPT !.state = "removed"]} /\ member[q] \in MemberRows
    BY <1>1, TypesNow
  <2>2. QED
    BY <2>1 DEF MemberRows
<1>5. member' \in [People -> MemberRows]
  <2>1. member' = [q \in People |-> member'[q]]
    BY <1>1, TypesNow
  <2>2. \A q \in People : member'[q] \in MemberRows
    BY <1>4
  <2>3. QED
    BY <2>1, <2>2, MembersAreRows
<1>6. QED
  BY <1>1, <1>3, <1>4, <1>5, MemberIsWritten

LEMMA TransferOwnershipInv ==
    ASSUME MembershipInv, NEW r \in Calls, TransferOwnership(r) PROVE MembershipInv'
<1> DEFINE on == request[r].on
           by == request[r].by
<1>1. Finish(r, "transfer") /\ UNCHANGED <<account, workspace, invites, doubled>>
      /\ member' = [member EXCEPT ![on].role = IF request[r].found = "owner" THEN @ ELSE "owner",
                                  ![by].role = "admin"]
  BY DEF TransferOwnership
<1>2. request[r].op = "transfer" /\ on \in People
      /\ (~stale' => Allowed(request[r]) /\ ~FoundOtherwise(request[r]))
  BY <1>1, FinishMeans
<1>3. \A q \in People :
          member'[q] = [member[q] EXCEPT !.role =
                            IF q = by THEN "admin"
                            ELSE IF q = on /\ request[r].found # "owner" THEN "owner" ELSE @]
  <2> SUFFICES ASSUME NEW q \in People
               PROVE  member'[q] = [member[q] EXCEPT !.role =
                            IF q = by THEN "admin"
                            ELSE IF q = on /\ request[r].found # "owner" THEN "owner" ELSE @]
    OBVIOUS
  <2>1. member[q] \in MemberRows
    BY TypesNow
  <2>2. QED
    BY <1>1, <2>1, TypesNow DEF MemberRows
<1>4. ~stale' /\ Owners # {} => Owners' # {}
  <2> SUFFICES ASSUME ~stale' PROVE on \in Owners'
    OBVIOUS
  <2>1. on # by /\ Active(on) /\ request[r].found = member[on].role
    BY <1>2, AllowedMeans DEF TransferAllowed, FoundOtherwise
  <2>2. member[on] \in MemberRows
    BY <1>2, TypesNow
  <2>3. member'[on].role = "owner" /\ member'[on].state = "active"
    BY <1>2, <1>3, <2>1, <2>2 DEF MemberRows, Active
  <2>4. QED
    BY <1>2, <2>3 DEF Owners, Active
<1>5. \A q \in People : /\ member'[q] \in MemberRows
                        /\ member[q].state # "never" => member'[q].state # "never"
  <2> SUFFICES ASSUME NEW q \in People
               PROVE  /\ member'[q] \in MemberRows
                      /\ member[q].state # "never" => member'[q].state # "never"
    OBVIOUS
  <2>1. member[q] \in MemberRows
    BY TypesNow
  <2>2. QED
    BY <1>3, <2>1, ZenonT(60) DEF MemberRows, Roles
<1>6. member' \in [People -> MemberRows]
  <2>1. member' = [q \in People |-> member'[q]]
    BY <1>1, TypesNow
  <2>2. \A q \in People : member'[q] \in MemberRows
    BY <1>5
  <2>3. QED
    BY <2>1, <2>2, MembersAreRows
<1>7. QED
  BY <1>1, <1>4, <1>5, <1>6, MemberIsWritten

LEMMA DeleteWorkspaceInv ==
    ASSUME MembershipInv, NEW r \in Calls, DeleteWorkspace(r) PROVE MembershipInv'
<1>1. Finish(r, "delete") /\ UNCHANGED <<account, member, invites, doubled>>
      /\ workspace' = "deleted"
  BY DEF DeleteWorkspace
<1>2. /\ CallTypes' /\ stale' \in BOOLEAN /\ AcceptsExist' /\ (~stale' => ~stale)
  BY <1>1, FinishMeans
<1>3. GuardsKeepAnOwner' /\ OneWayIn'
  BY <1>1, <1>2, OwnersStay, NoNewWayIn DEF Valid
<1>4. QED
  BY <1>1, <1>2, <1>3, TypesNow, MembershipInvHolds

(* Nobody has a link that works, or the call was stale: one is made.       *)
LEMMA CreateInvitationInv ==
    ASSUME MembershipInv, NEW r \in Calls, CreateInvitation(r) PROVE MembershipInv'
<1> DEFINE on == request[r].on
<1>1. Finish(r, "invite") /\ UNCHANGED <<account, member, workspace>>
      /\ doubled' = (doubled \/ ~Allowed(request[r]))
  BY DEF CreateInvitation
<1>2. request[r].op = "invite" /\ on \in People /\ request[r] \in CallRows
      /\ CallTypes' /\ stale' \in BOOLEAN /\ (~stale' => ~stale)
  BY <1>1, FinishMeans
<1>2a. doubled' \in BOOLEAN /\ (~doubled' => ~doubled /\ Allowed(request[r]))
  <2>1. PICK v \in BOOLEAN : v = (doubled \/ ~Allowed(request[r]))
    OBVIOUS
  <2>2. QED
    BY <1>1, <2>1, Zenon
<1>3. PICK i \in InviteRows :
          i.to = on /\ i.status = "pending" /\ invites' = Append(invites, i)
  <2>1. [to |-> on, role |-> request[r].role, status |-> "pending", expired |-> FALSE] \in InviteRows
    BY <1>2 DEF InviteRows, CallRows
  <2>2. QED
    BY <2>1 DEF CreateInvitation
<1>4. invites' \in Seq(InviteRows) /\ Len(invites') = Len(invites) + 1
      /\ \A j \in 1..Len(invites) : invites'[j] = invites[j]
      /\ invites'[Len(invites) + 1] = i /\ Len(invites) \in Nat
  BY <1>3, TypesNow, AppendProperties
<1>5. DOMAIN invites' = 1..(Len(invites) + 1) /\ DOMAIN invites = 1..Len(invites)
  BY <1>4, TypesNow
<1>6. AcceptsExist'
  BY <1>1, <1>4, <1>5, FinishMeans
<1>7. GuardsKeepAnOwner'
  <2>1. Owners' = Owners
    BY <1>1 DEF Owners, Active
  <2>2. QED
    BY <1>1, <1>2, <2>1, OwnersStay
<1>8. OneWayIn'
  <2> SUFFICES ASSUME NEW p \in People
               PROVE  /\ ~doubled' => Cardinality(ValidFor(p)') <= 1
                      /\ \A j \in DOMAIN invites' :
                            invites'[j].to = p /\ invites'[j].status = "accepted"
                                => member'[p].state # "never"
    BY DEF OneWayIn
  <2>1. /\ ~doubled => Cardinality(ValidFor(p)) <= 1
        /\ \A j \in DOMAIN invites :
              invites[j].to = p /\ invites[j].status = "accepted" => member[p].state # "never"
    BY DEF MembershipInv, OneWayIn
  <2>2. \A j \in DOMAIN invites' :
            invites'[j].to = p /\ invites'[j].status = "accepted" => member'[p].state # "never"
    BY <1>1, <1>3, <1>4, <1>5, <2>1
  <2>3. CASE p = on
    <3>1. ~doubled' => ValidFor(on) = {}
      BY <1>2, <1>2a, AllowedMeans DEF InviteAllowed
    <3>2. ~doubled' => ValidFor(p)' \subseteq {Len(invites) + 1}
      BY <1>4, <1>5, <2>3, <3>1 DEF ValidFor, Valid
    <3>3. QED
      BY <2>2, <3>2, AtMostOne
  <2>4. CASE p # on
    <3>1. ValidFor(p)' = ValidFor(p)
      BY <1>3, <1>4, <1>5, <2>4 DEF ValidFor, Valid
    <3>2. QED
      BY <1>2a, <2>1, <2>2, <3>1
  <2>5. QED
    BY <2>3, <2>4
<1>9. QED
  BY <1>1, <1>2, <1>2a, <1>4, <1>6, <1>7, <1>8, TypesNow, MembershipInvHolds
(* Calls that change one invitation's status: none becomes valid, and an   *)
(* accepted one has made its person a member.                              *)
LEMMA StatusIsWritten ==
    ASSUME MembershipInv, NEW k, NEW st \in {"accepted", "cancelled"},
           invites' = [invites EXCEPT ![k].status = st]
    PROVE  /\ invites' \in Seq(InviteRows) /\ DOMAIN invites' = DOMAIN invites
           /\ \A i \in DOMAIN invites :
                 /\ invites'[i].to = invites[i].to /\ (Valid(i)' => Valid(i))
                 /\ invites'[i].status = "accepted" =>
                       (invites[i].status = "accepted" \/ (i = k /\ st = "accepted"))
<1>1. \A i \in DOMAIN invites :
          /\ invites'[i] \in InviteRows
          /\ invites'[i].to = invites[i].to
          /\ Valid(i)' => Valid(i)
          /\ invites'[i].status = "accepted" =>
                (invites[i].status = "accepted" \/ (i = k /\ st = "accepted"))
  <2> SUFFICES ASSUME NEW i \in DOMAIN invites
               PROVE  /\ invites'[i] \in InviteRows
                      /\ invites'[i].to = invites[i].to
                      /\ Valid(i)' => Valid(i)
                      /\ invites'[i].status = "accepted" =>
                            (invites[i].status = "accepted" \/ (i = k /\ st = "accepted"))
    OBVIOUS
  <2>1. invites[i] \in InviteRows
    BY TypesNow
  <2>2. invites'[i] = IF i = k THEN [invites[i] EXCEPT !.status = st] ELSE invites[i]
    OBVIOUS
  <2>3. QED
    BY <2>1, <2>2 DEF InviteRows, Valid
<1>2. invites' = [i \in DOMAIN invites |-> invites'[i]]
  OBVIOUS
<1>3. invites' \in Seq(InviteRows) /\ DOMAIN invites' = DOMAIN invites
  BY <1>1, <1>2, InvitesAreWritten
<1>4. QED
  BY <1>1, <1>3

LEMMA AcceptInvitationInv ==
    ASSUME MembershipInv, NEW r \in Calls, AcceptInvitation(r) PROVE MembershipInv'
<1> DEFINE p == request[r].by
           k == request[r].invite
           f == [state |-> "active", role |-> invites[k].role, linked |-> account[p] = "live"]
<1>1. Finish(r, "accept") /\ UNCHANGED <<account, workspace, doubled>>
      /\ member[p].state = "never" /\ member' = [member EXCEPT ![p] = f]
      /\ invites' = [invites EXCEPT ![k].status = "accepted"]
  BY DEF AcceptInvitation, InsertMember, Settle
<1>2. p \in People /\ CallTypes' /\ stale' \in BOOLEAN /\ (~stale' => ~stale)
      /\ k \in DOMAIN invites /\ invites[k].to = p
  BY <1>1, FinishMeans
<1>3. /\ invites' \in Seq(InviteRows) /\ DOMAIN invites' = DOMAIN invites
      /\ \A i \in DOMAIN invites :
            /\ invites'[i].to = invites[i].to /\ (Valid(i)' => Valid(i))
            /\ invites'[i].status = "accepted" => (invites[i].status = "accepted" \/ i = k)
  BY <1>1, StatusIsWritten
<1>4. AcceptsExist'
  BY <1>1, <1>3, FinishMeans
<1>5. f \in MemberRows /\ f.state = "active"
  <2>1. invites[k].role \in Roles
    BY <1>2, TypesNow DEF InviteRows
  <2>2. QED
    BY <2>1 DEF MemberRows
<1>6. member' \in [People -> MemberRows] /\ member'[p].state # "never"
      /\ (\A q \in People : member[q].state # "never" => member'[q].state # "never")
  BY <1>1, <1>2, <1>5, TypesNow
<1>7. GuardsKeepAnOwner'
  <2>1. Owners \subseteq Owners'
    BY <1>1, <1>2, TypesNow DEF Owners, Active
  <2>2. QED
    BY <1>1, <1>2, <2>1, OwnersStay
<1>8. OneWayIn'
  <2>1. \A i \in DOMAIN invites :
            invites'[i].status = "accepted" =>
                (invites[i].status = "accepted" \/ member'[invites[i].to].state # "never")
    BY <1>2, <1>3, <1>6
  <2> HIDE DEF p, k, f
  <2>2. QED
    BY <1>1, <1>3, <1>6, <2>1, NoNewWayIn
<1>9. QED
  BY <1>1, <1>2, <1>3, <1>4, <1>6, <1>7, <1>8, TypesNow, MembershipInvHolds

LEMMA CancelInvitationInv ==
    ASSUME MembershipInv, NEW r \in Calls, CancelInvitation(r) PROVE MembershipInv'
<1>1. PICK op \in {"decline", "cancel"} : Finish(r, op)
  BY DEF CancelInvitation
<1>2. UNCHANGED <<account, member, workspace, doubled>>
      /\ \/ UNCHANGED invites
         \/ invites' = [invites EXCEPT ![request[r].invite].status = "cancelled"]
  BY DEF CancelInvitation, Settle
<1>3. /\ invites' \in Seq(InviteRows) /\ DOMAIN invites' = DOMAIN invites
      /\ \A i \in DOMAIN invites :
            /\ invites'[i].to = invites[i].to /\ (Valid(i)' => Valid(i))
            /\ invites'[i].status = "accepted" => invites[i].status = "accepted"
  <2>1. CASE UNCHANGED invites
    BY <2>1, TypesNow DEF Valid
  <2>2. CASE invites' = [invites EXCEPT ![request[r].invite].status = "cancelled"]
    BY <2>2, StatusIsWritten
  <2>3. QED
    BY <1>2, <2>1, <2>2
<1>4. CallTypes' /\ stale' \in BOOLEAN /\ AcceptsExist' /\ (~stale' => ~stale)
  BY <1>1, <1>3, FinishMeans
<1>5. GuardsKeepAnOwner'
  <2>1. Owners' = Owners
    BY <1>2 DEF Owners, Active
  <2>2. QED
    BY <1>2, <1>4, <2>1, OwnersStay
<1>6. OneWayIn'
  BY <1>2, <1>3, <1>4, NoNewWayIn
<1>7. QED
  BY <1>2, <1>3, <1>4, <1>5, <1>6, TypesNow, MembershipInvHolds

(* One that was valid stays it; `doubled` says of any other.               *)
LEMMA ResendInvitationInv ==
    ASSUME MembershipInv, NEW r \in Calls, ResendInvitation(r) PROVE MembershipInv'
<1> DEFINE k == request[r].invite
<1>1. Finish(r, "resend") /\ UNCHANGED <<account, member, workspace>>
      /\ invites' = [invites EXCEPT ![k].expired = FALSE,
                         ![k].status = IF request[r].found = "pending" THEN @ ELSE "pending"]
      /\ doubled' = (doubled \/ ~Valid(k))
  BY DEF ResendInvitation
<1>2. doubled' \in BOOLEAN /\ (~doubled' => ~doubled /\ Valid(k))
  <2>1. PICK v \in BOOLEAN : v = (doubled \/ ~Valid(k))
    OBVIOUS
  <2>2. QED
    BY <1>1, <2>1, Zenon
<1>3. \A i \in DOMAIN invites :
          /\ invites'[i] \in InviteRows
          /\ invites'[i].to = invites[i].to
          /\ Valid(i)' => (Valid(i) \/ i = k)
          /\ invites'[i].status = "accepted" => invites[i].status = "accepted"
  <2> SUFFICES ASSUME NEW i \in DOMAIN invites
               PROVE  /\ invites'[i] \in InviteRows
                      /\ invites'[i].to = invites[i].to
                      /\ Valid(i)' => (Valid(i) \/ i = k)
                      /\ invites'[i].status = "accepted" => invites[i].status = "accepted"
    OBVIOUS
  <2>1. invites[i] \in InviteRows
    BY TypesNow
  <2>2. PICK st \in {invites[i].status, "pending"} :
            invites'[i] = IF i = k THEN [invites[i] EXCEPT !.expired = FALSE, !.status = st]
                          ELSE invites[i]
    <3>1. CASE request[r].found = "pending"
      BY <1>1, <2>1, <3>1 DEF InviteRows
    <3>2. CASE request[r].found # "pending"
      BY <1>1, <2>1, <3>2 DEF InviteRows
    <3>3. QED
      BY <3>1, <3>2
  <2>3. QED
    BY <2>1, <2>2 DEF InviteRows, Valid
<1>4. invites' = [i \in DOMAIN invites |-> invites'[i]]
  BY <1>1
<1>5. invites' \in Seq(InviteRows) /\ DOMAIN invites' = DOMAIN invites
  BY <1>3, <1>4, InvitesAreWritten
<1>6. CallTypes' /\ stale' \in BOOLEAN /\ AcceptsExist' /\ (~stale' => ~stale)
  BY <1>1, <1>3, <1>5, FinishMeans
<1>7. GuardsKeepAnOwner'
  <2>1. Owners' = Owners
    BY <1>1 DEF Owners, Active
  <2>2. QED
    BY <1>1, <1>6, <2>1, OwnersStay
<1> HIDE DEF k
<1>8. OneWayIn'
  <2>1. ~doubled' => \A i \in DOMAIN invites : Valid(i)' => Valid(i)
    BY <1>2, <1>3
  <2>2. QED
    BY <1>1, <1>2, <1>3, <1>5, <2>1, NoNewWayIn
<1>9. QED
  BY <1>1, <1>2, <1>5, <1>6, <1>7, <1>8, TypesNow, MembershipInvHolds

LEMMA CloseAccountInv ==
    ASSUME MembershipInv, NEW r \in Calls, CloseAccount(r) PROVE MembershipInv'
<1> DEFINE p == request[r].by
<1>1. Finish(r, "close") /\ UNCHANGED <<member, doubled>>
      /\ account' = [account EXCEPT ![p] = "deleted"]
  BY DEF CloseAccount
<1>2. /\ workspace' \in {"live", "deleted"} /\ (workspace' = "live" => workspace = "live")
      /\ \/ UNCHANGED invites
         \/ invites' = [i \in DOMAIN invites |->
                  IF invites[i].status = "pending" THEN [invites[i] EXCEPT !.status = "cancelled"]
                  ELSE invites[i]]
  BY TypesNow DEF CloseAccount
<1>3. \A i \in DOMAIN invites :
          /\ invites'[i] \in InviteRows
          /\ invites'[i].to = invites[i].to
          /\ Valid(i)' => Valid(i)
          /\ invites'[i].status = "accepted" => invites[i].status = "accepted"
  <2> SUFFICES ASSUME NEW i \in DOMAIN invites
               PROVE  /\ invites'[i] \in InviteRows
                      /\ invites'[i].to = invites[i].to
                      /\ Valid(i)' => Valid(i)
                      /\ invites'[i].status = "accepted" => invites[i].status = "accepted"
    OBVIOUS
  <2>1. invites[i] \in InviteRows
    BY TypesNow
  <2>2. invites'[i] \in {invites[i], [invites[i] EXCEPT !.status = "cancelled"]}
    BY <1>2
  <2>3. QED
    BY <2>1, <2>2 DEF InviteRows, Valid
<1>4. invites' = [i \in DOMAIN invites |-> invites'[i]]
  BY <1>2, TypesNow
<1>5. invites' \in Seq(InviteRows) /\ DOMAIN invites' = DOMAIN invites
  BY <1>3, <1>4, InvitesAreWritten
<1>6. CallTypes' /\ stale' \in BOOLEAN /\ AcceptsExist' /\ (~stale' => ~stale)
  BY <1>1, <1>3, <1>5, FinishMeans
<1>7. GuardsKeepAnOwner'
  <2>1. Owners' = Owners
    BY <1>1 DEF Owners, Active
  <2>2. QED
    BY <1>2, <1>6, <2>1, OwnersStay
<1>8. OneWayIn'
  BY <1>1, <1>3, <1>5, NoNewWayIn
<1>9. account' \in [People -> {"none", "live", "deleted"}]
  BY <1>1, TypesNow
<1>10. QED
  BY <1>1, <1>2, <1>5, <1>6, <1>7, <1>8, <1>9, TypesNow, MembershipInvHolds
(* The rows stay: a call begins or fails, a person signs in, a week passes.*)
LEMMA CallsOnly ==
    ASSUME MembershipInv, CallTypes', AcceptsExist',
           UNCHANGED <<account, member, workspace, invites, stale, doubled>>
    PROVE  MembershipInv'
<1>1. Owners' = Owners
  BY DEF Owners, Active
<1>2. GuardsKeepAnOwner' /\ OneWayIn'
  BY <1>1, OwnersStay, NoNewWayIn DEF Valid
<1>3. QED
  BY <1>2, TypesNow, MembershipInvHolds

LEMMA StartRequestInv == ASSUME MembershipInv, NEW r \in Calls, StartRequest(r) PROVE MembershipInv'
<1> DEFINE Fits(q) == /\ q \in CallRows
                      /\ q.op \in {"add", "invite", "transfer"} => q.on \in People
                      /\ q.op = "accept" => q.by \in People
                      /\ q.op \in {"accept", "resend", "cancel"} => q.invite \in DOMAIN invites
<1>1. \A i \in DOMAIN invites : i \in Nat
  BY TypesNow
<1>2. ASSUME NEW op \in {"add", "change", "invite"}, NEW by \in People, NEW on \in People,
             NEW role \in Roles
      PROVE  Fits([Anybody(op) EXCEPT !.by = by, !.on = on, !.role = role])
  BY DEF Anybody, CallRows, Callers, Roles
<1>3. ASSUME NEW op \in {"remove", "transfer"}, NEW by \in People, NEW on \in People
      PROVE  Fits([Anybody(op) EXCEPT !.by = by, !.on = on])
  BY DEF Anybody, CallRows, Callers, Roles
<1>4. ASSUME NEW op \in {"delete", "close"}, NEW by \in People
      PROVE  Fits([Anybody(op) EXCEPT !.by = by])
  BY DEF Anybody, CallRows, Callers, Roles
<1>5. ASSUME NEW op \in {"accept", "resend", "cancel"}, NEW by \in People, NEW i \in DOMAIN invites
      PROVE  Fits([Anybody(op) EXCEPT !.by = by, !.invite = i])
  BY <1>1 DEF Anybody, CallRows, Callers, Roles
<1>6. ASSUME NEW i \in DOMAIN invites PROVE Fits([Anybody("decline") EXCEPT !.invite = i])
  BY <1>1 DEF Anybody, CallRows, Callers, Roles
<1> HIDE DEF Fits
<1>7. PICK q : Fits(q) /\ Decide(r, q)
  BY <1>2, <1>3, <1>4, <1>5, <1>6 DEF StartRequest
<1>8. Fits(AsFound(q))
  <2>1. q.on \in People => member[q.on].role \in Roles
    BY TypesNow DEF MemberRows
  <2>2. q.op \in {"resend", "cancel"} =>
            invites[q.invite].status \in {"pending", "accepted", "cancelled"}
    BY <1>7, TypesNow DEF Fits, InviteRows
  <2>3. "member" \in Roles /\ "owner" \in Roles
    BY DEF Roles
  <2>4. PICK f \in Roles \cup {"pending", "accepted", "cancelled"} : AsFound(q) = [q EXCEPT !.found = f]
    BY <2>1, <2>2, <2>3 DEF AsFound
  <2>5. QED
    BY <1>7, <2>4 DEF Fits, CallRows
<1>8a. AsFound(q).op = "accept" => invites[AsFound(q).invite].to = AsFound(q).by
  <2>1. AsFound(q).op = q.op /\ AsFound(q).invite = q.invite /\ AsFound(q).by = q.by
    BY <1>7 DEF AsFound, Fits, CallRows
  <2>2. q.op = "accept" => invites[q.invite].to = q.by
    BY <1>7, AllowedMeans DEF Decide, AcceptAllowed, ValidFor
  <2>3. QED
    BY <2>1, <2>2
<1>9. request' = [request EXCEPT ![r] = AsFound(q)]
      /\ UNCHANGED <<account, member, workspace, invites, stale, doubled>>
  BY <1>7 DEF Decide, StartRequest
<1>10. CallTypes' /\ AcceptsExist'
  BY <1>8, <1>8a, <1>9, TypesNow DEF CallTypes, AcceptsExist, Fits
<1>11. QED
  BY <1>9, <1>10, CallsOnly

LEMMA RequestFailsInv == ASSUME MembershipInv, NEW r \in Calls, RequestFails(r) PROVE MembershipInv'
<1>1. request' = [request EXCEPT ![r] = NoRequest]
      /\ UNCHANGED <<account, member, workspace, invites, stale, doubled>>
  BY DEF RequestFails
<1>2. CallTypes' /\ AcceptsExist'
  BY <1>1, NobodyAsks, TypesNow DEF CallTypes, AcceptsExist
<1>3. QED
  BY <1>1, <1>2, CallsOnly

LEMMA RegisterAndLoginInv ==
    ASSUME MembershipInv, NEW p \in People, RegisterAndLogin(p) PROVE MembershipInv'
<1>1. UNCHANGED <<workspace, invites, request, stale, doubled>>
      /\ account' = [account EXCEPT ![p] = "live"]
      /\ member' = [member EXCEPT ![p].linked = @ \/ Active(p)]
  BY DEF RegisterAndLogin
<1>2. \A q \in People : /\ member'[q] \in MemberRows
                        /\ member'[q].state = member[q].state /\ member'[q].role = member[q].role
  <2> SUFFICES ASSUME NEW q \in People
               PROVE  /\ member'[q] \in MemberRows
                      /\ member'[q].state = member[q].state /\ member'[q].role = member[q].role
    OBVIOUS
  <2>1. PICK l \in BOOLEAN : l = (member[p].linked \/ Active(p))
    OBVIOUS
  <2>2. member'[q] \in {member[q], [member[q] EXCEPT !.linked = l]} /\ member[q] \in MemberRows
    BY <1>1, <2>1, TypesNow
  <2>3. QED
    BY <2>2 DEF MemberRows
<1>3. member' = [q \in People |-> member'[q]]
  BY <1>1, TypesNow
<1>4. member' \in [People -> MemberRows] /\ account' \in [People -> {"none", "live", "deleted"}]
  BY <1>1, <1>2, <1>3, MembersAreRows, TypesNow
<1>5. Owners' = Owners
  BY <1>2 DEF Owners, Active
<1>6. CallTypes' /\ AcceptsExist'
  BY <1>1, TypesNow DEF CallTypes, AcceptsExist
<1>7. GuardsKeepAnOwner' /\ OneWayIn'
  BY <1>1, <1>2, <1>5, OwnersStay, NoNewWayIn DEF Valid
<1>8. QED
  BY <1>1, <1>4, <1>6, <1>7, TypesNow, MembershipInvHolds

LEMMA InvitationExpiresInv ==
    ASSUME MembershipInv, NEW k \in DOMAIN invites, InvitationExpires(k) PROVE MembershipInv'
<1>1. UNCHANGED <<account, member, workspace, request, stale, doubled>>
      /\ invites' = [invites EXCEPT ![k].expired = TRUE]
  BY DEF InvitationExpires
<1>2. \A i \in DOMAIN invites :
          /\ invites'[i] \in InviteRows /\ invites'[i].to = invites[i].to
          /\ Valid(i)' => Valid(i)
          /\ invites'[i].status = invites[i].status
  <2> SUFFICES ASSUME NEW i \in DOMAIN invites
               PROVE  /\ invites'[i] \in InviteRows /\ invites'[i].to = invites[i].to
                      /\ Valid(i)' => Valid(i)
                      /\ invites'[i].status = invites[i].status
    OBVIOUS
  <2>1. invites[i] \in InviteRows
    BY TypesNow
  <2>2. invites'[i] = IF i = k THEN [invites[i] EXCEPT !.expired = TRUE] ELSE invites[i]
    BY <1>1
  <2>3. QED
    BY <2>1, <2>2 DEF InviteRows, Valid
<1>3. invites' = [i \in DOMAIN invites |-> invites'[i]]
  BY <1>1
<1>4. invites' \in Seq(InviteRows) /\ DOMAIN invites' = DOMAIN invites
  BY <1>2, <1>3, InvitesAreWritten
<1>5. Owners' = Owners
  BY <1>1 DEF Owners, Active
<1>6. CallTypes' /\ AcceptsExist'
  BY <1>1, <1>2, <1>4, TypesNow DEF CallTypes, AcceptsExist
<1>7. GuardsKeepAnOwner' /\ OneWayIn'
  BY <1>1, <1>2, <1>4, <1>5, OwnersStay, NoNewWayIn
<1>8. QED
  BY <1>1, <1>4, <1>6, <1>7, TypesNow, MembershipInvHolds

LEMMA MembershipInvStep ==
    ASSUME MembershipInv, [MembershipsNext]_membershipVars PROVE MembershipInv'
<1>1. ASSUME NEW r \in Calls,
             \/ StartRequest(r) \/ RequestFails(r)
             \/ AddMember(r) \/ ChangeRole(r) \/ RemoveMember(r)
             \/ TransferOwnership(r) \/ DeleteWorkspace(r)
             \/ CreateInvitation(r) \/ AcceptInvitation(r)
             \/ CancelInvitation(r) \/ ResendInvitation(r) \/ CloseAccount(r)
      PROVE  MembershipInv'
  BY <1>1, StartRequestInv, RequestFailsInv, AddMemberInv, ChangeRoleInv, RemoveMemberInv,
     TransferOwnershipInv, DeleteWorkspaceInv, CreateInvitationInv, AcceptInvitationInv,
     CancelInvitationInv, ResendInvitationInv, CloseAccountInv, ZenonT(60)
<1>2. ASSUME NEW p \in People, RegisterAndLogin(p) PROVE MembershipInv'
  BY <1>2, RegisterAndLoginInv
<1>3. ASSUME NEW i \in DOMAIN invites, InvitationExpires(i) PROVE MembershipInv'
  BY <1>3, InvitationExpiresInv
<1>4. CASE UNCHANGED membershipVars
  <2>1. CallTypes' /\ AcceptsExist'
    BY <1>4, TypesNow DEF membershipVars, CallTypes, AcceptsExist
  <2>2. QED
    BY <1>4, <2>1, CallsOnly DEF membershipVars
<1>5. QED
  BY <1>1, <1>2, <1>3, <1>4 DEF MembershipsNext

LEMMA MembershipInvAlways == MembershipsSpec => []MembershipInv
BY InitMembershipInv, MembershipInvStep, PTL DEF MembershipsSpec

(* "The last remaining OWNER can never be demoted or removed": the guards  *)
(* of the handlers add up, for any number of people and of calls at once:  *)
(* a live workspace has an owner unless a change of a role, a removal or a *)
(* transfer was decided by what another call changed before its commit.    *)
THEOREM WorkspaceKeepsAnOwner == MembershipsSpec => []GuardsKeepAnOwner
<1>1. MembershipInv => GuardsKeepAnOwner
  BY DEF MembershipInv
<1>2. QED
  BY <1>1, MembershipInvAlways, PTL

(* Whoever has accepted an invitation has a membership row, and an address *)
(* has at most one invitation it can accept unless invite calls crossed or *)
(* one that was settled or expired was sent again.                         *)
THEOREM InvitationsAreOneWayIn == MembershipsSpec => []OneWayIn
<1>1. MembershipInv => OneWayIn
  BY DEF MembershipInv
<1>2. QED
  BY <1>1, MembershipInvAlways, PTL

-----------------------------------------------------------------------------
(* Signing in with Google.  That a flow ends once rests on Google, which   *)
(* takes a code once; that it ends where it began on the cookie; and that  *)
(* an account has one person on the unique constraint, because what a      *)
(* callback resolved may be outdated when it commits.                      *)

FlowRows == [mode : {"login", "link"}, device : Devices, user : Holders \cup {Unknown},
             account : Holders \cup {Unknown}, code : {"none", "issued", "spent", "denied"}]
PersonRows == [state : {"none", "active", "disabled"}, password : BOOLEAN,
               sub : Holders \cup {Unknown}]
CallbackRows == [at : {"idle", "exchange", "resolve", "commit", "answer"},
                 device : Devices \cup {Unknown}, flow : Nat, target : Holders \cup {Unknown},
                 how : {"none", "insert", "update"}, ok : BOOLEAN, clears : BOOLEAN]
GrantRows == [flow : Nat, device : Devices, user : Holders]

GoogleTypes ==
    /\ flows \in Seq(FlowRows) /\ grants \in Seq(GrantRows)
    /\ cookie \in [Devices -> Nat] /\ session \in [Devices -> Holders \cup {Unknown}]
    /\ person \in [Holders -> PersonRows] /\ callback \in [Callbacks -> CallbackRows]

IsActive(u) == u \in Holders /\ person[u].state = "active"

(* A flow for linking has somebody who asked for it, and one that came     *)
(* back with a code an account.                                            *)
FlowsAreSomeones ==
    \A f \in 1..Len(flows) :
        /\ flows[f].mode = "link" => IsActive(flows[f].user)
        /\ flows[f].code \in {"issued", "spent"} => flows[f].account \in Holders

(* d may hold the state of f: f began there and the cookie was kept.       *)
BeganIn(f, d) ==
    /\ f \in 1..Len(flows) /\ d \in Devices /\ flows[f].device = d
    /\ flows[f].mode = "link" => sameOrigin

CookiesAreOwn == \A d \in Devices : cookie[d] # 0 => BeganIn(cookie[d], d)

(* A callback past the exchange has spent the code, as has one that gave a *)
(* session or a link, and no two have spent the same.                      *)
PastExchange(c) == c.at \in {"resolve", "commit"}

CallbackInv(c) ==
    /\ c.at \in {"exchange", "resolve", "commit"} => BeganIn(c.flow, c.device)
    /\ PastExchange(c) => flows[c.flow].code = "spent"
    /\ c.at = "commit" =>
          /\ c.target \in Holders
          /\ c.how = "insert" => flows[c.flow].mode = "login"
          /\ c.how \in {"update", "none"} => IsActive(c.target)
          /\ flows[c.flow].mode = "link" => c.target = flows[c.flow].user /\ c.how = "update"
          /\ flows[c.flow].mode = "login" /\ c.how # "none" => c.target = flows[c.flow].account
    /\ c.at = "answer" /\ c.ok => IsActive(c.target) /\ c.device \in Devices
    /\ c.ok => c.at = "answer"

GrantInv(g) ==
    /\ BeganIn(g.flow, g.device) /\ flows[g.flow].code = "spent"
    /\ flows[g.flow].mode = "link" => g.user = flows[g.flow].user

CodesAreSpentOnce ==
    /\ \A r \in Callbacks : PastExchange(callback[r]) =>
          /\ \A q \in Callbacks : PastExchange(callback[q]) /\ callback[q].flow = callback[r].flow
                                      => q = r
          /\ \A i \in 1..Len(grants) : grants[i].flow # callback[r].flow
    /\ \A i, j \in 1..Len(grants) : i # j => grants[i].flow # grants[j].flow

ChoseIt(u) ==
    \E i \in 1..Len(grants) : /\ grants[i].user = u /\ flows[grants[i].flow].mode = "link"
                              /\ flows[grants[i].flow].account = person[u].sub

PersonInv(u) ==
    /\ person[u].sub # Unknown =>
          /\ person[u].state # "none" /\ LinkedTo(person[u].sub) = {u}
          /\ person[u].sub = u \/ ChoseIt(u)
    /\ person[u].state # "none" => person[u].password \/ person[u].sub # Unknown

GoogleInv ==
    /\ GoogleTypes /\ FlowsAreSomeones /\ CookiesAreOwn /\ CodesAreSpentOnce
    /\ \A r \in Callbacks : CallbackInv(callback[r])
    /\ \A i \in 1..Len(grants) : GrantInv(grants[i])
    /\ \A u \in Holders : PersonInv(u)
    /\ \A d \in Devices : session[d] # Unknown => IsActive(session[d])


LEMMA InitGoogleInv == GoogleInit => GoogleInv
<1> SUFFICES ASSUME GoogleInit PROVE GoogleInv
    OBVIOUS
<1> USE DEF GoogleInit
<1>1. /\ flows = <<>> /\ grants = <<>> /\ Len(flows) = 0 /\ Len(grants) = 0
      /\ flows \in Seq(FlowRows) /\ grants \in Seq(GrantRows)
      /\ 1..Len(flows) = {} /\ 1..Len(grants) = {}
    OBVIOUS
<1>2. ASSUME NEW u \in Holders
      PROVE  /\ person[u] \in PersonRows /\ person[u].sub = Unknown
             /\ person[u].state # "none" => person[u].password
    <2>1. person[u] \in {NoPerson} \cup [state : {"active", "disabled"}, password : {TRUE}, sub : {Unknown}]
        OBVIOUS
    <2>2. CASE person[u] = NoPerson
        BY <2>2 DEF NoPerson, PersonRows
    <2>3. CASE person[u] \in [state : {"active", "disabled"}, password : {TRUE}, sub : {Unknown}]
        BY <2>3 DEF PersonRows
    <2> QED BY <2>1, <2>2, <2>3
<1>3. person \in [Holders -> PersonRows]
    BY <1>2
<1>4. /\ NoCallback \in CallbackRows /\ NoCallback.at = "idle" /\ NoCallback.ok = FALSE
      /\ \A r \in Callbacks : callback[r] = NoCallback
    BY DEF NoCallback, CallbackRows
<1>5. /\ session \in [Devices -> Holders \cup {Unknown}]
      /\ \A d \in Devices : session[d] # Unknown => IsActive(session[d])
    BY DEF IsActive
<1>6. GoogleTypes
    BY <1>1, <1>3, <1>4, <1>5 DEF GoogleTypes
<1>7. /\ \A r \in Callbacks : CallbackInv(callback[r]) /\ ~PastExchange(callback[r])
    BY <1>4 DEF CallbackInv, PastExchange
<1>8. FlowsAreSomeones /\ CookiesAreOwn /\ CodesAreSpentOnce
    BY <1>1, <1>7 DEF FlowsAreSomeones, CookiesAreOwn, CodesAreSpentOnce
<1>9. \A u \in Holders : PersonInv(u)
    BY <1>2 DEF PersonInv
<1> QED BY <1>1, <1>5, <1>6, <1>7, <1>8, <1>9 DEF GoogleInv

(* A step of one callback that spends no code and writes no row            *)
LEMMA CallbackStep ==
    ASSUME GoogleInv, NEW r \in Callbacks, NEW c \in CallbackRows,
           callback' = [callback EXCEPT ![r] = c],
           UNCHANGED <<flows, person, grants, sameOrigin>>, CallbackInv(c),
           PastExchange(c) => PastExchange(callback[r]) /\ c.flow = callback[r].flow,
           cookie' \in [Devices -> Nat], \A d \in Devices : cookie'[d] \in {0, cookie[d]},
           session' \in [Devices -> Holders \cup {Unknown}],
           \A d \in Devices : session'[d] # Unknown => IsActive(session'[d])
    PROVE  GoogleInv'
<1>1. /\ callback' \in [Callbacks -> CallbackRows] /\ callback'[r] = c
      /\ \A q \in Callbacks \ {r} : callback'[q] = callback[q]
    BY DEF GoogleInv, GoogleTypes
<1>2. GoogleTypes'
    BY <1>1 DEF GoogleInv, GoogleTypes
<1>3. FlowsAreSomeones'
    BY DEF GoogleInv, FlowsAreSomeones, IsActive
<1>4. CookiesAreOwn'
    BY DEF GoogleInv, CookiesAreOwn, BeganIn
<1>5. ASSUME NEW q \in Callbacks PROVE CallbackInv(callback[q])'
    <2>1. CallbackInv(callback'[q])
        BY <1>1 DEF GoogleInv
    <2> QED BY <2>1 DEF CallbackInv, BeganIn, PastExchange, IsActive
<1>6. CodesAreSpentOnce'
    <2>1. \A q \in Callbacks : PastExchange(callback'[q]) =>
              PastExchange(callback[q]) /\ callback'[q].flow = callback[q].flow
        BY <1>1
    <2> QED BY <2>1 DEF GoogleInv, CodesAreSpentOnce, PastExchange
<1>7. \A i \in 1..Len(grants)' : GrantInv(grants[i])'
    BY DEF GoogleInv, GrantInv, BeganIn
<1>8. \A u \in Holders : PersonInv(u)'
    BY DEF GoogleInv, PersonInv, ChoseIt, LinkedTo
<1>9. \A d \in Devices : session'[d] # Unknown => IsActive(session[d])'
    BY DEF IsActive
<1> QED BY <1>2, <1>3, <1>4, <1>5, <1>6, <1>7, <1>8, <1>9 DEF GoogleInv

(* Flows are started, consented to and denied: those that have spent their *)
(* code stay as they are.                                                  *)
FlowsGrow ==
    /\ flows' \in Seq(FlowRows) /\ Len(flows) <= Len(flows')
    /\ \A f \in 1..Len(flows) :
          /\ flows'[f].mode = flows[f].mode /\ flows'[f].device = flows[f].device
          /\ flows'[f].user = flows[f].user
          /\ flows[f].code = "spent" => flows'[f] = flows[f]

LEMMA FlowStep ==
    ASSUME GoogleInv, FlowsGrow, FlowsAreSomeones',
           UNCHANGED <<person, session, callback, grants, sameOrigin>>,
           cookie' \in [Devices -> Nat], CookiesAreOwn'
    PROVE  GoogleInv'
<1>1. Len(flows) \in Nat /\ Len(flows') \in Nat /\ 1..Len(flows) \subseteq 1..Len(flows')
    <2>1. Len(flows) \in Nat /\ Len(flows') \in Nat
        BY DEF GoogleInv, GoogleTypes, FlowsGrow
    <2> QED BY <2>1 DEF FlowsGrow
<1>2. GoogleTypes'
    BY DEF GoogleInv, GoogleTypes, FlowsGrow
<1>3. \A f, d : BeganIn(f, d) => BeganIn(f, d)'
    BY <1>1 DEF BeganIn, FlowsGrow
<1>4. ASSUME NEW r \in Callbacks PROVE CallbackInv(callback[r])'
    <2> DEFINE c == callback[r]
    <2>1. CallbackInv(c) /\ c' = c
        BY DEF GoogleInv
    <2>2. c.at \in {"exchange", "resolve", "commit"} => BeganIn(c.flow, c.device)'
        BY <1>3, <2>1 DEF CallbackInv
    <2>3. PastExchange(c) => c.flow \in 1..Len(flows) /\ flows'[c.flow] = flows[c.flow]
        BY <2>1 DEF CallbackInv, BeganIn, PastExchange, FlowsGrow
    <2> HIDE DEF c
    <2> QED BY <2>1, <2>2, <2>3 DEF CallbackInv, PastExchange, IsActive, c
<1>5. ASSUME NEW i \in 1..Len(grants) PROVE GrantInv(grants[i])' /\ flows'[grants[i].flow] = flows[grants[i].flow]
    <2>1. GrantInv(grants[i])
        BY DEF GoogleInv
    <2>2. flows'[grants[i].flow] = flows[grants[i].flow]
        BY <2>1 DEF GrantInv, BeganIn, FlowsGrow
    <2> QED BY <2>1, <2>2, <1>3 DEF GrantInv
<1>6. CodesAreSpentOnce'
    BY DEF GoogleInv, CodesAreSpentOnce, PastExchange
<1>7. \A u \in Holders : PersonInv(u)'
    BY <1>5 DEF GoogleInv, PersonInv, ChoseIt, LinkedTo
<1>8. \A d \in Devices : session'[d] # Unknown => IsActive(session[d])'
    BY DEF GoogleInv, IsActive
<1> QED BY <1>2, <1>4, <1>5, <1>6, <1>7, <1>8 DEF GoogleInv

LEMMA StartKeepsGoogleInv ==
    ASSUME GoogleInv, NEW d \in Devices, Start(d) \/ StartLink(d)
    PROVE  GoogleInv'
<1>1. PICK mode \in {"login", "link"}, u \in Holders \cup {Unknown} :
          /\ NewFlow(mode, d, u)
          /\ mode = "link" => IsActive(u)
          /\ \/ cookie' = [cookie EXCEPT ![d] = Len(flows')] /\ (mode = "link" => sameOrigin)
             \/ cookie' = cookie
    <2>1. CASE Start(d)
        BY <2>1 DEF Start
    <2>2. CASE StartLink(d)
        <3>1. session[d] \in Holders
            BY <2>2 DEF StartLink, GoogleInv, GoogleTypes
        <3> QED BY <2>2, <3>1 DEF StartLink, IsActive
    <2> QED BY <2>1, <2>2
<1>2. UNCHANGED <<person, session, callback, grants, sameOrigin>>
    BY DEF Start, StartLink
<1> DEFINE new == [mode |-> mode, device |-> d, user |-> u, account |-> Unknown, code |-> "none"]
<1>3. flows' = Append(flows, new) /\ new \in FlowRows /\ flows \in Seq(FlowRows)
    BY <1>1 DEF NewFlow, FlowRows, GoogleInv, GoogleTypes
<1>4. new.mode = mode /\ new.user = u /\ new.device = d /\ new.code = "none"
    OBVIOUS
<1> HIDE DEF new
<1>5. /\ flows' \in Seq(FlowRows) /\ Len(flows) \in Nat /\ Len(flows') = Len(flows) + 1
      /\ flows'[Len(flows')] = new /\ \A f \in 1..Len(flows) : flows'[f] = flows[f]
    BY <1>3
<1>6. FlowsGrow
    BY <1>5 DEF FlowsGrow
<1>7. FlowsAreSomeones'
    <2> SUFFICES ASSUME NEW f \in 1..Len(flows')
                 PROVE  /\ flows'[f].mode = "link" => IsActive(flows'[f].user)
                        /\ flows'[f].code \in {"issued", "spent"} => flows'[f].account \in Holders
        BY <1>2 DEF FlowsAreSomeones, IsActive
    <2>1. CASE f = Len(flows')
        BY <1>1, <1>4, <1>5, <2>1
    <2>2. CASE f # Len(flows')
        <3>1. f \in 1..Len(flows)
            BY <1>5, <2>2
        <3> QED BY <1>5, <3>1 DEF GoogleInv, FlowsAreSomeones
    <2> QED BY <2>1, <2>2
<1>8. cookie' \in [Devices -> Nat] /\ CookiesAreOwn'
    <2>1. cookie' \in [Devices -> Nat]
        BY <1>1, <1>5 DEF GoogleInv, GoogleTypes
    <2>2. ASSUME NEW e \in Devices, cookie'[e] # 0 PROVE BeganIn(cookie[e], e)'
        <3>1. CASE cookie'[e] = cookie[e]
            <4>1. BeganIn(cookie[e], e)
                BY <2>2, <3>1 DEF GoogleInv, CookiesAreOwn
            <4> QED BY <1>2, <1>5, <3>1, <4>1 DEF BeganIn
        <3>2. CASE cookie'[e] # cookie[e]
            <4>1. e = d /\ cookie'[e] = Len(flows') /\ (mode = "link" => sameOrigin)
                BY <1>1, <3>2 DEF GoogleInv, GoogleTypes
            <4> QED BY <1>2, <1>4, <1>5, <4>1 DEF BeganIn
        <3> QED BY <3>1, <3>2
    <2> QED BY <2>1, <2>2 DEF CookiesAreOwn
<1> QED BY <1>2, <1>6, <1>7, <1>8, FlowStep

LEMMA GoogleKeepsGoogleInv ==
    ASSUME GoogleInv, NEW f \in 1..Len(flows),
           Deny(f) \/ \E who \in Holders : Consent(f, who)
    PROVE  GoogleInv'
<1>1. /\ flows[f].code = "none" /\ flows \in Seq(FlowRows) /\ flows[f] \in FlowRows
      /\ UNCHANGED <<person, session, callback, grants, sameOrigin>>
    <2>1. flows \in Seq(FlowRows) /\ flows[f] \in FlowRows
        BY DEF GoogleInv, GoogleTypes
    <2>2. CASE Deny(f)
        BY <2>1, <2>2 DEF Deny
    <2>3. CASE \E who \in Holders : Consent(f, who)
        BY <2>1, <2>3 DEF Consent
    <2> QED BY <2>2, <2>3
<1>2. PICK g \in FlowRows :
          /\ flows' = [flows EXCEPT ![f] = g]
          /\ g.mode = flows[f].mode /\ g.device = flows[f].device /\ g.user = flows[f].user
          /\ g.code \in {"issued", "spent"} => g.account \in Holders
    <2>1. CASE Deny(f)
        <3> DEFINE g == [flows[f] EXCEPT !.code = "denied"]
        <3>1. /\ flows' = [flows EXCEPT ![f] = g] /\ g \in FlowRows /\ g.code = "denied"
              /\ g.mode = flows[f].mode /\ g.device = flows[f].device /\ g.user = flows[f].user
            BY <1>1, <2>1 DEF Deny, FlowRows
        <3> HIDE DEF g
        <3> QED BY <3>1
    <2>2. ASSUME NEW who \in Holders, Consent(f, who)
          PROVE  \E g \in FlowRows :
                     /\ flows' = [flows EXCEPT ![f] = g]
                     /\ g.mode = flows[f].mode /\ g.device = flows[f].device /\ g.user = flows[f].user
                     /\ g.code \in {"issued", "spent"} => g.account \in Holders
        <3> DEFINE g == [flows[f] EXCEPT !.account = who, !.code = "issued"]
        <3>1. /\ flows' = [flows EXCEPT ![f] = g] /\ g \in FlowRows /\ g.account = who
              /\ g.mode = flows[f].mode /\ g.device = flows[f].device /\ g.user = flows[f].user
            BY <1>1, <2>2 DEF Consent, FlowRows
        <3> HIDE DEF g
        <3> QED BY <3>1
    <2> QED BY <2>1, <2>2
<1>3. /\ flows' \in Seq(FlowRows) /\ Len(flows') = Len(flows) /\ Len(flows) \in Nat
      /\ flows'[f] = g /\ \A h \in 1..Len(flows) \ {f} : flows'[h] = flows[h]
    BY <1>1, <1>2
<1>4. FlowsGrow
    BY <1>1, <1>2, <1>3 DEF FlowsGrow
<1>5. FlowsAreSomeones'
    BY <1>1, <1>2, <1>3 DEF GoogleInv, FlowsAreSomeones, IsActive
<1>6. /\ cookie' \in [Devices -> Nat]
      /\ \A d \in Devices : cookie'[d] # 0 => cookie'[d] = cookie[d]
    <2>1. cookie \in [Devices -> Nat]
        BY DEF GoogleInv, GoogleTypes
    <2>2. CASE Deny(f)
        BY <2>1, <2>2 DEF Deny
    <2>3. CASE \E who \in Holders : Consent(f, who)
        BY <2>1, <2>3 DEF Consent
    <2> QED BY <2>2, <2>3
<1>7. CookiesAreOwn'
    BY <1>1, <1>2, <1>3, <1>6 DEF GoogleInv, CookiesAreOwn, BeganIn
<1> QED BY <1>1, <1>4, <1>5, <1>6, <1>7, FlowStep

LEMMA UnlinkKeepsGoogleInv ==
    ASSUME GoogleInv, NEW d \in Devices, Unlink(d)
    PROVE  GoogleInv'
<1> DEFINE u == session[d]
<1>1. /\ u # Unknown /\ person[u].password
      /\ person' = [person EXCEPT ![u].sub = Unknown]
      /\ UNCHANGED <<flows, cookie, session, callback, grants, sameOrigin>>
    BY DEF Unlink
<1>2. u \in Holders /\ person[u] \in PersonRows
    BY <1>1 DEF GoogleInv, GoogleTypes
<1> HIDE DEF u
<1>3. /\ person'[u] = [person[u] EXCEPT !.sub = Unknown]
      /\ \A v \in Holders \ {u} : person'[v] = person[v]
    BY <1>1, <1>2 DEF GoogleInv, GoogleTypes
<1>4. /\ person'[u] \in PersonRows /\ person'[u].sub = Unknown
      /\ person'[u].state = person[u].state /\ person'[u].password = person[u].password
    BY <1>2, <1>3 DEF PersonRows
<1>5. \A v : IsActive(v)' <=> IsActive(v)
    BY <1>3, <1>4 DEF IsActive
<1>6. GoogleTypes'
    <2>1. person' \in [Holders -> PersonRows]
        BY <1>1, <1>2, <1>3, <1>4 DEF GoogleInv, GoogleTypes
    <2> QED BY <1>1, <2>1 DEF GoogleInv, GoogleTypes
<1>7. FlowsAreSomeones' /\ CookiesAreOwn' /\ CodesAreSpentOnce'
    BY <1>1, <1>5
       DEF GoogleInv, FlowsAreSomeones, CookiesAreOwn, BeganIn, CodesAreSpentOnce, PastExchange
<1>8. ASSUME NEW r \in Callbacks PROVE CallbackInv(callback[r])'
    <2>1. CallbackInv(callback[r])
        BY DEF GoogleInv
    <2> QED BY <1>1, <1>5, <2>1 DEF CallbackInv, BeganIn, PastExchange
<1>9. \A i \in 1..Len(grants)' : GrantInv(grants[i])'
    BY <1>1 DEF GoogleInv, GrantInv, BeganIn
<1>10. ASSUME NEW v \in Holders PROVE PersonInv(v)'
    <2>1. CASE v = u
        BY <1>1, <1>4, <2>1 DEF PersonInv
    <2>2. CASE v # u
        <3>1. PersonInv(v) /\ person'[v] = person[v]
            BY <1>3, <2>2 DEF GoogleInv
        <3>2. ChoseIt(v) => ChoseIt(v)'
            BY <1>1, <3>1 DEF ChoseIt
        <3>3. person[v].sub # Unknown => LinkedTo(person[v].sub)' = LinkedTo(person[v].sub) \ {u}
            BY <1>3, <1>4, <3>1 DEF LinkedTo
        <3> QED BY <2>2, <3>1, <3>2, <3>3 DEF PersonInv
    <2> QED BY <2>1, <2>2
<1>11. \A e \in Devices : session'[e] # Unknown => IsActive(session[e])'
    BY <1>1, <1>5 DEF GoogleInv
<1> QED BY <1>6, <1>7, <1>8, <1>9, <1>10, <1>11 DEF GoogleInv


LEMMA FailureIsSound ==
    ASSUME NEW c \in CallbackRows, c.ok = FALSE
    PROVE  /\ Failed(c) \in CallbackRows /\ CallbackInv(Failed(c)) /\ ~PastExchange(Failed(c))
           /\ Aborted(c) \in CallbackRows /\ CallbackInv(Aborted(c)) /\ ~PastExchange(Aborted(c))
<1>1. /\ Failed(c) \in CallbackRows /\ Failed(c).at = "answer" /\ Failed(c).ok = FALSE
      /\ Aborted(c) \in CallbackRows /\ Aborted(c).at = "answer" /\ Aborted(c).ok = FALSE
    BY DEF Failed, Aborted, CallbackRows
<1> QED BY <1>1 DEF CallbackInv, PastExchange

LEMMA OpenKeepsGoogleInv ==
    ASSUME GoogleInv, NEW r \in Callbacks, NEW d \in Devices, NEW f \in 1..Len(flows),
           Open(r, d, f)
    PROVE  GoogleInv'
<1> DEFINE c == [NoCallback EXCEPT !.at = "exchange", !.device = d, !.flow = f]
           x == IF StateMatches(d, f) THEN c ELSE Failed(c)
<1>1. /\ callback' = [callback EXCEPT ![r] = x]
      /\ UNCHANGED <<flows, cookie, person, session, grants, sameOrigin>>
    BY DEF Open
<1>2. /\ c \in CallbackRows /\ c.at = "exchange" /\ c.device = d /\ c.flow = f /\ c.ok = FALSE
    <2>1. f \in Nat
        BY DEF GoogleInv, GoogleTypes
    <2>2. NoCallback \in CallbackRows /\ NoCallback.ok = FALSE
        BY DEF NoCallback, CallbackRows
    <2> QED BY <2>1, <2>2 DEF CallbackRows
<1> HIDE DEF c
<1>3. x \in CallbackRows /\ CallbackInv(x) /\ ~PastExchange(x)
    <2>1. CASE StateMatches(d, f)
        <3>1. BeganIn(f, d)
            BY <2>1 DEF StateMatches, GoogleInv, CookiesAreOwn
        <3> QED BY <1>2, <2>1, <3>1 DEF CallbackInv, PastExchange
    <2>2. CASE ~StateMatches(d, f)
        BY <1>2, <2>2, FailureIsSound
    <2> QED BY <2>1, <2>2
<1> HIDE DEF x
<1> QED BY <1>1, <1>3, CallbackStep DEF GoogleInv, GoogleTypes

LEMMA ExchangeKeepsGoogleInv ==
    ASSUME GoogleInv, NEW r \in Callbacks, Exchange(r)
    PROVE  GoogleInv'
<1> DEFINE c == callback[r]  f == c.flow
<1>1. /\ c.at = "exchange" /\ c \in CallbackRows /\ CallbackInv(c)
      /\ UNCHANGED <<cookie, person, session, grants, sameOrigin>>
    BY DEF Exchange, GoogleInv, GoogleTypes
<1>2. BeganIn(f, c.device) /\ c.ok = FALSE
    BY <1>1 DEF CallbackInv, CallbackRows
<1>3. CASE flows' = flows /\ callback' = [callback EXCEPT ![r] = Failed(c)]
    <2> DEFINE y == Failed(c)
    <2>1. y \in CallbackRows /\ CallbackInv(y) /\ ~PastExchange(y)
        BY <1>1, <1>2, FailureIsSound
    <2>2. callback' = [callback EXCEPT ![r] = y]
        BY <1>3
    <2> HIDE DEF y
    <2> QED BY <1>1, <1>3, <2>1, <2>2, CallbackStep DEF GoogleInv, GoogleTypes
<1>4. ASSUME NEW x \in {[c EXCEPT !.at = "resolve"], Failed(c)},
             flows[f].code = "issued", flows' = [flows EXCEPT ![f].code = "spent"],
             callback' = [callback EXCEPT ![r] = x]
      PROVE  GoogleInv'
    <2>1. /\ flows \in Seq(FlowRows) /\ f \in 1..Len(flows) /\ flows[f] \in FlowRows
          /\ Len(flows) \in Nat
        BY <1>2 DEF BeganIn, GoogleInv, GoogleTypes
    <2>2. /\ flows' \in Seq(FlowRows) /\ Len(flows') = Len(flows)
          /\ flows'[f].code = "spent" /\ flows'[f].mode = flows[f].mode
          /\ flows'[f].device = flows[f].device /\ flows'[f].user = flows[f].user
          /\ flows'[f].account = flows[f].account
          /\ \A h \in 1..Len(flows) \ {f} : flows'[h] = flows[h]
        <3> DEFINE g == [flows[f] EXCEPT !.code = "spent"]
        <3>1. /\ g \in FlowRows /\ g.code = "spent" /\ g.mode = flows[f].mode
              /\ g.device = flows[f].device /\ g.user = flows[f].user
              /\ g.account = flows[f].account
            BY <2>1 DEF FlowRows
        <3>2. flows' = [flows EXCEPT ![f] = g]
            BY <1>4
        <3> HIDE DEF g
        <3> QED BY <2>1, <3>1, <3>2
    <2>3. /\ x \in CallbackRows /\ x.flow = f /\ x.device = c.device /\ x.ok = FALSE
          /\ x.at \in {"resolve", "answer"}
        <3>1. CASE x = Failed(c)
            BY <1>1, <1>2, <3>1 DEF Failed, CallbackRows
        <3>2. CASE x = [c EXCEPT !.at = "resolve"]
            BY <1>1, <1>2, <3>2 DEF CallbackRows
        <3> QED BY <3>1, <3>2
    <2> HIDE DEF f
    <2>4. /\ callback' \in [Callbacks -> CallbackRows] /\ callback'[r] = x
          /\ \A q \in Callbacks \ {r} : callback'[q] = callback[q]
        BY <1>4, <2>3 DEF GoogleInv, GoogleTypes
    <2>5. GoogleTypes'
        BY <1>1, <2>2, <2>4 DEF GoogleInv, GoogleTypes
    <2>6. FlowsAreSomeones'
        BY <1>1, <1>4, <2>2 DEF GoogleInv, FlowsAreSomeones, IsActive
    <2>7. \A h, d : BeganIn(h, d)' <=> BeganIn(h, d)
        BY <1>1, <2>2 DEF BeganIn
    <2>8. CookiesAreOwn'
        BY <1>1, <2>7 DEF GoogleInv, CookiesAreOwn
    <2>9. ASSUME NEW i \in 1..Len(grants)
          PROVE  GrantInv(grants[i])' /\ grants[i].flow # f /\ flows'[grants[i].flow] = flows[grants[i].flow]
        <3>1. GrantInv(grants[i])
            BY DEF GoogleInv
        <3>2. grants[i].flow # f /\ flows'[grants[i].flow] = flows[grants[i].flow]
            BY <1>4, <2>2, <3>1 DEF GrantInv, BeganIn
        <3> QED BY <1>1, <2>7, <3>1, <3>2 DEF GrantInv
    <2>10. ASSUME NEW q \in Callbacks \ {r}
           PROVE  CallbackInv(callback[q])' /\ (PastExchange(callback[q]) => callback[q].flow # f)
        <3> DEFINE b == callback[q]
        <3>1. CallbackInv(b) /\ callback'[q] = b
            BY <2>4 DEF GoogleInv
        <3> HIDE DEF b
        <3>2. PastExchange(b) => b.flow # f /\ flows'[b.flow] = flows[b.flow]
            BY <1>4, <2>2, <3>1 DEF CallbackInv, PastExchange, BeganIn
        <3>3. CallbackInv(b)'
            BY <1>1, <2>4, <2>7, <3>1, <3>2 DEF CallbackInv, PastExchange, IsActive, b
        <3> QED BY <3>2, <3>3 DEF b
    <2>11. CallbackInv(callback[r])'
        BY <1>1, <1>2, <2>2, <2>3, <2>4, <2>7 DEF CallbackInv, PastExchange, f
    <2>12. CodesAreSpentOnce'
        <3>1. \A q \in Callbacks : PastExchange(callback[q])' =>
                  (q # r => /\ PastExchange(callback[q]) /\ callback'[q].flow = callback[q].flow
                            /\ callback[q].flow # f)
            BY <2>4, <2>10 DEF PastExchange
        <3>2. callback'[r].flow = f
            BY <2>3, <2>4
        <3> QED BY <1>1, <2>9, <3>1, <3>2 DEF GoogleInv, CodesAreSpentOnce
    <2>13. \A u \in Holders : PersonInv(u)'
        BY <1>1, <2>9 DEF GoogleInv, PersonInv, ChoseIt, LinkedTo
    <2>14. \A d \in Devices : session'[d] # Unknown => IsActive(session[d])'
        BY <1>1 DEF GoogleInv, IsActive
    <2> QED BY <2>5, <2>6, <2>8, <2>9, <2>10, <2>11, <2>12, <2>13, <2>14, <1>1 DEF GoogleInv
<1> QED BY <1>3, <1>4 DEF Exchange

LEMMA ResolveKeepsGoogleInv ==
    ASSUME GoogleInv, NEW r \in Callbacks, Resolve(r)
    PROVE  GoogleInv'
<1> DEFINE c == callback[r]  f == flows[c.flow]
           x == IF f.mode = "link" THEN ResolveLink(c) ELSE ResolveLogin(c)
<1>1. /\ c.at = "resolve" /\ c \in CallbackRows /\ CallbackInv(c)
      /\ UNCHANGED <<flows, cookie, person, session, grants, sameOrigin>>
      /\ callback' = [callback EXCEPT ![r] = x]
    BY DEF Resolve, GoogleInv, GoogleTypes
<1> c.ok = FALSE
    BY <1>1 DEF CallbackInv, CallbackRows
<1>2. /\ BeganIn(c.flow, c.device) /\ f.code = "spent" /\ f \in FlowRows /\ f.account \in Holders
      /\ f.mode = "link" => IsActive(f.user)
    BY <1>1 DEF CallbackInv, PastExchange, BeganIn, GoogleInv, GoogleTypes, FlowsAreSomeones
<1>3. ASSUME NEW u \in Holders, NEW how \in {"none", "insert", "update"},
             x = [c EXCEPT !.at = "commit", !.target = u, !.how = how],
             how = "insert" => f.mode = "login",
             how \in {"update", "none"} => IsActive(u),
             f.mode = "link" => u = f.user /\ how = "update",
             f.mode = "login" /\ how # "none" => u = f.account
      PROVE  x \in CallbackRows /\ CallbackInv(x) /\ x.flow = c.flow
    <2>1. /\ x \in CallbackRows /\ x.at = "commit" /\ x.target = u /\ x.how = how
          /\ x.flow = c.flow /\ x.device = c.device /\ x.ok = FALSE
        BY <1>1, <1>3 DEF CallbackRows
    <2> HIDE DEF x
    <2> QED BY <1>2, <1>3, <2>1 DEF CallbackInv, PastExchange
<1>4. ASSUME x = Failed(c) \/ x = Aborted(c)
      PROVE  x \in CallbackRows /\ CallbackInv(x) /\ ~PastExchange(x)
    BY <1>1, <1>4, FailureIsSound
<1>5. x \in CallbackRows /\ CallbackInv(x) /\ (PastExchange(x) => x.flow = c.flow)
    <2>1. CASE f.mode = "link"
        <3>1. CASE LinkedTo(f.account) \ {f.user} # {}
            BY <1>4, <2>1, <3>1 DEF ResolveLink
        <3>2. CASE LinkedTo(f.account) \ {f.user} = {}
            <4>1. x = [c EXCEPT !.at = "commit", !.target = f.user, !.how = "update"]
                BY <2>1, <3>2 DEF ResolveLink
            <4> QED BY <1>2, <1>3, <2>1, <4>1 DEF IsActive
        <3> QED BY <3>1, <3>2
    <2>2. CASE f.mode # "link"
        <3> DEFINE who == f.account
                   found == IF LinkedTo(who) # {} THEN LinkedTo(who)
                            ELSE {u \in {who} : person[u].state # "none"}
                   u == CHOOSE v \in found : TRUE
        <3>1. f.mode = "login" /\ x = ResolveLogin(c)
            BY <1>2, <2>2 DEF FlowRows
        <3>2. CASE found = {}
            <4>1. x = [c EXCEPT !.at = "commit", !.target = who, !.how = "insert"]
                BY <3>1, <3>2 DEF ResolveLogin
            <4> QED BY <1>2, <1>3, <3>1, <4>1
        <3>3. CASE found # {} /\ person[u].state = "disabled"
            <4>1. x = Aborted(c)
                BY <3>1, <3>3 DEF ResolveLogin
            <4> QED BY <1>4, <4>1
        <3>4. CASE found # {} /\ person[u].state # "disabled"
            <4> DEFINE how == IF LinkedTo(who) = {} THEN "update" ELSE "none"
            <4>1. x = [c EXCEPT !.at = "commit", !.target = u, !.how = how]
                BY <3>1, <3>4 DEF ResolveLogin
            <4>2. u \in found
                BY <3>4
            <4>3. u \in Holders /\ person[u].state # "none" /\ (how = "update" => u = who)
                <5>1. CASE LinkedTo(who) = {}
                    BY <1>2, <4>2, <5>1
                <5>2. CASE LinkedTo(who) # {}
                    <6>1. u \in Holders /\ person[u].sub = who
                        BY <4>2, <5>2 DEF LinkedTo
                    <6>2. who # Unknown
                        BY <1>2, GoogleAssumption DEF GoogleAssumption
                    <6>3. PersonInv(u)
                        BY <6>1 DEF GoogleInv
                    <6> QED BY <5>2, <6>1, <6>2, <6>3 DEF PersonInv
                <5> QED BY <5>1, <5>2
            <4>4. IsActive(u)
                <5>1. person[u] \in PersonRows
                    BY <4>3 DEF GoogleInv, GoogleTypes
                <5> QED BY <3>4, <4>3, <5>1 DEF IsActive, PersonRows
            <4>5. how \in {"none", "update"}
                OBVIOUS
            <4> HIDE DEF u, how
            <4> QED BY <1>3, <3>1, <4>1, <4>3, <4>4, <4>5
        <3> QED BY <3>2, <3>3, <3>4
    <2> QED BY <2>1, <2>2
<1>6. PastExchange(c)
    BY <1>1 DEF PastExchange
<1> HIDE DEF x
<1> QED BY <1>1, <1>5, <1>6, CallbackStep DEF GoogleInv, GoogleTypes

LEMMA AnswerKeepsGoogleInv ==
    ASSUME GoogleInv, NEW r \in Callbacks, Answer(r) \/ Lost(r)
    PROVE  GoogleInv'
<1> DEFINE c == callback[r]
<1>1. /\ c.at = "answer" /\ c \in CallbackRows /\ CallbackInv(c)
      /\ callback' = [callback EXCEPT ![r] = NoCallback]
      /\ UNCHANGED <<flows, person, grants, sameOrigin>>
      /\ cookie' = cookie \/ cookie' = [cookie EXCEPT ![c.device] = 0]
      /\ \/ session' = session
         \/ c.ok /\ session' = [session EXCEPT ![c.device] = c.target]
    BY DEF Answer, Lost, HandOff, GoogleInv, GoogleTypes
<1>2. NoCallback \in CallbackRows /\ CallbackInv(NoCallback) /\ ~PastExchange(NoCallback)
    <2>1. NoCallback \in CallbackRows /\ NoCallback.at = "idle" /\ NoCallback.ok = FALSE
        BY DEF NoCallback, CallbackRows
    <2> QED BY <2>1 DEF CallbackInv, PastExchange
<1>3. cookie' \in [Devices -> Nat] /\ \A d \in Devices : cookie'[d] \in {0, cookie[d]}
    BY <1>1 DEF GoogleInv, GoogleTypes
<1>4. /\ session' \in [Devices -> Holders \cup {Unknown}]
      /\ \A d \in Devices : session'[d] # Unknown => IsActive(session'[d])
    <2>1. c.ok => IsActive(c.target) /\ c.target \in Holders
        BY <1>1 DEF CallbackInv, IsActive
    <2> HIDE DEF c
    <2> QED BY <1>1, <2>1 DEF GoogleInv, GoogleTypes
<1> QED BY <1>1, <1>2, <1>3, <1>4, CallbackStep

(* The write: a row has the account, and it alone, that the grant is for.  *)
LEMMA CommitKeepsGoogleInv ==
    ASSUME GoogleInv, NEW r \in Callbacks, Commit(r)
    PROVE  GoogleInv'
<1> DEFINE c == callback[r]  who == flows[c.flow].account  t == c.target
<1>1. /\ c.at = "commit" /\ c \in CallbackRows /\ CallbackInv(c)
      /\ UNCHANGED <<flows, cookie, session, sameOrigin>>
    BY DEF Commit, GoogleInv, GoogleTypes
<1>2. /\ BeganIn(c.flow, c.device) /\ flows[c.flow].code = "spent"
      /\ flows[c.flow] \in FlowRows /\ who \in Holders /\ t \in Holders
      /\ c.flow \in Nat /\ c.device \in Devices
    BY <1>1 DEF CallbackInv, PastExchange, BeganIn, GoogleInv, GoogleTypes, FlowsAreSomeones
<1> c.ok = FALSE
    BY <1>1 DEF CallbackInv, CallbackRows
<1>3. CASE ~Unique(c)
    <2>1. callback' = [callback EXCEPT ![r] = Aborted(c)] /\ UNCHANGED <<person, grants>>
        BY <1>3 DEF Commit
    <2> QED BY <1>1, <2>1, FailureIsSound, CallbackStep DEF GoogleInv, GoogleTypes
<1>4. CASE Unique(c)
    <2> DEFINE g == [flow |-> c.flow, device |-> c.device, user |-> t]
               x == [c EXCEPT !.at = "answer", !.ok = TRUE, !.clears = TRUE]
               row == CASE c.how = "insert" -> [state |-> "active", password |-> FALSE, sub |-> who]
                        [] c.how = "update" -> [person[t] EXCEPT !.sub = who]
                        [] c.how = "none" -> person[t]
    <2>1. /\ grants' = Append(grants, g) /\ callback' = [callback EXCEPT ![r] = x]
        BY <1>4 DEF Commit
    <2>2. c.how \in {"none", "insert", "update"} /\ person[t] \in PersonRows
          /\ person \in [Holders -> PersonRows]
        BY <1>1, <1>2 DEF CallbackRows, GoogleInv, GoogleTypes
    <2>3. person' = [person EXCEPT ![t] = row]
        <3>1. CASE c.how = "insert"
            BY <1>4, <3>1 DEF Commit
        <3>2. CASE c.how = "update"
            BY <1>4, <3>2 DEF Commit
        <3>3. CASE c.how = "none"
            <4>1. person' = person /\ row = person[t]
                BY <1>4, <3>3 DEF Commit
            <4> QED BY <2>2, <4>1
        <3> QED BY <2>2, <3>1, <3>2, <3>3
    <2>4. /\ row \in PersonRows
          /\ c.how # "none" => row.sub = who
          /\ c.how = "none" => row = person[t]
          /\ c.how = "update" => row.state = person[t].state
          /\ row.state = "active"
        <3>1. c.how \in {"update", "none"} => person[t].state = "active"
            BY <1>1 DEF CallbackInv, IsActive
        <3>2. CASE c.how = "insert"
            <4>1. row = [state |-> "active", password |-> FALSE, sub |-> who]
                BY <3>2
            <4> QED BY <1>2, <3>2, <4>1 DEF PersonRows
        <3>3. CASE c.how = "update"
            <4>1. row = [person[t] EXCEPT !.sub = who]
                BY <3>3
            <4> QED BY <1>2, <2>2, <3>1, <3>3, <4>1 DEF PersonRows
        <3>4. CASE c.how = "none"
            BY <2>2, <3>1, <3>4
        <3> QED BY <2>2, <3>2, <3>3, <3>4
    <2>5. /\ x \in CallbackRows /\ x.at = "answer" /\ x.flow = c.flow /\ x.target = t
          /\ x.device = c.device
          /\ g \in GrantRows /\ g.flow = c.flow /\ g.device = c.device /\ g.user = t
        BY <1>1, <1>2 DEF CallbackRows, GrantRows
    <2>6. who # Unknown
        BY <1>2, GoogleAssumption DEF GoogleAssumption
    <2>7. /\ c.how = "insert" => person[t].state = "none" /\ flows[c.flow].mode = "login"
          /\ c.how # "none" => LinkedTo(who) \subseteq {t}
          /\ flows[c.flow].mode = "link" => t = flows[c.flow].user /\ c.how = "update"
          /\ flows[c.flow].mode = "login" /\ c.how # "none" => t = who
        BY <1>1, <1>4 DEF Unique, CallbackInv
    <2>8. flows[c.flow].mode \in {"login", "link"} /\ PastExchange(c)
        BY <1>1, <1>2 DEF FlowRows, PastExchange
    <2> HIDE DEF g, x, row
    <2>9. /\ person'[t] = row /\ person' \in [Holders -> PersonRows]
          /\ \A u \in Holders \ {t} : person'[u] = person[u]
        BY <1>2, <2>2, <2>3, <2>4
    <2>10. /\ callback' \in [Callbacks -> CallbackRows] /\ callback'[r] = x
           /\ \A q \in Callbacks \ {r} : callback'[q] = callback[q]
        BY <2>1, <2>5 DEF GoogleInv, GoogleTypes
    <2>11. /\ grants' \in Seq(GrantRows) /\ Len(grants) \in Nat
           /\ Len(grants') = Len(grants) + 1 /\ grants'[Len(grants')] = g
           /\ \A i \in 1..Len(grants) : i \in 1..Len(grants') /\ grants'[i] = grants[i]
           /\ \A i \in 1..Len(grants') : i = Len(grants') \/ i \in 1..Len(grants)
           /\ Len(grants') \in 1..Len(grants')
        <3>1. grants \in Seq(GrantRows)
            BY DEF GoogleInv, GoogleTypes
        <3> QED BY <2>1, <2>5, <3>1
    <2> HIDE DEF c, who, t
    <2>12. GoogleTypes'
        BY <1>1, <2>9, <2>10, <2>11 DEF GoogleInv, GoogleTypes
    <2>13. \A u : IsActive(u) => IsActive(u)'
        BY <2>4, <2>9 DEF IsActive
    <2>14. \A f, d : BeganIn(f, d)' <=> BeganIn(f, d)
        BY <1>1 DEF BeganIn
    <2>15. FlowsAreSomeones' /\ CookiesAreOwn'
        BY <1>1, <2>13, <2>14 DEF GoogleInv, FlowsAreSomeones, CookiesAreOwn
    <2>16. ASSUME NEW q \in Callbacks PROVE CallbackInv(callback[q])'
        <3>1. CASE q # r
            <4>1. CallbackInv(callback[q]) /\ callback'[q] = callback[q]
                BY <2>10, <3>1 DEF GoogleInv
            <4> QED BY <1>1, <2>13, <2>14, <4>1 DEF CallbackInv, PastExchange
        <3>2. CASE q = r
            <4>1. t \in Holders /\ person'[t].state = "active"
                BY <1>2, <2>4, <2>9
            <4>2. callback'[q] = x
                BY <2>10, <3>2
            <4> QED BY <1>2, <2>5, <4>1, <4>2 DEF CallbackInv, PastExchange, IsActive
        <3> QED BY <3>1, <3>2
    <2>17. ASSUME NEW i \in 1..Len(grants') PROVE GrantInv(grants[i])'
        <3>1. CASE i = Len(grants')
            BY <1>1, <1>2, <2>5, <2>7, <2>11, <2>14, <3>1 DEF GrantInv
        <3>2. CASE i \in 1..Len(grants)
            <4>1. GrantInv(grants[i]) /\ grants'[i] = grants[i]
                BY <2>11, <3>2 DEF GoogleInv
            <4> QED BY <1>1, <2>14, <4>1 DEF GrantInv
        <3> QED BY <2>11, <3>1, <3>2
    <2>18. CodesAreSpentOnce'
        <3>1. \A q \in Callbacks : PastExchange(callback'[q]) =>
                  q # r /\ PastExchange(callback[q]) /\ callback'[q] = callback[q]
            BY <2>5, <2>10 DEF PastExchange
        <3>2. \A q \in Callbacks \ {r} : PastExchange(callback[q]) => callback[q].flow # c.flow
            BY <2>8 DEF GoogleInv, CodesAreSpentOnce, c
        <3>3. \A i \in 1..Len(grants) : grants[i].flow # c.flow
            BY <2>8 DEF GoogleInv, CodesAreSpentOnce, c
        <3>4. ASSUME NEW q \in Callbacks, PastExchange(callback'[q])
              PROVE  /\ \A p \in Callbacks : PastExchange(callback'[p])
                             /\ callback'[p].flow = callback'[q].flow => p = q
                     /\ \A i \in 1..Len(grants') : grants'[i].flow # callback'[q].flow
            <4>1. q # r /\ PastExchange(callback[q]) /\ callback'[q] = callback[q]
                BY <3>1, <3>4
            <4>2. \A p \in Callbacks : PastExchange(callback'[p])
                             /\ callback'[p].flow = callback'[q].flow => p = q
                BY <3>1, <4>1 DEF GoogleInv, CodesAreSpentOnce
            <4>3. \A i \in 1..Len(grants') : grants'[i].flow # callback'[q].flow
                BY <2>5, <2>11, <3>2, <4>1 DEF GoogleInv, CodesAreSpentOnce
            <4> QED BY <4>2, <4>3
        <3>5. \A i, j \in 1..Len(grants') : i # j => grants'[i].flow # grants'[j].flow
            BY <2>5, <2>11, <3>3 DEF GoogleInv, CodesAreSpentOnce
        <3> QED BY <3>4, <3>5 DEF CodesAreSpentOnce, PastExchange
    <2>19. ASSUME NEW u \in Holders PROVE PersonInv(u)'
        <3>1. PersonInv(u) /\ PersonInv(t)
            BY <1>2 DEF GoogleInv, t
        <3>2. CASE u = t /\ c.how # "none"
            <4>1. person'[u].sub = who
                BY <2>4, <2>9, <3>2
            <4>2. LinkedTo(person[u].sub)' = {u}
                <5>1. ASSUME NEW v \in Holders, person'[v].sub = who PROVE v = u
                    BY <2>7, <2>9, <3>2, <5>1 DEF LinkedTo
                <5> QED BY <4>1, <5>1 DEF LinkedTo
            <4>3. who = u \/ ChoseIt(u)'
                <5>1. CASE flows[c.flow].mode = "login"
                    BY <2>7, <3>2, <5>1
                <5>2. CASE flows[c.flow].mode = "link"
                    <6>1. /\ grants'[Len(grants')].user = u
                          /\ flows'[grants'[Len(grants')].flow].mode = "link"
                          /\ flows'[grants'[Len(grants')].flow].account = person'[u].sub
                        BY <1>1, <2>5, <2>11, <3>2, <4>1, <5>2 DEF who
                    <6> QED BY <2>11, <6>1 DEF ChoseIt
                <5> QED BY <2>8, <5>1, <5>2
            <4>4. person'[u].state = "active"
                BY <2>4, <2>9, <3>2
            <4> QED BY <2>6, <4>1, <4>2, <4>3, <4>4 DEF PersonInv
        <3>3. CASE u # t \/ c.how = "none"
            <4>1. person'[u] = person[u]
                BY <2>4, <2>9, <3>3
            <4>2. person[u].sub # Unknown => LinkedTo(person[u].sub)' = {u}
                <5> SUFFICES ASSUME person[u].sub # Unknown, NEW v \in Holders
                             PROVE  person'[v].sub = person[u].sub <=> v = u
                    BY <4>1 DEF LinkedTo
                <5>1. LinkedTo(person[u].sub) = {u}
                    BY <3>1 DEF PersonInv
                <5>2. CASE v = u
                    BY <4>1, <5>2
                <5>3. CASE v # u /\ (v # t \/ c.how = "none")
                    <6>1. person'[v] = person[v]
                        BY <2>4, <2>9, <5>3
                    <6> QED BY <5>1, <5>3, <6>1 DEF LinkedTo
                <5>4. CASE v # u /\ v = t /\ c.how # "none"
                    <6>1. person'[v].sub = who
                        BY <2>4, <2>9, <5>4
                    <6>2. LinkedTo(who) \subseteq {t}
                        BY <2>7, <5>4
                    <6> QED BY <5>1, <5>4, <6>1, <6>2 DEF LinkedTo
                <5> QED BY <5>2, <5>3, <5>4
            <4>3. ChoseIt(u) => ChoseIt(u)'
                BY <1>1, <2>11, <4>1 DEF ChoseIt
            <4> QED BY <3>1, <4>1, <4>2, <4>3 DEF PersonInv
        <3> QED BY <3>2, <3>3
    <2>20. \A d \in Devices : session'[d] # Unknown => IsActive(session[d])'
        BY <1>1, <2>13 DEF GoogleInv
    <2> QED BY <2>12, <2>15, <2>16, <2>17, <2>18, <2>19, <2>20 DEF GoogleInv
<1> QED BY <1>3, <1>4

LEMMA GoogleStep == GoogleInv /\ [GoogleNext]_googleVars => GoogleInv'
<1> SUFFICES ASSUME GoogleInv, [GoogleNext]_googleVars PROVE GoogleInv'
    OBVIOUS
<1>1. CASE UNCHANGED googleVars
    BY <1>1
       DEF googleVars, GoogleInv, GoogleTypes, FlowsAreSomeones, CookiesAreOwn, CodesAreSpentOnce,
           CallbackInv, PastExchange, GrantInv, PersonInv, ChoseIt, LinkedTo, IsActive, BeganIn
<1>2. ASSUME NEW d \in Devices, Start(d) \/ StartLink(d) \/ Unlink(d) PROVE GoogleInv'
    BY <1>2, StartKeepsGoogleInv, UnlinkKeepsGoogleInv
<1>3. ASSUME NEW f \in 1..Len(flows), Deny(f) \/ \E u \in Holders : Consent(f, u) PROVE GoogleInv'
    BY <1>3, GoogleKeepsGoogleInv
<1>4. ASSUME NEW r \in Callbacks,
             \/ \E d \in Devices, f \in 1..Len(flows) : Open(r, d, f)
             \/ Exchange(r) \/ Resolve(r) \/ Commit(r) \/ Answer(r) \/ Lost(r)
      PROVE  GoogleInv'
    BY <1>4, OpenKeepsGoogleInv, ExchangeKeepsGoogleInv, ResolveKeepsGoogleInv,
       CommitKeepsGoogleInv, AnswerKeepsGoogleInv
<1> QED BY <1>1, <1>2, <1>3, <1>4 DEF GoogleNext

(* GoogleSignInIsOurs for any number of browsers, people, flows and        *)
(* callbacks: a flow ends once and in the browser it began in, a link goes *)
(* to whoever asked, an account has one person, and nobody loses the last  *)
(* way to sign in (auth/google_oauth.py, auth/service.py).                 *)
THEOREM GoogleFlowsEndWhereTheyBegan == GoogleSpec => []GoogleSignInIsOurs
<1>1. ASSUME GoogleInv PROVE GoogleSignInIsOurs
    <2>1. \A i, j \in 1..Len(grants) : i # j => grants[i].flow # grants[j].flow
        BY <1>1 DEF GoogleInv, CodesAreSpentOnce
    <2>2. ASSUME NEW i \in 1..Len(grants)
          PROVE  /\ grants[i].device = flows[grants[i].flow].device
                 /\ flows[grants[i].flow].mode = "link" =>
                        grants[i].user = flows[grants[i].flow].user /\ sameOrigin
        BY <1>1 DEF GoogleInv, GrantInv, BeganIn
    <2>3. ASSUME NEW u \in Holders
          PROVE  /\ person[u].sub # Unknown =>
                       LinkedTo(person[u].sub) = {u} /\ (person[u].sub = u \/ ChoseIt(u))
                 /\ person[u].state # "none" => person[u].password \/ person[u].sub # Unknown
        BY <1>1 DEF GoogleInv, PersonInv
    <2>4. \A d \in Devices : session[d] # Unknown => person[session[d]].state = "active"
        BY <1>1 DEF GoogleInv, IsActive
    <2> QED BY <2>1, <2>2, <2>3, <2>4 DEF GoogleSignInIsOurs, ChoseIt
<1> QED BY <1>1, InitGoogleInv, GoogleStep, PTL DEF GoogleSpec

-----------------------------------------------------------------------------
(* The limits on attempts.                                                 *)

(* The attempts that a window admitted, and those of it that the shared    *)
(* store has kept                                                          *)
Window(end) == {n \in 1..end : Inside(end, n)}
Admitted(end) == SumOn(admitted, Window(end))
Marked(end) == SumOn(marks[Shared], Window(end))

(* Requests that were let into a window and have not been added, and those *)
(* that may yet be let into it                                             *)
AddingTo(end) == {t \in Tries : visit[t].at = "add" /\ visit[t].now \in Window(end)}
ComingTo(end) ==
    {t \in Tries : visit[t].at \in {"lock", "count", "connect"} /\ visit[t].now \in Window(end)}

(* As long as the shared store keeps a window's attempts, it misses only   *)
(* those in a process's memory and those being added.  Once a later        *)
(* request has trimmed them, only requests that began within the window    *)
(* can still be let into it, and the later one is not among them.          *)
Bound == MaxPerWindow + slips + Cardinality(Tries) - 1
WindowIsKept(end) ==
    Admitted(end) <= Marked(end) + slips /\ Admitted(end) + Cardinality(AddingTo(end)) <= Bound
WindowIsPast(end) ==
    /\ end < ticks
    /\ Admitted(end) + Cardinality(AddingTo(end)) + Cardinality(ComingTo(end))
          <= Bound + (Cardinality(Tries) - 1)
WindowInv(end) == WindowIsKept(end) \/ WindowIsPast(end)

(* Logins past the lockout, with a wrong password, and about to lock       *)
LoginsAt(places) == {t \in Tries : visit[t].at \in places}
Guessing == LoginsAt({"count", "add", "verify"})
Failing  == LoginsAt({"fail"})
Locking  == LoginsAt({"fail", "lockout"})

(* Every guess is in the shared count of failures, on its way there or in  *)
(* a process's memory.  Once the count locks, the guesses of this lockout  *)
(* are on their way to set it; while it is set, those past it remain.      *)
GuessInv ==
    LET F == failing[Shared].count  T == Cardinality(Tries) IN
    /\ F < MaxInARow => guesses <= F + Cardinality(Failing) + slips
    /\ F >= MaxInARow /\ lockout[Shared] = 0
          => guesses <= MaxInARow - 1 + T * unlocks + slips + Cardinality(Locking)
    /\ F >= MaxInARow /\ lockout[Shared] # 0
          => guesses + Cardinality(Guessing) <= MaxInARow - 1 + T * unlocks + T + slips

Visits ==
    [at : {"idle", "lock", "count", "connect", "add", "verify", "succeed", "fail", "lockout"},
     now : 0..MaxTicks, failures : Nat]

LimitsTypes ==
    /\ ticks \in 1..MaxTicks /\ slips \in Nat /\ guesses \in Nat /\ unlocks \in Nat
    /\ marks \in [LimitStores -> [1..MaxTicks -> Nat]]
    /\ failing \in [LimitStores -> [count : Nat, until : Nat]]
    /\ lockout \in [LimitStores -> Nat]
    /\ visit \in [Tries -> Visits]
    /\ admitted \in [1..MaxTicks -> Nat]

(* A request uses a time that has come, and a lockout lies ahead.          *)
TimesAreRight ==
    /\ \A t \in Tries : visit[t].at # "idle" => visit[t].now \in 1..ticks
    /\ \A s \in LimitStores : lockout[s] # 0 => ticks < lockout[s]

(* Where the requests of a limiter may be; only logins fail.               *)
Places ==
    CASE limiter = "login" -> {"idle", "lock", "count", "add", "verify", "succeed", "fail", "lockout"}
      [] limiter = "email" -> {"idle", "count", "add"}
      [] limiter = "connection" -> {"idle", "connect"}
PlacesAreRight ==
    /\ limiter \in Limiters
    /\ \A t \in Tries : visit[t].at \in Places
    /\ limiter # "login" => failing[Shared].count = 0

LimitsInv ==
    /\ LimitsTypes /\ TimesAreRight /\ PlacesAreRight /\ GuessInv
    /\ \A end \in 1..MaxTicks : WindowInv(end)

LEMMA Constants ==
    /\ MaxPerWindow \in Nat \ {0} /\ MaxInARow \in Nat \ {0} /\ WindowSeconds \in Nat \ {0}
    /\ MaxTicks \in Nat \ {0} /\ FailureTTL \in Nat
    /\ Cardinality(Tries) \in Nat \ {0} /\ IsFiniteSet(Tries)
  BY LimitsAssumption, FS_CardinalityType, FS_EmptySet

(* Counting requests: all of them, of two kinds, and when one moves        *)
LEMMA FewRequests ==
    ASSUME NEW A \in SUBSET Tries
    PROVE  IsFiniteSet(A) /\ Cardinality(A) \in 0..Cardinality(Tries)
<1>1. IsFiniteSet(A) /\ Cardinality(A) <= Cardinality(Tries)
  BY Constants, FS_Subset
<1>2. QED
  BY <1>1, Constants, FS_CardinalityType

LEMMA FewOfTwoKinds ==
    ASSUME NEW A \in SUBSET Tries, NEW B \in SUBSET Tries, A \cap B = {}
    PROVE  /\ Cardinality(A) + Cardinality(B) <= Cardinality(Tries)
           /\ \A t \in Tries : t \notin A \cup B
                 => Cardinality(A) + Cardinality(B) <= Cardinality(Tries) - 1
<1>1. IsFiniteSet(A) /\ IsFiniteSet(B) /\ Cardinality(A) \in Nat /\ Cardinality(B) \in Nat
  BY FewRequests
<1>2. Cardinality({}) = 0
  BY FS_EmptySet
<1>3. Cardinality(A \cup B) = Cardinality(A) + Cardinality(B)
  <2>1. Cardinality(A \cup B) = Cardinality(A) + Cardinality(B) - Cardinality(A \cap B)
    BY <1>1, FS_Union
  <2>2. Cardinality(A \cap B) = 0
    BY <1>2
  <2>3. QED
    BY <1>1, <2>1, <2>2
<1>4. Cardinality(A \cup B) <= Cardinality(Tries)
  BY FewRequests, Constants
<1>5. ASSUME NEW t \in Tries, t \notin A \cup B
      PROVE  Cardinality(A) + Cardinality(B) <= Cardinality(Tries) - 1
  <2>1. (A \cup B) \cup {t} \in SUBSET Tries
    OBVIOUS
  <2>2. Cardinality((A \cup B) \cup {t}) <= Cardinality(Tries)
    BY <2>1, FewRequests, Constants
  <2>3. IsFiniteSet(A \cup B)
    BY <1>1, FS_Union
  <2>4. Cardinality((A \cup B) \cup {t}) = Cardinality(A \cup B) + 1
    BY <1>5, <2>3, FS_AddElement
  <2>5. QED
    BY <1>1, <1>3, <2>2, <2>4, Constants
<1>6. QED
  BY <1>3, <1>4, <1>5

One(b) == IF b THEN 1 ELSE 0

LEMMA CountWhenOneMoves ==
    ASSUME NEW A \in SUBSET Tries, NEW B \in SUBSET Tries, NEW t \in Tries,
           \A x \in Tries \ {t} : x \in A <=> x \in B
    PROVE  Cardinality(B) + One(t \in A) = Cardinality(A) + One(t \in B)
<1>1. /\ IsFiniteSet(A) /\ IsFiniteSet(B) /\ Cardinality(A) \in Nat /\ Cardinality(B) \in Nat
      /\ A \ {t} = B \ {t}
  BY FewRequests
<1>2. Cardinality(A \ {t}) = IF t \in A THEN Cardinality(A) - 1 ELSE Cardinality(A)
  BY <1>1, FS_RemoveElement
<1>3. Cardinality(B \ {t}) = IF t \in B THEN Cardinality(B) - 1 ELSE Cardinality(B)
  BY <1>1, FS_RemoveElement
<1>4. Cardinality(A \ {t}) = Cardinality(B \ {t})
  BY <1>1
<1>5. t \in A => Cardinality(A) = Cardinality(B \ {t}) + 1
  BY <1>1, <1>2, <1>4
<1>6. QED
  BY <1>1, <1>2, <1>3, <1>4, <1>5 DEF One

(* What a step of one request does to the numbers of the invariant         *)
IsAdding(v, end) == v.at = "add" /\ v.now \in Window(end)
IsComing(v, end) == v.at \in {"lock", "count", "connect"} /\ v.now \in Window(end)

LEMMA WindowCounts ==
    ASSUME LimitsTypes, NEW t \in Tries, NEW v, visit' = [visit EXCEPT ![t] = v], NEW end
    PROVE  /\ Cardinality(AddingTo(end))' + One(IsAdding(visit[t], end))
                 = Cardinality(AddingTo(end)) + One(IsAdding(v, end))
           /\ Cardinality(ComingTo(end))' + One(IsComing(visit[t], end))
                 = Cardinality(ComingTo(end)) + One(IsComing(v, end))
<1>1. /\ AddingTo(end) \in SUBSET Tries /\ AddingTo(end)' \in SUBSET Tries
      /\ ComingTo(end) \in SUBSET Tries /\ ComingTo(end)' \in SUBSET Tries
  BY DEF AddingTo, ComingTo
<1>2. visit'[t] = v /\ \A x \in Tries \ {t} : visit'[x] = visit[x]
  BY DEF LimitsTypes
<1>3. /\ \A x \in Tries \ {t} : x \in AddingTo(end) <=> x \in AddingTo(end)'
      /\ t \in AddingTo(end) <=> IsAdding(visit[t], end)
      /\ t \in AddingTo(end)' <=> IsAdding(v, end)
  BY <1>2 DEF AddingTo, IsAdding, Window, Inside
<1>4. /\ \A x \in Tries \ {t} : x \in ComingTo(end) <=> x \in ComingTo(end)'
      /\ t \in ComingTo(end) <=> IsComing(visit[t], end)
      /\ t \in ComingTo(end)' <=> IsComing(v, end)
  BY <1>2 DEF ComingTo, IsComing, Window, Inside
<1>5. Cardinality(AddingTo(end)') + One(t \in AddingTo(end)) = Cardinality(AddingTo(end)) + One(t \in AddingTo(end)')
  BY <1>1, <1>3, CountWhenOneMoves
<1>6. Cardinality(ComingTo(end)') + One(t \in ComingTo(end)) = Cardinality(ComingTo(end)) + One(t \in ComingTo(end)')
  BY <1>1, <1>4, CountWhenOneMoves
<1>7. QED
  BY <1>3, <1>4, <1>5, <1>6 DEF One

LEMMA LoginCounts ==
    ASSUME LimitsTypes, NEW t \in Tries, NEW v, visit' = [visit EXCEPT ![t] = v], NEW places
    PROVE  Cardinality(LoginsAt(places))' + One(visit[t].at \in places)
              = Cardinality(LoginsAt(places)) + One(v.at \in places)
<1>1. LoginsAt(places) \in SUBSET Tries /\ LoginsAt(places)' \in SUBSET Tries
  BY DEF LoginsAt
<1>2. visit'[t] = v /\ \A x \in Tries \ {t} : visit'[x] = visit[x]
  BY DEF LimitsTypes
<1>3. /\ \A x \in Tries \ {t} : x \in LoginsAt(places) <=> x \in LoginsAt(places)'
      /\ t \in LoginsAt(places) <=> visit[t].at \in places
      /\ t \in LoginsAt(places)' <=> v.at \in places
  BY <1>2 DEF LoginsAt
<1>4. Cardinality(LoginsAt(places)') + One(t \in LoginsAt(places))
         = Cardinality(LoginsAt(places)) + One(t \in LoginsAt(places)')
  BY <1>1, <1>3, CountWhenOneMoves
<1>5. QED
  BY <1>3, <1>4 DEF One

(* Sums over the window that ends at some time                             *)
LEMMA WindowSums ==
    ASSUME NEW end \in 1..MaxTicks
    PROVE  /\ Window(end) \in SUBSET (1..MaxTicks) /\ IsFiniteSet(Window(end))
           /\ LimitsTypes => Admitted(end) \in Nat /\ Marked(end) \in Nat
<1>1. Window(end) \in SUBSET (1..MaxTicks)
  BY Constants DEF Window
<1>2. IsFiniteSet(1..MaxTicks)
  BY Constants, FS_Interval
<1>3. IsFiniteSet(Window(end))
  BY <1>1, <1>2, FS_Subset
<1>4. ASSUME LimitsTypes PROVE Admitted(end) \in Nat /\ Marked(end) \in Nat
  <2>1. \A n \in Window(end) : admitted[n] \in Nat /\ marks[Shared][n] \in Nat
    BY <1>1, <1>4 DEF LimitsTypes, LimitStores
  <2>2. QED
    BY <1>3, <2>1, SumIsNat DEF Admitted, Marked
<1>5. QED
  BY <1>1, <1>3, <1>4

LEMMA CountCoversWindow ==
    ASSUME LimitsTypes, NEW end \in 1..MaxTicks, NEW now \in 1..end
    PROVE  CountInWindow(Shared, now) \in Nat /\ Marked(end) <= CountInWindow(Shared, now)
<1> DEFINE W == {n \in 1..MaxTicks : Inside(now, n)}
<1>1. Window(end) \in SUBSET W
  BY Constants DEF Window, Inside
<1>2. IsFiniteSet(W)
  <2>1. IsFiniteSet(1..MaxTicks) /\ W \in SUBSET (1..MaxTicks)
    BY Constants, FS_Interval
  <2>2. QED
    BY <2>1, FS_Subset
<1>3. \A n \in W : marks[Shared][n] \in Nat
  BY DEF LimitsTypes, LimitStores
<1>4. CountInWindow(Shared, now) = SumOn(marks[Shared], W)
  BY DEF CountInWindow, SumOn
<1> HIDE DEF W
<1>5. QED
  BY <1>1, <1>2, <1>3, <1>4, SumIsNat, SumOfSubset DEF Marked

LEMMA OneMoreInWindow ==
    ASSUME NEW end \in 1..MaxTicks, NEW n \in 1..MaxTicks, NEW f, NEW g,
           \A m \in 1..MaxTicks : f[m] \in Nat,
           \A m \in Window(end) : g[m] = f[m] + One(m = n)
    PROVE  SumOn(g, Window(end)) = SumOn(f, Window(end)) + One(n \in Window(end))
<1>1. /\ IsFiniteSet(Window(end)) /\ Window(end) \in SUBSET (1..MaxTicks)
      /\ \A m \in Window(end) : f[m] \in Nat /\ g[m] \in Nat
  BY WindowSums DEF One
<1>2. SumOn(f, Window(end)) \in Nat /\ SumOn(g, Window(end)) \in Nat
  BY <1>1, SumIsNat
<1>3. CASE n \in Window(end)
  <2>1. \A m \in Window(end) \ {n} : f[m] = g[m]
    BY <1>1 DEF One
  <2>2. SumOn(g, Window(end)) + f[n] = SumOn(f, Window(end)) + g[n]
    BY <1>1, <1>3, <2>1, SumChange
  <2>3. f[n] \in Nat /\ g[n] = f[n] + 1 /\ One(n \in Window(end)) = 1
    BY <1>1, <1>3 DEF One
  <2>4. QED
    BY <1>2, <2>2, <2>3
<1>4. CASE n \notin Window(end)
  <2>1. \A m \in Window(end) : f[m] = g[m]
    BY <1>1, <1>4 DEF One
  <2>2. SumOn(g, Window(end)) = SumOn(f, Window(end))
    BY <1>1, <2>1, SumSame
  <2>3. QED
    BY <1>2, <1>4, <2>2 DEF One
<1>5. QED
  BY <1>3, <1>4

(* Attempts that are dropped at some time are older than a window that     *)
(* ends later.                                                             *)
LEMMA TrimKeepsWindow ==
    ASSUME LimitsTypes, NEW end \in 1..MaxTicks, NEW now \in 1..end, NEW s \in LimitStores
    PROVE  \A n \in Window(end) : Trimmed(s, now)[n] = marks[s][n]
  BY Constants DEF Window, Inside, Trimmed

LEMMA TrimmedType ==
    ASSUME LimitsTypes, NEW now, NEW s \in LimitStores
    PROVE  Trimmed(s, now) \in [1..MaxTicks -> Nat]
<1>1. \A n \in 1..MaxTicks : marks[s][n] \in Nat /\ 0 \in Nat
  BY DEF LimitsTypes
<1>2. \A n \in 1..MaxTicks : (IF Inside(now, n) THEN marks[s][n] ELSE 0) \in Nat
  BY <1>1
<1>3. QED
  BY <1>2, Zenon DEF Trimmed

-----------------------------------------------------------------------------
(* Steps of a request that admit nobody, and those that fail no login      *)

LEMMA Numbers ==
    ASSUME LimitsTypes, NEW end \in 1..MaxTicks
    PROVE  /\ Admitted(end) \in Nat /\ Marked(end) \in Nat
           /\ Cardinality(AddingTo(end)) \in Nat /\ Cardinality(ComingTo(end)) \in Nat
           /\ Cardinality(AddingTo(end)) <= Cardinality(Tries)
           /\ Bound \in Int /\ slips \in Nat /\ ticks \in Nat
<1>1. AddingTo(end) \in SUBSET Tries /\ ComingTo(end) \in SUBSET Tries
  BY DEF AddingTo, ComingTo
<1>2. /\ Cardinality(AddingTo(end)) \in 0..Cardinality(Tries)
      /\ Cardinality(ComingTo(end)) \in 0..Cardinality(Tries)
  BY <1>1, FewRequests
<1>3. Admitted(end) \in Nat /\ Marked(end) \in Nat
  BY WindowSums
<1>4. slips \in Nat /\ ticks \in Nat
  BY DEF LimitsTypes
<1>5. Bound \in Int
  BY <1>4, Constants DEF Bound
<1>6. QED
  BY <1>2, <1>3, <1>4, <1>5, Constants

QuietSlips == slips' = slips \/ slips' = slips + 1

LEMMA QuietWindow ==
    ASSUME LimitsTypes, NEW t \in Tries, NEW v, visit' = [visit EXCEPT ![t] = v],
           UNCHANGED <<ticks, marks, admitted>>, QuietSlips, v.at # "add",
           NEW end \in 1..MaxTicks, WindowInv(end),
           end < ticks /\ IsComing(v, end) => IsComing(visit[t], end)
    PROVE  WindowInv(end)'
<1>1. /\ Cardinality(AddingTo(end))' + One(IsAdding(visit[t], end))
            = Cardinality(AddingTo(end)) + One(IsAdding(v, end))
      /\ Cardinality(ComingTo(end))' + One(IsComing(visit[t], end))
            = Cardinality(ComingTo(end)) + One(IsComing(v, end))
  BY WindowCounts
<1>2. Admitted(end)' = Admitted(end) /\ Marked(end)' = Marked(end)
  BY DEF Admitted, Marked, Window, Inside, SumOn
<1>3. /\ Cardinality(AddingTo(end))' \in Nat /\ Cardinality(ComingTo(end))' \in Nat
  <2>1. AddingTo(end)' \in SUBSET Tries /\ ComingTo(end)' \in SUBSET Tries
    BY DEF AddingTo, ComingTo
  <2>2. QED
    BY <2>1, FewRequests
<1>4. /\ Cardinality(AddingTo(end))' <= Cardinality(AddingTo(end))
      /\ end < ticks => Cardinality(ComingTo(end))' <= Cardinality(ComingTo(end))
  BY <1>1, <1>3, Numbers DEF One, IsAdding
<1>5. Bound' = Bound \/ Bound' = Bound + 1
  BY Numbers, Constants DEF Bound, QuietSlips
<1>6. WindowIsKept(end) => WindowIsKept(end)'
  BY <1>2, <1>3, <1>4, <1>5, Numbers DEF WindowIsKept, QuietSlips
<1>7. WindowIsPast(end) => WindowIsPast(end)'
  BY <1>2, <1>3, <1>4, <1>5, Numbers, Constants DEF WindowIsPast, QuietSlips
<1>8. QED
  BY <1>6, <1>7 DEF WindowInv

LEMMA GuessNumbers ==
    ASSUME LimitsTypes
    PROVE  /\ \A places : Cardinality(LoginsAt(places)) \in 0..Cardinality(Tries)
           /\ failing[Shared].count \in Nat /\ lockout[Shared] \in Nat
           /\ guesses \in Nat /\ unlocks \in Nat /\ slips \in Nat
           /\ Cardinality(Tries) * unlocks \in Nat
<1>1. \A places : LoginsAt(places) \in SUBSET Tries
  BY DEF LoginsAt
<1>2. \A places : Cardinality(LoginsAt(places)) \in 0..Cardinality(Tries)
  BY <1>1, FewRequests
<1>3. /\ failing[Shared].count \in Nat /\ lockout[Shared] \in Nat
      /\ guesses \in Nat /\ unlocks \in Nat /\ slips \in Nat
  BY DEF LimitsTypes, LimitStores
<1>4. Cardinality(Tries) * unlocks \in Nat
  BY <1>3, Constants
<1>5. QED
  BY <1>2, <1>3, <1>4

LEMMA QuietGuess ==
    ASSUME LimitsTypes, NEW t \in Tries, NEW v, visit' = [visit EXCEPT ![t] = v],
           UNCHANGED accountLockVars, QuietSlips, GuessInv,
           v.at \notin {"fail", "lockout"}, visit[t].at \notin {"fail", "lockout"},
           failing[Shared].count >= MaxInARow /\ lockout[Shared] # 0
              => \/ v.at \notin {"count", "add", "verify"}
                 \/ visit[t].at \in {"count", "add", "verify"}
                 \/ slips' = slips + 1
    PROVE  GuessInv'
<1>1. /\ Cardinality(Guessing)' + One(visit[t].at \in {"count", "add", "verify"})
            = Cardinality(Guessing) + One(v.at \in {"count", "add", "verify"})
      /\ Cardinality(Failing)' + One(visit[t].at \in {"fail"}) = Cardinality(Failing) + One(v.at \in {"fail"})
      /\ Cardinality(Locking)' + One(visit[t].at \in {"fail", "lockout"})
            = Cardinality(Locking) + One(v.at \in {"fail", "lockout"})
  BY LoginCounts DEF Guessing, Failing, Locking
<1>2. /\ Cardinality(Guessing)' \in Nat /\ Cardinality(Failing)' \in Nat /\ Cardinality(Locking)' \in Nat
  <2>1. Guessing' \in SUBSET Tries /\ Failing' \in SUBSET Tries /\ Locking' \in SUBSET Tries
    BY DEF Guessing, Failing, Locking, LoginsAt
  <2>2. QED
    BY <2>1, FewRequests
<1>3. /\ Cardinality(Guessing) \in Nat /\ Cardinality(Failing) \in Nat /\ Cardinality(Locking) \in Nat
  BY GuessNumbers DEF Guessing, Failing, Locking
<1>4. Cardinality(Failing)' = Cardinality(Failing) /\ Cardinality(Locking)' = Cardinality(Locking)
  BY <1>1, <1>2, <1>3 DEF One
<1>5. failing[Shared].count >= MaxInARow /\ lockout[Shared] # 0
         => \/ Cardinality(Guessing)' <= Cardinality(Guessing)
            \/ Cardinality(Guessing)' <= Cardinality(Guessing) + 1 /\ slips' = slips + 1
  BY <1>1, <1>2, <1>3 DEF One
<1>6. UNCHANGED <<failing, lockout, guesses, unlocks>>
  BY DEF accountLockVars
<1> DEFINE P == Cardinality(Tries) * unlocks
<1>7. P \in Nat /\ P' = P
  BY <1>6, GuessNumbers
<1> HIDE DEF P
<1>8. failing[Shared].count < MaxInARow => guesses <= failing[Shared].count + Cardinality(Failing) + slips
  BY DEF GuessInv
<1>9. failing[Shared].count >= MaxInARow /\ lockout[Shared] = 0
         => guesses <= MaxInARow - 1 + P + slips + Cardinality(Locking)
  BY DEF GuessInv, P
<1>10. failing[Shared].count >= MaxInARow /\ lockout[Shared] # 0
         => guesses + Cardinality(Guessing) <= MaxInARow - 1 + P + Cardinality(Tries) + slips
  BY DEF GuessInv, P
<1>11. (failing[Shared].count < MaxInARow
         => guesses <= failing[Shared].count + Cardinality(Failing) + slips)'
  BY <1>4, <1>6, <1>8, <1>3, GuessNumbers DEF QuietSlips
<1>12. (failing[Shared].count >= MaxInARow /\ lockout[Shared] = 0
         => guesses <= MaxInARow - 1 + P + slips + Cardinality(Locking))'
  BY <1>4, <1>6, <1>7, <1>9, <1>3, GuessNumbers, Constants DEF QuietSlips
<1>13. (failing[Shared].count >= MaxInARow /\ lockout[Shared] # 0
         => guesses + Cardinality(Guessing) <= MaxInARow - 1 + P + Cardinality(Tries) + slips)'
  BY <1>2, <1>3, <1>5, <1>6, <1>7, <1>10, GuessNumbers, Constants DEF QuietSlips
<1>14. QED
  BY <1>11, <1>12, <1>13 DEF GuessInv, P

-----------------------------------------------------------------------------
(* The steps of a request                                                  *)

RightVisit(v) == v \in Visits /\ v.at \in Places /\ (v.at # "idle" => v.now \in 1..ticks)

LEMMA VisitTypes ==
    ASSUME LimitsInv, NEW t \in Tries, NEW v, RightVisit(v), visit' = [visit EXCEPT ![t] = v],
           UNCHANGED <<limiter, ticks>>
    PROVE  /\ visit' \in [Tries -> Visits]
           /\ \A x \in Tries : visit'[x].at \in Places'
           /\ \A x \in Tries : visit'[x].at # "idle" => visit'[x].now \in 1..ticks'
<1>1. visit \in [Tries -> Visits]
  BY DEF LimitsInv, LimitsTypes
<1>2. visit' \in [Tries -> Visits] /\ visit'[t] = v /\ \A x \in Tries \ {t} : visit'[x] = visit[x]
  BY <1>1 DEF RightVisit
<1>3. Places' = Places
  BY DEF Places
<1>4. ASSUME NEW x \in Tries
      PROVE  visit'[x].at \in Places' /\ (visit'[x].at # "idle" => visit'[x].now \in 1..ticks')
  <2>1. CASE x = t
    BY <1>2, <1>3, <2>1 DEF RightVisit
  <2>2. CASE x # t
    BY <1>2, <1>3, <2>2 DEF LimitsInv, TimesAreRight, PlacesAreRight
  <2>3. QED
    BY <2>1, <2>2
<1>5. QED
  BY <1>2, <1>4

LEMMA RightVisits ==
    ASSUME LimitsInv, NEW t \in Tries
    PROVE  /\ RightVisit(NoTry) /\ NoTry.at = "idle" /\ RightVisit(visit[t])
           /\ limiter \in Limiters
<1>1. RightVisit(visit[t])
  BY DEF LimitsInv, LimitsTypes, TimesAreRight, PlacesAreRight, RightVisit
<1>2. limiter \in Limiters
  BY DEF LimitsInv, PlacesAreRight
<1>3. NoTry \in Visits
  BY Constants DEF NoTry, Visits
<1>4. NoTry.at = "idle"
  BY DEF NoTry
<1>5. "idle" \in Places
  BY <1>2 DEF Places, Limiters
<1>6. QED
  BY <1>1, <1>2, <1>3, <1>4, <1>5 DEF RightVisit

(* A visit that goes on at another place                                   *)
LEMMA GoesOn ==
    ASSUME LimitsInv, NEW t \in Tries, NEW place,
           place \in Places, visit[t].at # "idle"
    PROVE  /\ RightVisit([visit[t] EXCEPT !.at = place])
           /\ [visit[t] EXCEPT !.at = place].at = place
           /\ [visit[t] EXCEPT !.at = place].now = visit[t].now
<1>1. RightVisit(visit[t]) /\ limiter \in Limiters
  BY RightVisits
<1>2. Places \subseteq {"idle", "lock", "count", "connect", "add", "verify", "succeed", "fail", "lockout"}
  BY <1>1 DEF Places, Limiters
<1>3. [visit[t] EXCEPT !.at = place] \in Visits
  BY <1>1, <1>2 DEF Visits, RightVisit
<1>4. /\ [visit[t] EXCEPT !.at = place].at = place
      /\ [visit[t] EXCEPT !.at = place].now = visit[t].now
  BY <1>1 DEF Visits, RightVisit
<1>5. QED
  BY <1>1, <1>3, <1>4 DEF RightVisit

(* A step that leaves the stores of failures as they are                   *)
LEMMA AccountsUnchanged ==
    ASSUME LimitsInv, UNCHANGED <<limiter, ticks, accountLockVars>>
    PROVE  /\ ticks' \in 1..MaxTicks /\ guesses' \in Nat /\ unlocks' \in Nat
           /\ failing' \in [LimitStores -> [count : Nat, until : Nat]]
           /\ lockout' \in [LimitStores -> Nat]
           /\ \A s \in LimitStores : lockout'[s] # 0 => ticks' < lockout'[s]
           /\ limiter' \in Limiters /\ (limiter' # "login" => failing'[Shared].count = 0)
  BY DEF LimitsInv, LimitsTypes, TimesAreRight, PlacesAreRight, accountLockVars

LEMMA AskSlips ==
    ASSUME LimitsTypes, NEW s \in LimitStores, Ask(s)
    PROVE  QuietSlips /\ slips' \in Nat /\ (s # Shared => slips' = slips + 1)
  BY DEF Ask, QuietSlips, LimitsTypes, LimitStores

LEMMA ArriveKeepsLimitsInv ==
    ASSUME LimitsInv, NEW t \in Tries, Arrive(t)
    PROVE  LimitsInv'
<1> DEFINE place == CASE limiter = "login" -> "lock" [] limiter = "email" -> "count" [] limiter = "connection" -> "connect"
           v == [NoTry EXCEPT !.now = ticks, !.at = place]
<1>1. /\ visit[t] = NoTry /\ visit' = [visit EXCEPT ![t] = v]
      /\ UNCHANGED <<limiter, ticks, marks, admitted, accountLockVars, slips>>
  BY DEF Arrive, windowVars
<1>2. limiter \in Limiters /\ ticks \in 1..MaxTicks
  BY DEF LimitsInv, LimitsTypes, PlacesAreRight
<1>3. place \in Places /\ place \in {"lock", "count", "connect"} /\ (limiter = "login" => place = "lock")
  BY <1>2 DEF Places, Limiters
<1> HIDE DEF place
<1>4. /\ v.at = place /\ v.now = ticks /\ v.failures = 0
      /\ v \in [at : {place}, now : {ticks}, failures : {0}]
  <2>1. NoTry \in [at : {"idle"}, now : {0}, failures : {0}]
    BY DEF NoTry
  <2>2. QED
    BY <2>1
<1>5. v.at = place /\ v.now = ticks /\ v \in Visits /\ v.at # "idle" /\ v.at \in Places
  <2>1. ticks \in 0..MaxTicks /\ 0 \in Nat
    BY <1>2, Constants
  <2>2. v \in Visits
    BY <1>3, <1>4, <2>1 DEF Visits
  <2>3. QED
    BY <1>3, <1>4, <2>2
<1> HIDE DEF v
<1>6. RightVisit(v)
  BY <1>2, <1>5 DEF RightVisit
<1>7. LimitsTypes' /\ TimesAreRight' /\ PlacesAreRight'
  BY <1>1, <1>6, VisitTypes, AccountsUnchanged
  DEF LimitsInv, LimitsTypes, TimesAreRight, PlacesAreRight
<1>8. GuessInv'
  <2>1. visit[t].at = "idle"
    BY <1>1 DEF NoTry
  <2>2. failing[Shared].count >= MaxInARow => v.at \notin {"count", "add", "verify"}
    BY <1>3, <1>5, Constants DEF LimitsInv, PlacesAreRight
  <2>3. QED
    BY <1>1, <1>3, <1>5, <2>1, <2>2, QuietGuess DEF LimitsInv, QuietSlips
<1>9. ASSUME NEW end \in 1..MaxTicks PROVE WindowInv(end)'
  <2>1. ~(end < ticks /\ IsComing(v, end))
    BY <1>2, <1>5 DEF IsComing, Window
  <2>2. QED
    BY <1>1, <1>3, <1>5, <2>1, QuietWindow DEF LimitsInv, QuietSlips
<1>10. QED
  BY <1>7, <1>8, <1>9, Zenon DEF LimitsInv

LEMMA GetLockoutKeepsLimitsInv ==
    ASSUME LimitsInv, NEW t \in Tries, NEW s \in LimitStores, GetLockout(t, s)
    PROVE  LimitsInv'
<1> DEFINE w == [visit[t] EXCEPT !.at = "count"]
           v == IF lockout[s] > visit[t].now THEN NoTry ELSE w
<1>1. /\ visit[t].at = "lock" /\ visit' = [visit EXCEPT ![t] = v] /\ Ask(s)
      /\ UNCHANGED <<limiter, ticks, marks, admitted, accountLockVars>>
  BY DEF GetLockout, windowVars
<1>2. RightVisit(visit[t]) /\ RightVisit(NoTry) /\ NoTry.at = "idle" /\ limiter \in Limiters
  BY RightVisits
<1>3. limiter = "login" /\ "count" \in Places
  BY <1>1, <1>2 DEF RightVisit, Places, Limiters
<1>4. RightVisit(w) /\ w.at = "count" /\ w.now = visit[t].now
  BY <1>1, <1>3, GoesOn
<1>5. RightVisit(v) /\ v.at \in {"idle", "count"} /\ (v.at = "count" => v = w)
  BY <1>2, <1>4
<1>6. QuietSlips /\ slips' \in Nat /\ (s # Shared => slips' = slips + 1)
  BY <1>1, AskSlips DEF LimitsInv
<1>7. lockout[Shared] # 0 /\ s = Shared => v = NoTry
  <2>1. visit[t].now \in 1..ticks /\ ticks \in Nat
    BY <1>1, <1>2 DEF RightVisit, LimitsInv, LimitsTypes
  <2>2. lockout[Shared] # 0 => ticks < lockout[Shared]
    BY DEF LimitsInv, TimesAreRight, LimitStores
  <2>3. lockout[Shared] \in Nat
    BY GuessNumbers DEF LimitsInv
  <2>4. QED
    BY <2>1, <2>2, <2>3
<1> HIDE DEF v, w
<1>8. LimitsTypes' /\ TimesAreRight' /\ PlacesAreRight'
  BY <1>1, <1>5, <1>6, VisitTypes, AccountsUnchanged
  DEF LimitsInv, LimitsTypes, TimesAreRight, PlacesAreRight
<1>9. GuessInv'
  BY <1>1, <1>2, <1>5, <1>6, <1>7, QuietGuess DEF LimitsInv
<1>10. ASSUME NEW end \in 1..MaxTicks PROVE WindowInv(end)'
  <2>1. IsComing(v, end) => IsComing(visit[t], end)
    BY <1>1, <1>4, <1>5 DEF IsComing
  <2>2. QED
    BY <1>1, <1>5, <1>6, <2>1, QuietWindow DEF LimitsInv
<1>11. QED
  BY <1>8, <1>9, <1>10, Zenon DEF LimitsInv

(* What a step of one request does to the numbers of a window              *)
LEMMA NextNumbers ==
    ASSUME LimitsTypes, NEW t \in Tries, NEW v, visit' = [visit EXCEPT ![t] = v],
           NEW end \in 1..MaxTicks
    PROVE  /\ Cardinality(AddingTo(end))' \in 0..Cardinality(Tries)
           /\ Cardinality(ComingTo(end))' \in 0..Cardinality(Tries)
           /\ Cardinality(AddingTo(end))' + One(IsAdding(visit[t], end))
                 = Cardinality(AddingTo(end)) + One(IsAdding(v, end))
           /\ Cardinality(ComingTo(end))' + One(IsComing(visit[t], end))
                 = Cardinality(ComingTo(end)) + One(IsComing(v, end))
           /\ ~IsAdding(v, end) /\ ~IsComing(v, end)
                 => Cardinality(AddingTo(end))' + Cardinality(ComingTo(end))' <= Cardinality(Tries) - 1
<1>1. AddingTo(end)' \in SUBSET Tries /\ ComingTo(end)' \in SUBSET Tries
      /\ AddingTo(end)' \cap ComingTo(end)' = {}
  BY DEF AddingTo, ComingTo
<1>2. visit'[t] = v
  BY DEF LimitsTypes
<1>3. ~IsAdding(v, end) /\ ~IsComing(v, end) => t \notin AddingTo(end)' \cup ComingTo(end)'
  BY <1>2 DEF AddingTo, ComingTo, IsAdding, IsComing, Window, Inside
<1>4. ~IsAdding(v, end) /\ ~IsComing(v, end)
         => Cardinality(AddingTo(end)') + Cardinality(ComingTo(end)') <= Cardinality(Tries) - 1
  BY <1>1, <1>3, FewOfTwoKinds
<1>5. /\ Cardinality(AddingTo(end)') \in 0..Cardinality(Tries)
      /\ Cardinality(ComingTo(end)') \in 0..Cardinality(Tries)
  BY <1>1, FewRequests
<1>6. /\ Cardinality(AddingTo(end)') + One(IsAdding(visit[t], end))
           = Cardinality(AddingTo(end)) + One(IsAdding(v, end))
      /\ Cardinality(ComingTo(end)') + One(IsComing(visit[t], end))
           = Cardinality(ComingTo(end)) + One(IsComing(v, end))
  BY WindowCounts
<1>7. QED
  BY <1>4, <1>5, <1>6

LEMMA NextBound ==
    ASSUME LimitsTypes, QuietSlips
    PROVE  Bound' = Bound + (slips' - slips) /\ slips' - slips \in 0..1
<1>1. slips \in Nat
  BY DEF LimitsTypes
<1>2. QED
  BY <1>1, Constants DEF Bound, QuietSlips

LEMMA CountKeepsLimitsInv ==
    ASSUME LimitsInv, NEW t \in Tries, NEW s \in LimitStores, CountAttempts(t, s)
    PROVE  LimitsInv'
<1> DEFINE now == visit[t].now
           full == CountInWindow(s, now) >= MaxPerWindow
           w == [visit[t] EXCEPT !.at = "add"]
           v == IF full THEN NoTry ELSE w
<1>1. /\ visit[t].at = "count" /\ visit' = [visit EXCEPT ![t] = v] /\ Ask(s)
      /\ marks' = [marks EXCEPT ![s] = Trimmed(s, now)]
      /\ UNCHANGED <<limiter, ticks, admitted, accountLockVars>>
  BY DEF CountAttempts
<1>2. RightVisit(visit[t]) /\ RightVisit(NoTry) /\ NoTry.at = "idle" /\ limiter \in Limiters
  BY RightVisits
<1>3. "add" \in Places
  BY <1>1, <1>2 DEF RightVisit, Places, Limiters
<1>4. RightVisit(w) /\ w.at = "add" /\ w.now = now
  BY <1>1, <1>3, GoesOn
<1>5. RightVisit(v) /\ (full => v.at = "idle") /\ (~full => v.at = "add" /\ v.now = now)
  BY <1>2, <1>4
<1>6. QuietSlips /\ slips' \in Nat /\ (s # Shared => slips' = slips + 1)
  BY <1>1, AskSlips DEF LimitsInv
<1>7. now \in 1..ticks /\ ticks \in Nat
  BY <1>1, <1>2 DEF RightVisit, LimitsInv, LimitsTypes
<1>8. marks' \in [LimitStores -> [1..MaxTicks -> Nat]]
  <2>1. Trimmed(s, now) \in [1..MaxTicks -> Nat]
    BY TrimmedType DEF LimitsInv
  <2>2. marks \in [LimitStores -> [1..MaxTicks -> Nat]]
    BY DEF LimitsInv, LimitsTypes
  <2> HIDE DEF now
  <2>3. QED
    BY <1>1, <2>1, <2>2
<1>9. s # Shared => marks'[Shared] = marks[Shared]
  BY <1>1 DEF LimitsInv, LimitsTypes, LimitStores
<1>10. s = Shared => marks'[Shared] = Trimmed(Shared, now)
  BY <1>1 DEF LimitsInv, LimitsTypes, LimitStores
<1> HIDE DEF v, w, full, now
<1>11. LimitsTypes' /\ TimesAreRight' /\ PlacesAreRight'
  <2>1. admitted' \in [1..MaxTicks -> Nat]
    BY <1>1 DEF LimitsInv, LimitsTypes
  <2>2. QED
    BY <1>1, <1>5, <1>6, <1>8, <2>1, VisitTypes, AccountsUnchanged
    DEF LimitsTypes, TimesAreRight, PlacesAreRight
<1>12. GuessInv'
  BY <1>1, <1>5, <1>6, QuietGuess DEF LimitsInv
<1>13. ASSUME NEW end \in 1..MaxTicks PROVE WindowInv(end)'
  <2> DEFINE a == Cardinality(AddingTo(end))  a2 == Cardinality(AddingTo(end))'
             c == Cardinality(ComingTo(end))  c2 == Cardinality(ComingTo(end))'
  <2>1. LimitsTypes /\ WindowInv(end)
    BY DEF LimitsInv
  <2>2. /\ a2 \in 0..Cardinality(Tries) /\ c2 \in 0..Cardinality(Tries)
        /\ a2 + One(IsAdding(visit[t], end)) = a + One(IsAdding(v, end))
        /\ c2 + One(IsComing(visit[t], end)) = c + One(IsComing(v, end))
        /\ ~IsAdding(v, end) /\ ~IsComing(v, end) => a2 + c2 <= Cardinality(Tries) - 1
    BY <1>1, <2>1, NextNumbers
  <2>3. /\ Admitted(end) \in Nat /\ Marked(end) \in Nat /\ a \in Nat /\ c \in Nat
        /\ Bound \in Int /\ slips \in Nat
    BY <2>1, Numbers
  <2>4. Bound' = Bound + (slips' - slips) /\ slips' - slips \in 0..1
    BY <1>6, <2>1, NextBound
  <2>5. Admitted(end)' = Admitted(end)
    BY <1>1 DEF Admitted, Window, Inside, SumOn
  <2>6. ~IsAdding(visit[t], end) /\ ~IsComing(v, end)
        /\ (IsAdding(v, end) <=> ~full /\ IsComing(visit[t], end))
    BY <1>1, <1>5 DEF IsAdding, IsComing, now
  <2>7. a2 + c2 <= a + c /\ a2 <= a + 1 /\ (full => a2 = a)
    BY <2>2, <2>3, <2>6 DEF One
  <2> HIDE DEF a, a2, c, c2
  <2>8. WindowIsPast(end) => WindowIsPast(end)'
    <3>1. WindowIsPast(end) => Admitted(end)' + a2 + c2 <= Bound' + (Cardinality(Tries) - 1)
      BY <2>2, <2>3, <2>4, <2>5, <2>7, Constants DEF WindowIsPast, a, c
    <3>2. WindowIsPast(end) => end < ticks'
      BY <1>1 DEF WindowIsPast
    <3>3. QED
      BY <3>1, <3>2 DEF WindowIsPast, a2, c2
  <2>9. CASE WindowIsKept(end) /\ s # Shared
    <3>1. Marked(end)' = Marked(end)
      BY <1>9, <2>9 DEF Marked, Window, Inside, SumOn
    <3>2. Admitted(end)' <= Marked(end)' + slips' /\ Admitted(end)' + a2 <= Bound'
      BY <1>6, <2>2, <2>3, <2>4, <2>5, <2>7, <2>9, <3>1 DEF WindowIsKept, a
    <3>3. QED
      BY <3>2 DEF WindowIsKept, WindowInv, a2
  <2>10. CASE WindowIsKept(end) /\ s = Shared /\ now <= end
    <3>1. now \in 1..end
      BY <1>7, <2>10
    <3>2. \A n \in Window(end) : marks'[Shared][n] = marks[Shared][n]
      BY <1>10, <2>1, <2>10, <3>1, TrimKeepsWindow DEF LimitStores
    <3>3. SumOn(marks'[Shared], Window(end)) = SumOn(marks[Shared], Window(end))
      BY <3>2, WindowSums, SumSame
    <3>4. Marked(end)' = Marked(end)
      BY <3>3 DEF Marked, Window, Inside, SumOn
    <3>5. ~full => Marked(end) <= MaxPerWindow - 1
      <4>1. CountInWindow(Shared, now) \in Nat /\ Marked(end) <= CountInWindow(Shared, now)
        BY <2>1, <3>1, CountCoversWindow
      <4>2. QED
        BY <2>3, <2>10, <4>1, Constants DEF full
    <3>6. Admitted(end)' <= Marked(end)' + slips'
      BY <1>6, <2>3, <2>5, <2>10, <3>4 DEF WindowIsKept, QuietSlips
    <3>7. Admitted(end)' + a2 <= Bound'
      <4>1. CASE full
        BY <2>2, <2>3, <2>4, <2>5, <2>7, <2>10, <4>1 DEF WindowIsKept, a
      <4>2. CASE ~full
        <5>1. Admitted(end) <= MaxPerWindow - 1 + slips
          BY <2>3, <2>10, <3>5, <4>2, Constants DEF WindowIsKept
        <5>2. QED
          BY <2>2, <2>3, <2>4, <2>5, <5>1, Constants DEF Bound
      <4>3. QED
        BY <4>1, <4>2
    <3>8. QED
      BY <3>6, <3>7 DEF WindowIsKept, WindowInv, a2
  <2>11. CASE WindowIsKept(end) /\ ~(now <= end)
    <3>1. ~IsAdding(v, end)
      BY <1>5, <1>7, <2>11 DEF IsAdding, Window
    <3>2. a2 + c2 <= Cardinality(Tries) - 1 /\ a2 <= a
      BY <2>2, <2>3, <2>6, <3>1 DEF One, a, a2
    <3>3. Admitted(end)' + a2 + c2 <= Bound' + (Cardinality(Tries) - 1)
      BY <2>2, <2>3, <2>4, <2>5, <2>11, <3>2, Constants DEF WindowIsKept, a
    <3>4. end < ticks'
      BY <1>1, <1>7, <2>11
    <3>5. QED
      BY <3>3, <3>4 DEF WindowIsPast, WindowInv, a2, c2
  <2>12. QED
    BY <2>1, <2>8, <2>9, <2>10, <2>11 DEF WindowInv
<1>14. QED
  BY <1>11, <1>12, <1>13, Zenon DEF LimitsInv

LEMMA AdmittedNext ==
    ASSUME LimitsTypes, NEW n \in 1..MaxTicks, NEW b \in {0, 1}, NEW end \in 1..MaxTicks,
           admitted' = [admitted EXCEPT ![n] = @ + b]
    PROVE  /\ Admitted(end)' \in Nat
           /\ b = 1 => Admitted(end)' = Admitted(end) + One(n \in Window(end))
           /\ b = 0 => Admitted(end)' = Admitted(end)
<1>1. /\ admitted \in [1..MaxTicks -> Nat] /\ admitted' \in [1..MaxTicks -> Nat]
      /\ \A m \in 1..MaxTicks : admitted'[m] = admitted[m] + (IF m = n THEN b ELSE 0)
  <2>1. admitted \in [1..MaxTicks -> Nat] /\ b \in Nat
    BY DEF LimitsTypes
  <2>2. admitted[n] + b \in Nat
    BY <2>1
  <2>3. admitted' \in [1..MaxTicks -> Nat]
    BY <2>1, <2>2
  <2>4. \A m \in 1..MaxTicks : admitted'[m] = IF m = n THEN admitted[n] + b ELSE admitted[m]
    BY <2>1
  <2>5. QED
    BY <2>1, <2>3, <2>4
<1>2. Admitted(end)' = SumOn(admitted', Window(end)) /\ Admitted(end) \in Nat
  BY WindowSums DEF Admitted, Window, Inside, SumOn
<1>3. Window(end) \in SUBSET (1..MaxTicks) /\ IsFiniteSet(Window(end))
  BY WindowSums
<1>4. ASSUME b = 1 PROVE Admitted(end)' = Admitted(end) + One(n \in Window(end))
  <2>1. \A m \in Window(end) : admitted'[m] = admitted[m] + One(m = n)
    BY <1>1, <1>3, <1>4 DEF One
  <2>2. \A m \in 1..MaxTicks : admitted[m] \in Nat
    BY <1>1
  <2>3. SumOn(admitted', Window(end)) = SumOn(admitted, Window(end)) + One(n \in Window(end))
    BY <2>1, <2>2, OneMoreInWindow
  <2>4. QED
    BY <1>2, <2>3 DEF Admitted
<1>5. ASSUME b = 0 PROVE Admitted(end)' = Admitted(end)
  <2>1. \A m \in Window(end) : admitted'[m] = admitted[m]
    BY <1>1, <1>3, <1>5
  <2>2. SumOn(admitted', Window(end)) = SumOn(admitted, Window(end))
    BY <1>3, <2>1, SumSame
  <2>3. QED
    BY <1>2, <2>2 DEF Admitted
<1>6. QED
  BY <1>2, <1>4, <1>5 DEF One

LEMMA MarkedNext ==
    ASSUME LimitsTypes, NEW n \in 1..MaxTicks, NEW s \in LimitStores, NEW end \in 1..MaxTicks,
           marks' \in [LimitStores -> [1..MaxTicks -> Nat]],
           \A r \in LimitStores \ {s} : marks'[r] = marks[r]
    PROVE  /\ Marked(end)' \in Nat
           /\ s # Shared => Marked(end)' = Marked(end)
           /\ (\A m \in Window(end) : marks'[s][m] = marks[s][m] + One(m = n)) /\ s = Shared
                 => Marked(end)' = Marked(end) + One(n \in Window(end))
           /\ (\A m \in Window(end) : marks[s][m] <= marks'[s][m]) /\ s = Shared
                 => Marked(end) <= Marked(end)'
<1>1. Marked(end)' = SumOn(marks'[Shared], Window(end)) /\ Marked(end) = SumOn(marks[Shared], Window(end))
  BY DEF Marked, Window, Inside, SumOn
<1>2. Window(end) \in SUBSET (1..MaxTicks) /\ IsFiniteSet(Window(end))
  BY WindowSums
<1>3. \A m \in 1..MaxTicks : marks[Shared][m] \in Nat /\ marks'[Shared][m] \in Nat
  BY DEF LimitsTypes, LimitStores
<1>4. Marked(end)' \in Nat
  BY <1>1, <1>2, <1>3, SumIsNat
<1>5. s # Shared => Marked(end)' = Marked(end)
  BY <1>1 DEF LimitStores
<1>6. ASSUME \A m \in Window(end) : marks'[s][m] = marks[s][m] + One(m = n), s = Shared
      PROVE  Marked(end)' = Marked(end) + One(n \in Window(end))
  <2> DEFINE f == marks[Shared]  g == marks'[Shared]
  <2>1. /\ \A m \in 1..MaxTicks : f[m] \in Nat
        /\ \A m \in Window(end) : g[m] = f[m] + One(m = n)
    BY <1>3, <1>6
  <2> HIDE DEF f, g
  <2>2. SumOn(g, Window(end)) = SumOn(f, Window(end)) + One(n \in Window(end))
    BY <2>1, OneMoreInWindow
  <2>3. QED
    BY <1>1, <2>2 DEF f, g
<1>7. ASSUME \A m \in Window(end) : marks[s][m] <= marks'[s][m], s = Shared
      PROVE  Marked(end) <= Marked(end)'
  <2>1. \A m \in Window(end) : /\ marks[Shared][m] \in Nat /\ marks'[Shared][m] \in Nat
                               /\ marks[Shared][m] <= marks'[Shared][m]
    BY <1>2, <1>3, <1>7
  <2>2. SumOn(marks[Shared], Window(end)) <= SumOn(marks'[Shared], Window(end))
    BY <1>2, <2>1, SumNoMore
  <2>3. QED
    BY <1>1, <2>2
<1>8. QED
  BY <1>4, <1>5, <1>6, <1>7

LEMMA AddKeepsLimitsInv ==
    ASSUME LimitsInv, NEW t \in Tries, NEW s \in LimitStores, AddAttempt(t, s)
    PROVE  LimitsInv'
<1> DEFINE now == visit[t].now
           w == [visit[t] EXCEPT !.at = "verify"]
           v == IF limiter = "email" THEN NoTry ELSE w
<1>1. /\ visit[t].at = "add" /\ visit' = [visit EXCEPT ![t] = v] /\ Ask(s)
      /\ marks' = [marks EXCEPT ![s][now] = @ + 1]
      /\ admitted' = [admitted EXCEPT ![now] = @ + 1]
      /\ UNCHANGED <<limiter, ticks, accountLockVars>>
  BY DEF AddAttempt, Added, Admit
<1>2. RightVisit(visit[t]) /\ RightVisit(NoTry) /\ NoTry.at = "idle" /\ limiter \in Limiters
  BY RightVisits
<1>3. limiter # "email" => "verify" \in Places
  BY <1>1, <1>2 DEF RightVisit, Places, Limiters
<1>4. limiter # "email" => RightVisit(w) /\ w.at = "verify"
  BY <1>1, <1>3, GoesOn
<1>5. RightVisit(v) /\ v.at \in {"idle", "verify"}
  BY <1>2, <1>4
<1>6. QuietSlips /\ slips' \in Nat /\ (s # Shared => slips' = slips + 1)
  BY <1>1, AskSlips DEF LimitsInv
<1>7. now \in 1..ticks /\ now \in 1..MaxTicks /\ ticks \in Nat
  <2>1. visit[t].at # "idle" /\ visit[t].now \in 1..ticks
    BY <1>1, <1>2 DEF RightVisit
  <2>2. ticks \in 1..MaxTicks /\ MaxTicks \in Nat
    BY Constants DEF LimitsInv, LimitsTypes
  <2>3. QED
    BY <2>1, <2>2
<1> HIDE DEF v, w, now
<1>8. /\ marks' \in [LimitStores -> [1..MaxTicks -> Nat]]
      /\ \A r \in LimitStores \ {s} : marks'[r] = marks[r]
      /\ \A m \in 1..MaxTicks : marks'[s][m] = marks[s][m] + One(m = now)
  <2>1. marks \in [LimitStores -> [1..MaxTicks -> Nat]]
    BY DEF LimitsInv, LimitsTypes
  <2>2. /\ \A r \in LimitStores \ {s} : marks'[r] = marks[r]
        /\ marks'[s] = [marks[s] EXCEPT ![now] = @ + 1]
    BY <1>1, <2>1
  <2>3. marks[s] \in [1..MaxTicks -> Nat]
    BY <2>1
  <2>4. /\ [marks[s] EXCEPT ![now] = @ + 1] \in [1..MaxTicks -> Nat]
        /\ \A m \in 1..MaxTicks : [marks[s] EXCEPT ![now] = @ + 1][m] = marks[s][m] + One(m = now)
    <3> DEFINE f == marks[s]  g == [f EXCEPT ![now] = @ + 1]
    <3>0. f \in [1..MaxTicks -> Nat]
      BY <2>3
    <3> HIDE DEF f
    <3>1. f \in [1..MaxTicks -> Nat] /\ f[now] \in Nat /\ f[now] + 1 \in Nat
      BY <1>7, <3>0
    <3>2. g \in [1..MaxTicks -> Nat]
      BY <1>7, <3>1
    <3>3. \A m \in 1..MaxTicks : g[m] = IF m = now THEN f[now] + 1 ELSE f[m]
      BY <1>7, <3>1
    <3> HIDE DEF g
    <3>4. \A m \in 1..MaxTicks : g[m] = f[m] + One(m = now)
      BY <3>1, <3>3 DEF One
    <3>5. QED
      BY <3>2, <3>4 DEF f, g
  <2>5. marks' = [r \in LimitStores |-> marks'[r]]
    BY <1>1, <2>1
  <2>6. \A r \in LimitStores : marks'[r] \in [1..MaxTicks -> Nat]
    BY <2>1, <2>2, <2>4
  <2>7. QED
    BY <2>2, <2>4, <2>5, <2>6
<1>9. admitted' \in [1..MaxTicks -> Nat]
  <2>1. admitted \in [1..MaxTicks -> Nat]
    BY DEF LimitsInv, LimitsTypes
  <2>2. admitted[now] + 1 \in Nat
    BY <1>7, <2>1
  <2>3. QED
    BY <1>1, <2>1, <2>2
<1>10. LimitsTypes' /\ TimesAreRight' /\ PlacesAreRight'
  BY <1>1, <1>5, <1>6, <1>8, <1>9, VisitTypes, AccountsUnchanged
  DEF LimitsTypes, TimesAreRight, PlacesAreRight
<1>11. GuessInv'
  BY <1>1, <1>5, <1>6, QuietGuess DEF LimitsInv
<1>12. ASSUME NEW end \in 1..MaxTicks PROVE WindowInv(end)'
  <2> DEFINE a == Cardinality(AddingTo(end))  a2 == Cardinality(AddingTo(end))'
             c == Cardinality(ComingTo(end))  c2 == Cardinality(ComingTo(end))'
             d == One(now \in Window(end))
  <2>1. LimitsTypes /\ WindowInv(end) /\ d \in {0, 1}
    BY DEF LimitsInv, One
  <2>2. /\ a2 \in 0..Cardinality(Tries) /\ c2 \in 0..Cardinality(Tries)
        /\ a2 + One(IsAdding(visit[t], end)) = a + One(IsAdding(v, end))
        /\ c2 + One(IsComing(visit[t], end)) = c + One(IsComing(v, end))
    BY <1>1, <2>1, NextNumbers
  <2>3. /\ Admitted(end) \in Nat /\ Marked(end) \in Nat /\ a \in Nat /\ c \in Nat
        /\ Bound \in Int /\ slips \in Nat
    BY <2>1, Numbers
  <2>4. Bound' = Bound + (slips' - slips) /\ slips' - slips \in 0..1
    BY <1>6, <2>1, NextBound
  <2>5. Admitted(end)' = Admitted(end) + d
    BY <1>1, <1>7, <2>1, AdmittedNext
  <2>6. /\ IsAdding(visit[t], end) <=> now \in Window(end)
        /\ ~IsAdding(v, end) /\ ~IsComing(v, end) /\ ~IsComing(visit[t], end)
    BY <1>1, <1>5 DEF IsAdding, IsComing, now
  <2>7. a2 + d = a /\ c2 = c
    BY <2>2, <2>3, <2>6 DEF One
  <2>8. Marked(end)' \in Nat /\ (s = Shared => Marked(end)' = Marked(end) + d)
        /\ (s # Shared => Marked(end)' = Marked(end))
    <3>1. \A m \in Window(end) : marks'[s][m] = marks[s][m] + One(m = now)
      BY <1>8, WindowSums
    <3>2. QED
      BY <1>7, <1>8, <2>1, <3>1, MarkedNext
  <2> HIDE DEF a, a2, c, c2, d
  <2>9. WindowIsPast(end) => WindowIsPast(end)'
    <3>1. WindowIsPast(end) => Admitted(end)' + a2 + c2 <= Bound' + (Cardinality(Tries) - 1)
      BY <2>1, <2>2, <2>3, <2>4, <2>5, <2>7, Constants DEF WindowIsPast, a, c
    <3>2. WindowIsPast(end) => end < ticks'
      BY <1>1 DEF WindowIsPast
    <3>3. QED
      BY <3>1, <3>2 DEF WindowIsPast, a2, c2
  <2>10. WindowIsKept(end) => WindowIsKept(end)'
    <3>1. WindowIsKept(end) => Admitted(end)' + a2 <= Bound'
      BY <2>1, <2>2, <2>3, <2>4, <2>5, <2>7 DEF WindowIsKept, a
    <3>2. WindowIsKept(end) => Admitted(end)' <= Marked(end)' + slips'
      BY <1>6, <2>1, <2>3, <2>5, <2>8 DEF WindowIsKept, QuietSlips
    <3>3. QED
      BY <3>1, <3>2 DEF WindowIsKept, a2
  <2>11. QED
    BY <2>1, <2>9, <2>10 DEF WindowInv
<1>13. QED
  BY <1>10, <1>11, <1>12, Zenon DEF LimitsInv

LEMMA ConnectKeepsLimitsInv ==
    ASSUME LimitsInv, NEW t \in Tries, NEW s \in LimitStores, Connect(t, s)
    PROVE  LimitsInv'
<1> DEFINE now == visit[t].now
           trimmed == Trimmed(s, now)
           open == CountInWindow(s, now) + 1 <= MaxPerWindow
           b == IF open THEN 1 ELSE 0
           new == IF trimmed[now] <= MaxPerWindow THEN trimmed[now] + 1 ELSE trimmed[now]
<1>1. /\ visit[t].at = "connect" /\ visit' = [visit EXCEPT ![t] = NoTry] /\ Ask(s)
      /\ marks' = [marks EXCEPT ![s] = [trimmed EXCEPT ![now] = new]]
      /\ UNCHANGED <<limiter, ticks, accountLockVars>>
  BY DEF Connect
<1>2. RightVisit(visit[t]) /\ RightVisit(NoTry) /\ NoTry.at = "idle" /\ limiter \in Limiters
  BY RightVisits
<1>3. QuietSlips /\ slips' \in Nat /\ (s # Shared => slips' = slips + 1)
  BY <1>1, AskSlips DEF LimitsInv
<1>4. now \in 1..ticks /\ now \in 1..MaxTicks /\ ticks \in Nat
  BY <1>1, <1>2, Constants DEF RightVisit, LimitsInv, LimitsTypes
<1>5. admitted \in [1..MaxTicks -> Nat] /\ marks \in [LimitStores -> [1..MaxTicks -> Nat]]
  BY DEF LimitsInv, LimitsTypes
<1>6. b \in {0, 1} /\ admitted' = [admitted EXCEPT ![now] = @ + b]
  <2>1. open => admitted' = [admitted EXCEPT ![now] = @ + 1]
    BY DEF Connect, Admit
  <2>2. ~open => admitted' = admitted
    BY DEF Connect
  <2> HIDE DEF open, now
  <2>3. ~open => admitted' = [admitted EXCEPT ![now] = @ + 0]
    BY <1>4, <1>5, <2>2
  <2>4. QED
    BY <2>1, <2>3
<1>7. trimmed \in [1..MaxTicks -> Nat]
  BY TrimmedType DEF LimitsInv
<1> HIDE DEF now, trimmed
<1>8. /\ marks' \in [LimitStores -> [1..MaxTicks -> Nat]]
      /\ \A r \in LimitStores \ {s} : marks'[r] = marks[r]
      /\ \A m \in 1..MaxTicks \ {now} : marks'[s][m] = trimmed[m]
      /\ marks'[s][now] = new
  <2>1. new \in Nat
    BY <1>4, <1>7
  <2> DEFINE row == [trimmed EXCEPT ![now] = new]
  <2> HIDE DEF new
  <2>2. row \in [1..MaxTicks -> Nat] /\ row[now] = new /\ \A m \in 1..MaxTicks \ {now} : row[m] = trimmed[m]
    BY <1>4, <1>7, <2>1
  <2>3. marks' = [marks EXCEPT ![s] = row]
    BY <1>1 DEF new
  <2> HIDE DEF row
  <2>4. QED
    BY <1>5, <2>2, <2>3
<1>9. admitted' \in [1..MaxTicks -> Nat]
  BY <1>4, <1>5, <1>6
<1> HIDE DEF b
<1>10. LimitsTypes' /\ TimesAreRight' /\ PlacesAreRight'
  BY <1>1, <1>2, <1>3, <1>8, <1>9, VisitTypes, AccountsUnchanged
  DEF LimitsTypes, TimesAreRight, PlacesAreRight
<1>11. GuessInv'
  BY <1>1, <1>2, <1>3, QuietGuess DEF LimitsInv
<1>12. ASSUME NEW end \in 1..MaxTicks PROVE WindowInv(end)'
  <2> DEFINE a == Cardinality(AddingTo(end))  a2 == Cardinality(AddingTo(end))'
             c == Cardinality(ComingTo(end))  c2 == Cardinality(ComingTo(end))'
             d == One(now \in Window(end))
  <2>1. LimitsTypes /\ WindowInv(end) /\ d \in {0, 1}
    BY DEF LimitsInv, One
  <2>2. ~IsAdding(NoTry, end) /\ ~IsComing(NoTry, end) /\ ~IsAdding(visit[t], end)
        /\ (IsComing(visit[t], end) <=> now \in Window(end))
    BY <1>1, <1>2 DEF IsAdding, IsComing, now
  <2>3. /\ a2 \in 0..Cardinality(Tries) /\ c2 \in 0..Cardinality(Tries)
        /\ a2 + One(IsAdding(visit[t], end)) = a + One(IsAdding(NoTry, end))
        /\ c2 + One(IsComing(visit[t], end)) = c + One(IsComing(NoTry, end))
        /\ a2 + c2 <= Cardinality(Tries) - 1
    BY <1>1, <2>1, <2>2, NextNumbers
  <2>4. /\ Admitted(end) \in Nat /\ Marked(end) \in Nat /\ a \in Nat /\ c \in Nat
        /\ Bound \in Int /\ slips \in Nat
    BY <2>1, Numbers
  <2>5. Bound' = Bound + (slips' - slips) /\ slips' - slips \in 0..1
    BY <1>3, <2>1, NextBound
  <2>6. a2 = a /\ c2 + d = c
    BY <2>2, <2>3, <2>4 DEF One
  <2>7. Admitted(end)' = IF b = 1 THEN Admitted(end) + d ELSE Admitted(end)
    BY <1>4, <1>6, <2>1, AdmittedNext
  <2>8. Marked(end)' \in Nat /\ (s # Shared => Marked(end)' = Marked(end))
    BY <1>4, <1>8, <2>1, MarkedNext
  <2> HIDE DEF a, a2, c, c2, d
  <2>9. WindowIsPast(end) => WindowIsPast(end)'
    <3>1. WindowIsPast(end) => Admitted(end)' + a2 + c2 <= Bound' + (Cardinality(Tries) - 1)
      BY <2>1, <2>3, <2>4, <2>5, <2>6, <2>7, Constants DEF WindowIsPast, a, c
    <3>2. WindowIsPast(end) => end < ticks'
      BY <1>1 DEF WindowIsPast
    <3>3. QED
      BY <3>1, <3>2 DEF WindowIsPast, a2, c2
  <2>10. CASE WindowIsKept(end) /\ s # Shared
    <3>1. Admitted(end)' <= Marked(end)' + slips' /\ Admitted(end)' + a2 <= Bound'
      BY <1>3, <2>1, <2>3, <2>4, <2>5, <2>6, <2>7, <2>8, <2>10 DEF WindowIsKept, a
    <3>2. QED
      BY <3>1 DEF WindowIsKept, WindowInv, a2
  <2>11. CASE WindowIsKept(end) /\ s = Shared /\ now <= end
    <3>1. now \in 1..end
      BY <1>4, <2>11
    <3>2. \A n \in Window(end) : trimmed[n] = marks[s][n]
      BY <2>1, <2>11, <3>1, TrimKeepsWindow DEF trimmed
    <3>3. trimmed[now] = marks[s][now]
      BY <1>4, Constants DEF trimmed, Trimmed, Inside
    <3>4. \A n \in 1..MaxTicks : marks[s][n] \in Nat
      BY <1>5
    <3>5. Window(end) \in SUBSET (1..MaxTicks)
      BY WindowSums
    <3>6. \A n \in Window(end) : marks[s][n] <= marks'[s][n]
      <4> SUFFICES ASSUME NEW n \in Window(end) PROVE marks[s][n] <= marks'[s][n]
        OBVIOUS
      <4>1. CASE n = now
        BY <1>4, <1>8, <3>3, <3>4, <4>1, Constants
      <4>2. CASE n # now
        BY <1>8, <3>2, <3>4, <3>5, <4>2
      <4>3. QED
        BY <4>1, <4>2
    <3>7. Marked(end) <= Marked(end)'
      BY <1>4, <1>8, <2>1, <2>11, <3>6, MarkedNext
    <3>8. CASE b = 0
      <4>1. Admitted(end)' <= Marked(end)' + slips' /\ Admitted(end)' + a2 <= Bound'
        BY <1>3, <2>3, <2>4, <2>5, <2>6, <2>7, <2>8, <2>11, <3>7, <3>8 DEF WindowIsKept, a, QuietSlips
      <4>2. QED
        BY <4>1 DEF WindowIsKept, WindowInv, a2
    <3>9. CASE b = 1
      <4>1. CountInWindow(Shared, now) \in Nat /\ Marked(end) <= CountInWindow(Shared, now)
        BY <2>1, <3>1, CountCoversWindow
      <4>2. CountInWindow(Shared, now) <= MaxPerWindow - 1
        BY <2>11, <3>9, <4>1, Constants DEF b
      <4>3. marks[s][now] <= CountInWindow(Shared, now)
        <5> DEFINE W == {n \in 1..MaxTicks : Inside(now, n)}
        <5>1. IsFiniteSet(W) /\ now \in W /\ \A n \in W : marks[Shared][n] \in Nat
          <6>1. IsFiniteSet(1..MaxTicks) /\ W \in SUBSET (1..MaxTicks)
            BY Constants, FS_Interval
          <6>2. QED
            BY <1>4, <2>11, <3>4, <6>1, FS_Subset, Constants DEF Inside
        <5>2. CountInWindow(Shared, now) = SumOn(marks[Shared], W)
          BY DEF CountInWindow, SumOn
        <5> HIDE DEF W
        <5>3. QED
          BY <2>11, <5>1, <5>2, TermOfSum
      <4>4. new = marks[s][now] + 1
        BY <1>4, <3>3, <3>4, <4>1, <4>2, <4>3, Constants
      <4>5. \A n \in Window(end) : marks'[s][n] = marks[s][n] + One(n = now)
        BY <1>8, <3>2, <3>4, <3>5, <4>4 DEF One
      <4>6. Marked(end)' = Marked(end) + d
        BY <1>4, <1>8, <2>1, <2>11, <4>5, MarkedNext DEF d
      <4>7. Admitted(end)' <= Marked(end)' + slips'
        BY <1>3, <2>1, <2>4, <2>7, <2>11, <3>9, <4>6 DEF WindowIsKept, QuietSlips
      <4>8. Admitted(end) <= MaxPerWindow - 1 + slips
        BY <2>4, <2>11, <4>1, <4>2, Constants DEF WindowIsKept
      <4>9. Admitted(end)' + a2 <= Bound'
        BY <2>1, <2>3, <2>4, <2>5, <2>7, <3>9, <4>8, Constants DEF Bound
      <4>10. QED
        BY <4>7, <4>9 DEF WindowIsKept, WindowInv, a2
    <3>10. QED
      BY <1>6, <3>8, <3>9
  <2>12. CASE WindowIsKept(end) /\ ~(now <= end)
    <3>1. now \notin Window(end)
      BY <1>4, <2>12 DEF Window
    <3>2. Admitted(end)' = Admitted(end)
      BY <2>4, <2>7, <3>1 DEF d, One
    <3>3. Admitted(end)' + a2 + c2 <= Bound' + (Cardinality(Tries) - 1)
      BY <2>3, <2>4, <2>5, <2>6, <2>12, <3>2, Constants DEF WindowIsKept, a
    <3>4. end < ticks'
      BY <1>1, <1>4, <2>12
    <3>5. QED
      BY <3>3, <3>4 DEF WindowIsPast, WindowInv, a2, c2
  <2>13. QED
    BY <2>1, <2>9, <2>10, <2>11, <2>12 DEF WindowInv
<1>13. QED
  BY <1>10, <1>11, <1>12, Zenon DEF LimitsInv

-----------------------------------------------------------------------------
(* The steps that fail a login, count failures and lock                    *)

LEMMA NextGuessNumbers ==
    ASSUME LimitsTypes, NEW t \in Tries, NEW v, visit' = [visit EXCEPT ![t] = v]
    PROVE  /\ Cardinality(Guessing)' \in 0..Cardinality(Tries) /\ Cardinality(Guessing) \in 0..Cardinality(Tries)
           /\ Cardinality(Failing)' \in 0..Cardinality(Tries) /\ Cardinality(Failing) \in 0..Cardinality(Tries)
           /\ Cardinality(Locking)' \in 0..Cardinality(Tries) /\ Cardinality(Locking) \in 0..Cardinality(Tries)
           /\ Cardinality(Guessing)' + One(visit[t].at \in {"count", "add", "verify"})
                 = Cardinality(Guessing) + One(v.at \in {"count", "add", "verify"})
           /\ Cardinality(Failing)' + One(visit[t].at \in {"fail"}) = Cardinality(Failing) + One(v.at \in {"fail"})
           /\ Cardinality(Locking)' + One(visit[t].at \in {"fail", "lockout"})
                 = Cardinality(Locking) + One(v.at \in {"fail", "lockout"})
<1>1. Guessing' \in SUBSET Tries /\ Failing' \in SUBSET Tries /\ Locking' \in SUBSET Tries
  BY DEF Guessing, Failing, Locking, LoginsAt
<1>2. Guessing \in SUBSET Tries /\ Failing \in SUBSET Tries /\ Locking \in SUBSET Tries
  BY DEF Guessing, Failing, Locking, LoginsAt
<1>3. /\ Cardinality(Guessing') \in 0..Cardinality(Tries) /\ Cardinality(Guessing) \in 0..Cardinality(Tries)
      /\ Cardinality(Failing') \in 0..Cardinality(Tries) /\ Cardinality(Failing) \in 0..Cardinality(Tries)
      /\ Cardinality(Locking') \in 0..Cardinality(Tries) /\ Cardinality(Locking) \in 0..Cardinality(Tries)
  BY <1>1, <1>2, FewRequests
<1>4. QED
  BY <1>3, LoginCounts DEF Guessing, Failing, Locking

LEMMA UncountedStep ==
    ASSUME LimitsTypes, NEW t \in Tries, NEW v, visit' = [visit EXCEPT ![t] = v],
           visit[t].at \notin {"count", "add", "verify", "fail", "lockout"},
           v.at \notin {"count", "add", "verify", "fail", "lockout"}
    PROVE  /\ Cardinality(Guessing)' = Cardinality(Guessing) /\ Cardinality(Failing)' = Cardinality(Failing)
           /\ Cardinality(Locking)' = Cardinality(Locking)
<1>1. /\ Cardinality(Guessing)' \in 0..Cardinality(Tries) /\ Cardinality(Guessing) \in 0..Cardinality(Tries)
      /\ Cardinality(Failing)' \in 0..Cardinality(Tries) /\ Cardinality(Failing) \in 0..Cardinality(Tries)
      /\ Cardinality(Locking)' \in 0..Cardinality(Tries) /\ Cardinality(Locking) \in 0..Cardinality(Tries)
      /\ Cardinality(Guessing)' + One(visit[t].at \in {"count", "add", "verify"})
            = Cardinality(Guessing) + One(v.at \in {"count", "add", "verify"})
      /\ Cardinality(Failing)' + One(visit[t].at \in {"fail"}) = Cardinality(Failing) + One(v.at \in {"fail"})
      /\ Cardinality(Locking)' + One(visit[t].at \in {"fail", "lockout"})
            = Cardinality(Locking) + One(v.at \in {"fail", "lockout"})
  BY NextGuessNumbers
<1>2. /\ One(visit[t].at \in {"count", "add", "verify"}) = 0 /\ One(v.at \in {"count", "add", "verify"}) = 0
      /\ One(visit[t].at \in {"fail"}) = 0 /\ One(visit[t].at \in {"fail", "lockout"}) = 0
      /\ One(v.at \in {"fail"}) = 0 /\ One(v.at \in {"fail", "lockout"}) = 0
  BY DEF One
<1>3. QED
  BY <1>1, <1>2, Constants

(* No login both fails or locks and still goes on to guess.                *)
LEMMA KindsAreApart ==
    LimitsTypes => /\ Cardinality(Guessing) + Cardinality(Locking) <= Cardinality(Tries)
                   /\ Cardinality(Failing) <= Cardinality(Locking)
<1>1. Guessing \in SUBSET Tries /\ Failing \in SUBSET Locking /\ Locking \in SUBSET Tries
      /\ Guessing \cap Locking = {}
  BY DEF Guessing, Failing, Locking, LoginsAt
<1>2. Cardinality(Guessing) + Cardinality(Locking) <= Cardinality(Tries)
  BY <1>1, FewOfTwoKinds
<1>3. Cardinality(Failing) <= Cardinality(Locking)
  BY <1>1, FewRequests, FS_Subset
<1>4. QED
  BY <1>2, <1>3

(* A step that admits nobody keeps the windows.                            *)
LEMMA QuietWindows ==
    ASSUME LimitsInv, NEW t \in Tries, NEW v, visit' = [visit EXCEPT ![t] = v],
           UNCHANGED <<ticks, marks, admitted>>, QuietSlips,
           v.at \notin {"add", "lock", "count", "connect"}
    PROVE  \A end \in 1..MaxTicks : WindowInv(end)'
<1> SUFFICES ASSUME NEW end \in 1..MaxTicks PROVE WindowInv(end)'
  OBVIOUS
<1>1. ~IsComing(v, end)
  BY DEF IsComing
<1>2. QED
  BY <1>1, QuietWindow DEF LimitsInv

LEMMA OnlyLoginsFail ==
    ASSUME LimitsInv, NEW t \in Tries, visit[t].at \in {"verify", "succeed", "fail", "lockout"}
    PROVE  limiter = "login" /\ {"idle", "succeed", "fail", "lockout"} \subseteq Places
<1>1. limiter \in Limiters /\ visit[t].at \in Places
  BY DEF LimitsInv, PlacesAreRight
<1>2. limiter = "login"
  BY <1>1 DEF Places, Limiters
<1>3. QED
  BY <1>2 DEF Places

LEMMA VerifyKeepsLimitsInv ==
    ASSUME LimitsInv, NEW t \in Tries, Verify(t)
    PROVE  LimitsInv'
<1> DEFINE w == [visit[t] EXCEPT !.at = "succeed"]
           f == [visit[t] EXCEPT !.at = "fail", !.now = ticks]
           v == IF visit' = [visit EXCEPT ![t] = w] /\ guesses' = guesses THEN w
                ELSE IF visit' = [visit EXCEPT ![t] = f] /\ guesses' = guesses + 1 THEN f ELSE NoTry
<1>1. /\ visit[t].at = "verify"
      /\ UNCHANGED <<limiter, ticks, marks, admitted, failing, lockout, unlocks, slips>>
  BY DEF Verify, windowVars
<1>2. \/ visit' = [visit EXCEPT ![t] = w] /\ guesses' = guesses
      \/ visit' = [visit EXCEPT ![t] = f] /\ guesses' = guesses + 1
      \/ visit' = [visit EXCEPT ![t] = NoTry] /\ guesses' = guesses
  <2>1. visit \in [Tries -> Visits]
    BY DEF LimitsInv, LimitsTypes
  <2>2. CASE visit' = [visit EXCEPT ![t].at = "succeed"] /\ UNCHANGED guesses
    BY <2>1, <2>2
  <2>3. CASE visit' = [visit EXCEPT ![t].at = "fail", ![t].now = ticks] /\ guesses' = guesses + 1
    BY <2>1, <2>3
  <2>4. CASE visit' = [visit EXCEPT ![t] = NoTry] /\ UNCHANGED guesses
    BY <2>4
  <2>5. QED
    BY <2>2, <2>3, <2>4 DEF Verify
<1>3. RightVisit(visit[t]) /\ RightVisit(NoTry) /\ NoTry.at = "idle" /\ ticks \in 1..MaxTicks
  BY RightVisits DEF LimitsInv, LimitsTypes
<1>4. "succeed" \in Places /\ "fail" \in Places /\ "idle" \in Places /\ limiter = "login"
  BY <1>1, OnlyLoginsFail
<1>5. RightVisit(w) /\ w.at = "succeed"
  BY <1>1, <1>4, GoesOn
<1>6. RightVisit(f) /\ f.at = "fail"
  <2>1. visit[t] \in Visits /\ ticks \in 0..MaxTicks /\ ticks \in 1..ticks
    BY <1>3, Constants DEF RightVisit
  <2>2. f \in Visits /\ f.at = "fail" /\ f.now = ticks
    BY <2>1 DEF Visits
  <2>3. QED
    BY <1>4, <2>1, <2>2 DEF RightVisit
<1>7. /\ visit' = [visit EXCEPT ![t] = v] /\ RightVisit(v)
      /\ v.at \in {"succeed", "fail", "idle"}
      /\ guesses' = IF v.at = "fail" THEN guesses + 1 ELSE guesses
  BY <1>2, <1>3, <1>5, <1>6
<1> HIDE DEF v, w, f
<1>8. LimitsTypes' /\ TimesAreRight' /\ PlacesAreRight'
  <2>1. guesses' \in Nat
    BY <1>7 DEF LimitsInv, LimitsTypes
  <2>2. QED
    BY <1>1, <1>7, <2>1, VisitTypes
    DEF LimitsInv, LimitsTypes, TimesAreRight, PlacesAreRight
<1>9. GuessInv'
  <2> DEFINE P == Cardinality(Tries) * unlocks
             g == Cardinality(Guessing)  l == Cardinality(Locking)  d == Cardinality(Failing)
             g2 == Cardinality(Guessing)'  l2 == Cardinality(Locking)'  d2 == Cardinality(Failing)'
  <2>1. LimitsTypes /\ GuessInv
    BY DEF LimitsInv
  <2>2. /\ g2 \in Nat /\ g \in Nat /\ l2 \in Nat /\ l \in Nat /\ d2 \in Nat /\ d \in Nat
        /\ g2 + 1 = g
        /\ v.at = "fail" => l2 = l + 1 /\ d2 = d + 1
        /\ v.at # "fail" => l2 = l /\ d2 = d
    <3>1. /\ g2 \in 0..Cardinality(Tries) /\ g \in 0..Cardinality(Tries)
          /\ d2 \in 0..Cardinality(Tries) /\ d \in 0..Cardinality(Tries)
          /\ l2 \in 0..Cardinality(Tries) /\ l \in 0..Cardinality(Tries)
          /\ g2 + One(visit[t].at \in {"count", "add", "verify"}) = g + One(v.at \in {"count", "add", "verify"})
          /\ d2 + One(visit[t].at \in {"fail"}) = d + One(v.at \in {"fail"})
          /\ l2 + One(visit[t].at \in {"fail", "lockout"}) = l + One(v.at \in {"fail", "lockout"})
      BY <1>7, <2>1, NextGuessNumbers
    <3>2. /\ One(visit[t].at \in {"count", "add", "verify"}) = 1 /\ One(v.at \in {"count", "add", "verify"}) = 0
          /\ One(visit[t].at \in {"fail"}) = 0 /\ One(visit[t].at \in {"fail", "lockout"}) = 0
          /\ v.at = "fail" => One(v.at \in {"fail"}) = 1 /\ One(v.at \in {"fail", "lockout"}) = 1
          /\ v.at # "fail" => One(v.at \in {"fail"}) = 0 /\ One(v.at \in {"fail", "lockout"}) = 0
      BY <1>1, <1>7 DEF One
    <3> HIDE DEF g2, g, d2, d, l2, l
    <3>3. QED
      BY <3>1, <3>2, Constants
  <2>3. /\ failing[Shared].count \in Nat /\ lockout[Shared] \in Nat
        /\ guesses \in Nat /\ unlocks \in Nat /\ slips \in Nat /\ P \in Nat
    BY <2>1, GuessNumbers
  <2>4. P' = P
    BY <1>1
  <2> HIDE DEF P, g, l, d, g2, l2, d2
  <2>5. (failing[Shared].count < MaxInARow
           => guesses <= failing[Shared].count + Cardinality(Failing) + slips)'
    <3>1. failing[Shared].count < MaxInARow => guesses <= failing[Shared].count + d + slips
      BY <2>1 DEF GuessInv, d
    <3>2. failing[Shared].count < MaxInARow => guesses' <= failing[Shared].count + d2 + slips
      BY <1>7, <2>2, <2>3, <3>1
    <3>3. QED
      BY <1>1, <3>2 DEF d2
  <2>6. (failing[Shared].count >= MaxInARow /\ lockout[Shared] = 0
           => guesses <= MaxInARow - 1 + P + slips + Cardinality(Locking))'
    <3>1. failing[Shared].count >= MaxInARow /\ lockout[Shared] = 0
             => guesses <= MaxInARow - 1 + P + slips + l
      BY <2>1 DEF GuessInv, P, l
    <3>2. failing[Shared].count >= MaxInARow /\ lockout[Shared] = 0
             => guesses' <= MaxInARow - 1 + P + slips + l2
      BY <1>7, <2>2, <2>3, <3>1, Constants
    <3>3. QED
      BY <1>1, <2>4, <3>2 DEF l2
  <2>7. (failing[Shared].count >= MaxInARow /\ lockout[Shared] # 0
           => guesses + Cardinality(Guessing) <= MaxInARow - 1 + P + Cardinality(Tries) + slips)'
    <3>1. failing[Shared].count >= MaxInARow /\ lockout[Shared] # 0
             => guesses + g <= MaxInARow - 1 + P + Cardinality(Tries) + slips
      BY <2>1 DEF GuessInv, P, g
    <3>2. failing[Shared].count >= MaxInARow /\ lockout[Shared] # 0
             => guesses' + g2 <= MaxInARow - 1 + P + Cardinality(Tries) + slips
      BY <1>7, <2>2, <2>3, <3>1, Constants
    <3>3. QED
      BY <1>1, <2>4, <3>2 DEF g2
  <2>8. QED
    BY <2>5, <2>6, <2>7 DEF GuessInv, P
<1>10. \A end \in 1..MaxTicks : WindowInv(end)'
  BY <1>1, <1>7, QuietWindows DEF QuietSlips
<1>11. QED
  BY <1>8, <1>9, <1>10, Zenon DEF LimitsInv

LEMMA ResetKeepsLimitsInv ==
    ASSUME LimitsInv, NEW t \in Tries, NEW s \in LimitStores, ResetFailures(t, s)
    PROVE  LimitsInv'
<1> DEFINE none == [count |-> 0, until |-> 0]
<1>1. /\ visit[t].at = "succeed" /\ visit' = [visit EXCEPT ![t] = NoTry] /\ Ask(s)
      /\ failing' = [failing EXCEPT ![s] = none]
      /\ IF s = Shared THEN guesses' = 0 /\ unlocks' = 0 ELSE guesses' = guesses /\ unlocks' = unlocks
      /\ UNCHANGED <<limiter, ticks, marks, admitted, lockout>>
  BY DEF ResetFailures, windowVars
<1>2. RightVisit(NoTry) /\ NoTry.at = "idle"
  BY RightVisits
<1>3. QuietSlips /\ slips' \in Nat /\ (s # Shared => slips' = slips + 1)
  BY <1>1, AskSlips DEF LimitsInv
<1>4. /\ failing' \in [LimitStores -> [count : Nat, until : Nat]]
      /\ failing'[s] = none /\ \A r \in LimitStores \ {s} : failing'[r] = failing[r]
  <2>1. failing \in [LimitStores -> [count : Nat, until : Nat]] /\ none \in [count : Nat, until : Nat]
    BY DEF LimitsInv, LimitsTypes
  <2> HIDE DEF none
  <2>2. QED
    BY <1>1, <2>1
<1>5. failing'[Shared].count = IF s = Shared THEN 0 ELSE failing[Shared].count
  BY <1>4 DEF LimitStores
<1>6. LimitsTypes' /\ TimesAreRight' /\ PlacesAreRight'
  <2>1. guesses' \in Nat /\ unlocks' \in Nat
    BY <1>1 DEF LimitsInv, LimitsTypes
  <2>2. QED
    BY <1>1, <1>2, <1>3, <1>4, <1>5, <2>1, VisitTypes
    DEF LimitsInv, LimitsTypes, TimesAreRight, PlacesAreRight
<1>7. GuessInv'
  <2>1. CASE s = Shared
    <3>1. failing'[Shared].count = 0 /\ guesses' = 0
      BY <1>1, <1>5, <2>1
    <3>2. Cardinality(Failing)' \in Nat
      <4>1. LimitsTypes
        BY DEF LimitsInv
      <4>2. Cardinality(Failing)' \in 0..Cardinality(Tries)
        BY <1>1, <4>1, NextGuessNumbers
      <4>3. QED
        BY <4>2, Constants
    <3>3. (failing[Shared].count < MaxInARow
             => guesses <= failing[Shared].count + Cardinality(Failing) + slips)'
      BY <1>3, <3>1, <3>2
    <3>4. ~(failing'[Shared].count >= MaxInARow)
      BY <3>1, Constants
    <3>5. QED
      BY <3>3, <3>4 DEF GuessInv
  <2>2. CASE s # Shared
    <3> DEFINE P == Cardinality(Tries) * unlocks
    <3>1. /\ Cardinality(Guessing)' = Cardinality(Guessing) /\ Cardinality(Failing)' = Cardinality(Failing)
          /\ Cardinality(Locking)' = Cardinality(Locking)
      BY <1>1, <1>2, UncountedStep DEF LimitsInv
    <3>2. /\ Cardinality(Guessing) \in Nat /\ Cardinality(Failing) \in Nat /\ Cardinality(Locking) \in Nat
      BY GuessNumbers, Constants DEF LimitsInv, Guessing, Failing, Locking
    <3>3. /\ failing[Shared].count \in Nat /\ guesses \in Nat /\ unlocks \in Nat /\ slips \in Nat /\ P \in Nat
      BY GuessNumbers DEF LimitsInv
    <3>4. failing'[Shared].count = failing[Shared].count /\ P' = P
      BY <1>1, <1>5, <2>2
    <3> HIDE DEF P
    <3>5. (failing[Shared].count < MaxInARow
             => guesses <= failing[Shared].count + Cardinality(Failing) + slips)'
      BY <1>1, <1>3, <2>2, <3>1, <3>2, <3>3, <3>4 DEF LimitsInv, GuessInv
    <3>6. (failing[Shared].count >= MaxInARow /\ lockout[Shared] = 0
             => guesses <= MaxInARow - 1 + P + slips + Cardinality(Locking))'
      <4>1. failing[Shared].count >= MaxInARow /\ lockout[Shared] = 0
               => guesses <= MaxInARow - 1 + P + slips + Cardinality(Locking)
        BY DEF LimitsInv, GuessInv, P
      <4>2. QED
        BY <1>1, <1>3, <2>2, <3>1, <3>2, <3>3, <3>4, <4>1, Constants
    <3>7. (failing[Shared].count >= MaxInARow /\ lockout[Shared] # 0
             => guesses + Cardinality(Guessing) <= MaxInARow - 1 + P + Cardinality(Tries) + slips)'
      <4>1. failing[Shared].count >= MaxInARow /\ lockout[Shared] # 0
               => guesses + Cardinality(Guessing) <= MaxInARow - 1 + P + Cardinality(Tries) + slips
        BY DEF LimitsInv, GuessInv, P
      <4>2. QED
        BY <1>1, <1>3, <2>2, <3>1, <3>2, <3>3, <3>4, <4>1, Constants
    <3>8. QED
      BY <3>5, <3>6, <3>7 DEF GuessInv, P
  <2>3. QED
    BY <2>1, <2>2
<1>8. \A end \in 1..MaxTicks : WindowInv(end)'
  BY <1>1, <1>2, <1>3, QuietWindows
<1>9. QED
  BY <1>6, <1>7, <1>8, Zenon DEF LimitsInv

LEMMA IncrKeepsLimitsInv ==
    ASSUME LimitsInv, NEW t \in Tries, NEW s \in LimitStores, IncrFailures(t, s)
    PROVE  LimitsInv'
<1> DEFINE n == failing[s].count + 1
           row == [count |-> n, until |-> ticks + FailureTTL]
           w == [visit[t] EXCEPT !.at = "lockout", !.failures = n]
           v == IF n >= MaxInARow THEN w ELSE NoTry
<1>1. /\ visit[t].at = "fail" /\ Ask(s)
      /\ UNCHANGED <<limiter, ticks, marks, admitted, lockout, guesses, unlocks>>
  BY DEF IncrFailures, windowVars
<1>2. failing \in [LimitStores -> [count : Nat, until : Nat]] /\ ticks \in 1..MaxTicks
  BY DEF LimitsInv, LimitsTypes
<1>3. n \in Nat \ {0} /\ row \in [count : Nat, until : Nat]
  <2>1. failing[s] \in [count : Nat, until : Nat]
    BY <1>2
  <2>2. failing[s].count \in Nat /\ ticks + FailureTTL \in Nat
    BY <1>2, <2>1, Constants
  <2>3. QED
    BY <2>2
<1>4. /\ failing' \in [LimitStores -> [count : Nat, until : Nat]]
      /\ failing'[s] = row /\ \A r \in LimitStores \ {s} : failing'[r] = failing[r]
  <2>1. failing' = [failing EXCEPT ![s] = row]
    BY <1>2 DEF IncrFailures
  <2> HIDE DEF row
  <2>2. QED
    BY <1>2, <1>3, <2>1
<1>5. failing'[s].count = n
  BY <1>4
<1>6. visit' = [visit EXCEPT ![t] = v]
  BY <1>5 DEF IncrFailures
<1>7. RightVisit(visit[t]) /\ RightVisit(NoTry) /\ NoTry.at = "idle"
  BY RightVisits
<1>8. "lockout" \in Places /\ limiter = "login"
  BY <1>1, OnlyLoginsFail
<1>9. RightVisit(w) /\ w.at = "lockout"
  <2> HIDE DEF n
  <2>1. w \in Visits /\ w.at = "lockout" /\ w.now = visit[t].now
    BY <1>3, <1>7 DEF RightVisit, Visits
  <2>2. QED
    BY <1>1, <1>7, <1>8, <2>1 DEF RightVisit
<1>10. RightVisit(v) /\ v.at = IF n >= MaxInARow THEN "lockout" ELSE "idle"
  BY <1>7, <1>9
<1>11. QuietSlips /\ slips' \in Nat /\ (s = Shared => slips' \in {slips, slips + 1}) /\ (s # Shared => slips' = slips + 1)
  BY <1>1, AskSlips DEF LimitsInv, QuietSlips
<1>12. failing'[Shared].count = IF s = Shared THEN n ELSE failing[Shared].count
  BY <1>4, <1>5 DEF LimitStores
<1>13. s = Shared => n = failing[Shared].count + 1
  OBVIOUS
<1> HIDE DEF v, w, n, row
<1>14. LimitsTypes' /\ TimesAreRight' /\ PlacesAreRight'
  BY <1>1, <1>4, <1>6, <1>8, <1>10, <1>11, VisitTypes
  DEF LimitsInv, LimitsTypes, TimesAreRight, PlacesAreRight
<1>15. GuessInv'
  <2> DEFINE P == Cardinality(Tries) * unlocks
             g == Cardinality(Guessing)  l == Cardinality(Locking)  d == Cardinality(Failing)
             g2 == Cardinality(Guessing)'  l2 == Cardinality(Locking)'  d2 == Cardinality(Failing)'
             c == failing[Shared].count  c2 == failing'[Shared].count  k == lockout[Shared]
  <2>1. LimitsTypes /\ GuessInv
    BY DEF LimitsInv
  <2>2. /\ g2 \in Nat /\ g \in Nat /\ l2 \in Nat /\ l \in Nat /\ d2 \in Nat /\ d \in Nat
        /\ g2 = g /\ d2 + 1 = d
        /\ n >= MaxInARow => l2 = l
        /\ ~(n >= MaxInARow) => l2 + 1 = l
    <3>1. /\ g2 \in 0..Cardinality(Tries) /\ g \in 0..Cardinality(Tries)
          /\ d2 \in 0..Cardinality(Tries) /\ d \in 0..Cardinality(Tries)
          /\ l2 \in 0..Cardinality(Tries) /\ l \in 0..Cardinality(Tries)
          /\ g2 + One(visit[t].at \in {"count", "add", "verify"}) = g + One(v.at \in {"count", "add", "verify"})
          /\ d2 + One(visit[t].at \in {"fail"}) = d + One(v.at \in {"fail"})
          /\ l2 + One(visit[t].at \in {"fail", "lockout"}) = l + One(v.at \in {"fail", "lockout"})
      BY <1>6, <2>1, NextGuessNumbers
    <3>2. /\ One(visit[t].at \in {"count", "add", "verify"}) = 0 /\ One(v.at \in {"count", "add", "verify"}) = 0
          /\ One(visit[t].at \in {"fail"}) = 1 /\ One(v.at \in {"fail"}) = 0
          /\ One(visit[t].at \in {"fail", "lockout"}) = 1
          /\ n >= MaxInARow => One(v.at \in {"fail", "lockout"}) = 1
          /\ ~(n >= MaxInARow) => One(v.at \in {"fail", "lockout"}) = 0
      BY <1>1, <1>10 DEF One
    <3> HIDE DEF g2, g, d2, d, l2, l
    <3>3. QED
      BY <3>1, <3>2, Constants
  <2>3. /\ c \in Nat /\ k \in Nat /\ guesses \in Nat /\ unlocks \in Nat /\ slips \in Nat /\ P \in Nat
    BY <2>1, GuessNumbers
  <2>4. P' = P
    BY <1>1
  <2>5. g + l <= Cardinality(Tries) /\ d <= l
    BY <2>1, KindsAreApart
  <2>l. c < MaxInARow => guesses <= c + d + slips
    BY <2>1 DEF GuessInv
  <2>6. /\ c >= MaxInARow /\ k = 0 => guesses <= MaxInARow - 1 + P + slips + l
        /\ c >= MaxInARow /\ k # 0 => guesses + g <= MaxInARow - 1 + P + Cardinality(Tries) + slips
    BY <2>1 DEF GuessInv
  <2>7. c2 = (IF s = Shared THEN c + 1 ELSE c) /\ (s = Shared => n = c + 1)
    BY <1>12, <1>13
  <2> HIDE DEF P, g, l, d, g2, l2, d2, c, c2, k
  <2>t. c2 \in Nat /\ k \in Nat /\ n \in Nat
    BY <1>3, <2>3, <2>7
  <2>8. c2 < MaxInARow => guesses <= c2 + d2 + slips'
    <3>1. c \in Nat /\ d \in Nat /\ d2 \in Nat /\ slips \in Nat /\ slips' \in Nat /\ guesses \in Nat /\ d2 + 1 = d
          /\ MaxInARow \in Nat /\ (s = Shared => slips' \in {slips, slips + 1}) /\ (s # Shared => slips' = slips + 1)
      BY <1>11, <2>2, <2>3, Constants
    <3>2. CASE s = Shared /\ slips' = slips
      BY <3>1, <3>2, <2>l, <2>7
    <3>3. CASE s = Shared /\ slips' = slips + 1
      BY <3>1, <3>3, <2>l, <2>7
    <3>4. CASE s # Shared
      BY <3>1, <3>4, <2>l, <2>7
    <3>5. QED
      BY <3>1, <3>2, <3>3, <3>4
  <2>9. c2 >= MaxInARow /\ k = 0 => guesses <= MaxInARow - 1 + P + slips' + l2
    <3>1. /\ c \in Nat /\ d \in Nat /\ d2 \in Nat /\ slips \in Nat /\ slips' \in Nat /\ guesses \in Nat /\ P \in Nat
          /\ l \in Nat /\ l2 \in Nat /\ MaxInARow \in Nat \ {0} /\ (s = Shared => slips' \in {slips, slips + 1}) /\ (s # Shared => slips' = slips + 1)
      BY <1>11, <2>2, <2>3, Constants
    <3>2. CASE s = Shared /\ c < MaxInARow
      <4> SUFFICES ASSUME c2 >= MaxInARow  PROVE guesses <= MaxInARow - 1 + P + slips' + l2
        OBVIOUS
      <4>1. guesses <= MaxInARow - 1 + d + slips
        BY <3>1, <3>2, <2>l
      <4>2. d <= l /\ l2 = l
        BY <3>2, <2>2, <2>5, <2>7
      <4>3. CASE slips' = slips
        BY <3>1, <4>1, <4>2, <4>3
      <4>4. CASE slips' = slips + 1
        BY <3>1, <4>1, <4>2, <4>4
      <4>5. QED
        BY <3>1, <3>2, <4>3, <4>4
    <3>3. CASE s = Shared /\ ~(c < MaxInARow)
      <4> SUFFICES ASSUME k = 0  PROVE guesses <= MaxInARow - 1 + P + slips' + l2
        OBVIOUS
      <4>1. guesses <= MaxInARow - 1 + P + slips + l
        BY <3>1, <3>3, <2>6
      <4>2. l2 = l
        BY <3>1, <3>3, <2>2, <2>7, <2>t
      <4>3. CASE slips' = slips
        BY <3>1, <4>1, <4>2, <4>3
      <4>4. CASE slips' = slips + 1
        BY <3>1, <4>1, <4>2, <4>4
      <4>5. QED
        BY <3>1, <3>3, <4>3, <4>4
    <3>4. CASE s # Shared
      BY <3>1, <3>4, <2>2, <2>6, <2>7, <2>t
    <3>5. QED
      BY <3>2, <3>3, <3>4
  <2>10. c2 >= MaxInARow /\ k # 0 => guesses + g2 <= MaxInARow - 1 + P + Cardinality(Tries) + slips'
    BY <1>3, <1>11, <2>2, <2>3, <2>5, <2>l, <2>6, <2>7, <2>t, Constants
  <2>11. guesses' = guesses /\ lockout'[Shared] = k /\ c2 = failing'[Shared].count /\ Cardinality(Tries) * unlocks' = P
    BY <1>1, <2>4 DEF P, k, c2
  <2>12. QED
    BY <2>8, <2>9, <2>10, <2>11 DEF GuessInv, d2, l2, g2
<1>16. \A end \in 1..MaxTicks : WindowInv(end)'
  BY <1>1, <1>6, <1>10, <1>11, QuietWindows
<1>17. QED
  BY <1>14, <1>15, <1>16, Zenon DEF LimitsInv

LEMMA SetLockoutKeepsLimitsInv ==
    ASSUME LimitsInv, NEW t \in Tries, NEW s \in LimitStores, SetLockout(t, s)
    PROVE  LimitsInv'
<1> DEFINE until == visit[t].now + Duration(visit[t].failures)
           kept == IF until > ticks THEN until ELSE 0
<1>1. /\ visit[t].at = "lockout" /\ visit' = [visit EXCEPT ![t] = NoTry] /\ Ask(s)
      /\ lockout' = [lockout EXCEPT ![s] = kept]
      /\ unlocks' = unlocks + (IF s = Shared /\ lockout'[s] = 0 THEN 1 ELSE 0)
      /\ UNCHANGED <<limiter, ticks, marks, admitted, failing, guesses>>
  BY DEF SetLockout, windowVars
<1>2. RightVisit(visit[t]) /\ RightVisit(NoTry) /\ NoTry.at = "idle" /\ ticks \in 1..MaxTicks
  BY RightVisits DEF LimitsInv, LimitsTypes
<1>3. QuietSlips /\ slips' \in Nat /\ (s # Shared => slips' = slips + 1)
  BY <1>1, AskSlips DEF LimitsInv
<1>4. kept \in Nat /\ (kept # 0 => ticks < kept)
  <2>1. visit[t].now \in Nat
    BY <1>2 DEF RightVisit, Visits
  <2>2. Duration(visit[t].failures) \in Nat
    BY LimitsAssumption DEF Duration
  <2>3. until \in Nat
    BY <2>1, <2>2
  <2> HIDE DEF until
  <2>4. QED
    BY <1>2, <2>3
<1> HIDE DEF kept
<1>5. /\ lockout' \in [LimitStores -> Nat] /\ lockout'[s] = kept
      /\ \A r \in LimitStores \ {s} : lockout'[r] = lockout[r]
  <2>1. lockout \in [LimitStores -> Nat]
    BY DEF LimitsInv, LimitsTypes
  <2>2. QED
    BY <1>1, <1>4, <2>1
<1>6. \A r \in LimitStores : lockout'[r] # 0 => ticks' < lockout'[r]
  BY <1>1, <1>4, <1>5 DEF LimitsInv, TimesAreRight
<1>7. limiter = "login"
  BY <1>1, OnlyLoginsFail
<1>8. unlocks' \in Nat /\ unlocks' = IF s = Shared /\ kept = 0 THEN unlocks + 1 ELSE unlocks
  BY <1>1, <1>5 DEF LimitsInv, LimitsTypes
<1>9. LimitsTypes' /\ TimesAreRight' /\ PlacesAreRight'
  BY <1>1, <1>2, <1>3, <1>5, <1>6, <1>7, <1>8, VisitTypes
  DEF LimitsInv, LimitsTypes, TimesAreRight, PlacesAreRight
<1>10. GuessInv'
  <2> DEFINE P == Cardinality(Tries) * unlocks  P2 == Cardinality(Tries) * unlocks'
             g == Cardinality(Guessing)  l == Cardinality(Locking)  d == Cardinality(Failing)
             g2 == Cardinality(Guessing)'  l2 == Cardinality(Locking)'  d2 == Cardinality(Failing)'
             c == failing[Shared].count  k == lockout[Shared]  k2 == lockout'[Shared]
  <2>1. LimitsTypes /\ GuessInv
    BY DEF LimitsInv
  <2>2. /\ g2 \in Nat /\ g \in Nat /\ l2 \in Nat /\ l \in Nat /\ d2 \in Nat /\ d \in Nat
        /\ g2 = g /\ d2 = d /\ l2 + 1 = l
    <3>1. /\ g2 \in 0..Cardinality(Tries) /\ g \in 0..Cardinality(Tries)
          /\ d2 \in 0..Cardinality(Tries) /\ d \in 0..Cardinality(Tries)
          /\ l2 \in 0..Cardinality(Tries) /\ l \in 0..Cardinality(Tries)
          /\ g2 + One(visit[t].at \in {"count", "add", "verify"}) = g + One(NoTry.at \in {"count", "add", "verify"})
          /\ d2 + One(visit[t].at \in {"fail"}) = d + One(NoTry.at \in {"fail"})
          /\ l2 + One(visit[t].at \in {"fail", "lockout"}) = l + One(NoTry.at \in {"fail", "lockout"})
      BY <1>1, <2>1, NextGuessNumbers
    <3>2. /\ One(visit[t].at \in {"count", "add", "verify"}) = 0 /\ One(NoTry.at \in {"count", "add", "verify"}) = 0
          /\ One(visit[t].at \in {"fail"}) = 0 /\ One(NoTry.at \in {"fail"}) = 0
          /\ One(visit[t].at \in {"fail", "lockout"}) = 1 /\ One(NoTry.at \in {"fail", "lockout"}) = 0
      BY <1>1, <1>2 DEF One
    <3> HIDE DEF g2, g, d2, d, l2, l
    <3>3. QED
      BY <3>1, <3>2, Constants
  <2>3. /\ c \in Nat /\ k \in Nat /\ guesses \in Nat /\ unlocks \in Nat /\ slips \in Nat /\ P \in Nat
    BY <2>1, GuessNumbers
  <2>4. P2 = IF s = Shared /\ kept = 0 THEN P + Cardinality(Tries) ELSE P
    <3>1. Cardinality(Tries) * (unlocks + 1) = Cardinality(Tries) * unlocks + Cardinality(Tries)
      BY <2>3, Constants
    <3>2. QED
      BY <1>8, <3>1
  <2>5. g + l <= Cardinality(Tries) /\ d <= l
    BY <2>1, KindsAreApart
  <2>l. c < MaxInARow => guesses <= c + d + slips
    BY <2>1 DEF GuessInv
  <2>6. /\ c >= MaxInARow /\ k = 0 => guesses <= MaxInARow - 1 + P + slips + l
        /\ c >= MaxInARow /\ k # 0 => guesses + g <= MaxInARow - 1 + P + Cardinality(Tries) + slips
    BY <2>1 DEF GuessInv
  <2>7. k2 = IF s = Shared THEN kept ELSE k
    BY <1>5 DEF LimitStores
  <2> HIDE DEF P, P2, g, l, d, g2, l2, d2, c, k, k2
  <2>8. slips' \in Nat /\ slips <= slips' /\ (s # Shared => slips' = slips + 1)
    BY <1>3, <2>3 DEF QuietSlips
  <2>9. c < MaxInARow => guesses <= c + d2 + slips'
    <3>1. c \in Nat /\ d \in Nat /\ d2 \in Nat /\ slips \in Nat /\ guesses \in Nat /\ d2 = d
      BY <2>2, <2>3
    <3>2. CASE slips' = slips
      BY <3>1, <3>2, <2>l
    <3>3. CASE slips' = slips + 1
      BY <3>1, <3>3, <2>l
    <3>4. QED
      BY <1>3, <3>2, <3>3 DEF QuietSlips
  <2>10. c >= MaxInARow /\ k2 = 0 => guesses <= MaxInARow - 1 + P2 + slips' + l2
    BY <1>4, <2>2, <2>3, <2>4, <2>5, <2>6, <2>7, <2>8, Constants
  <2>11. c >= MaxInARow /\ k2 # 0 => guesses + g2 <= MaxInARow - 1 + P2 + Cardinality(Tries) + slips'
    BY <1>4, <2>2, <2>3, <2>4, <2>5, <2>6, <2>7, <2>8, Constants
  <2>12. guesses' = guesses /\ failing'[Shared].count = c
    BY <1>1 DEF c
  <2>13. QED
    BY <2>9, <2>10, <2>11, <2>12 DEF GuessInv, d2, l2, g2, k2, P2
<1>11. \A end \in 1..MaxTicks : WindowInv(end)'
  BY <1>1, <1>2, <1>3, QuietWindows
<1>12. QED
  BY <1>9, <1>10, <1>11, Zenon DEF LimitsInv

-----------------------------------------------------------------------------
(* The clock                                                               *)

LEMMA ClockKeepsLimitsInv ==
    ASSUME LimitsInv, ClockTicks
    PROVE  LimitsInv'
<1> DEFINE none == [count |-> 0, until |-> 0]
<1>1. /\ ticks < MaxTicks /\ ticks' = ticks + 1
      /\ UNCHANGED <<limiter, marks, visit, admitted, slips>>
      /\ LimitsTypes /\ TimesAreRight /\ PlacesAreRight /\ GuessInv
  BY DEF ClockTicks, LimitsInv
<1>2. ticks \in 1..MaxTicks /\ ticks' \in 1..MaxTicks
  BY <1>1, Constants DEF LimitsTypes
<1>3. /\ failing' \in [LimitStores -> [count : Nat, until : Nat]]
      /\ failing'[Shared].count \in {0, failing[Shared].count}
  <2>1. failing \in [LimitStores -> [count : Nat, until : Nat]] /\ Shared \in LimitStores
    BY <1>1 DEF LimitsTypes, LimitStores
  <2>2. none \in [count : Nat, until : Nat] /\ none.count = 0
    OBVIOUS
  <2>3. failing' = [s \in LimitStores |-> IF failing[s].until > ticks' THEN failing[s] ELSE none]
    BY DEF ClockTicks
  <2> HIDE DEF none
  <2>4. QED
    BY <2>1, <2>2, <2>3
<1>4. /\ lockout' \in [LimitStores -> Nat]
      /\ \A s \in LimitStores : lockout'[s] = IF lockout[s] > ticks' THEN lockout[s] ELSE 0
  <2>1. lockout \in [LimitStores -> Nat]
    BY <1>1 DEF LimitsTypes
  <2>2. lockout' = [s \in LimitStores |-> IF lockout[s] > ticks' THEN lockout[s] ELSE 0]
    BY DEF ClockTicks
  <2>3. QED
    BY <2>1, <2>2
<1>5. lockout'[Shared] = lockout[Shared] \/ lockout'[Shared] = 0
  BY <1>4 DEF LimitStores
<1> DEFINE c == failing[Shared].count  c2 == failing'[Shared].count
           k == lockout[Shared]  k2 == lockout'[Shared]
<1>6. c \in Nat /\ c2 \in {0, c} /\ k \in Nat /\ k2 \in {0, k}
  BY <1>1, <1>3, <1>5, GuessNumbers
<1>7. IF c > 0 /\ c2 = 0 THEN guesses' = 0 /\ unlocks' = 0
      ELSE guesses' = guesses /\ unlocks' = unlocks + (IF k > 0 /\ k2 = 0 THEN 1 ELSE 0)
  BY DEF ClockTicks
<1>8. guesses' \in Nat /\ unlocks' \in Nat
  BY <1>1, <1>7 DEF LimitsTypes
<1>9. LimitsTypes'
  BY <1>1, <1>2, <1>3, <1>4, <1>8 DEF LimitsTypes
<1>10. TimesAreRight'
  <2>1. ASSUME NEW t \in Tries, visit'[t].at # "idle" PROVE visit'[t].now \in 1..ticks'
    BY <1>1, <1>2, <2>1 DEF TimesAreRight
  <2>2. \A s \in LimitStores : lockout'[s] # 0 => ticks' < lockout'[s]
    BY <1>2, <1>4
  <2>3. QED
    BY <2>1, <2>2 DEF TimesAreRight
<1>11. PlacesAreRight'
  BY <1>1, <1>6 DEF PlacesAreRight, Places
<1>12. GuessInv'
  <2> DEFINE P == Cardinality(Tries) * unlocks  P2 == Cardinality(Tries) * unlocks'
             g == Cardinality(Guessing)  l == Cardinality(Locking)  d == Cardinality(Failing)
             T == Cardinality(Tries)
  <2>1. g \in Nat /\ l \in Nat /\ d \in Nat
    BY <1>1, GuessNumbers DEF Guessing, Failing, Locking
  <2>2. Cardinality(Guessing)' = g /\ Cardinality(Locking)' = l /\ Cardinality(Failing)' = d
    BY <1>1 DEF Guessing, Failing, Locking, LoginsAt
  <2>3. guesses \in Nat /\ unlocks \in Nat /\ slips \in Nat /\ P \in Nat /\ T \in Nat
    BY <1>1, GuessNumbers, Constants
  <2>4. /\ c < MaxInARow => guesses <= c + d + slips
        /\ c >= MaxInARow /\ k = 0 => guesses <= MaxInARow - 1 + P + slips + l
        /\ c >= MaxInARow /\ k # 0 => guesses + g <= MaxInARow - 1 + P + T + slips
    BY <1>1 DEF GuessInv
  <2>5. /\ c2 < MaxInARow => guesses' <= c2 + d + slips
        /\ c2 >= MaxInARow /\ k2 = 0 => guesses' <= MaxInARow - 1 + P2 + slips + l
        /\ c2 >= MaxInARow /\ k2 # 0 => guesses' + g <= MaxInARow - 1 + P2 + T + slips
    <3>1. CASE c > 0 /\ c2 = 0
      <4>1. guesses' = 0 /\ c2 < MaxInARow
        BY <1>7, <3>1, Constants
      <4> HIDE DEF P, P2, g, l, d, T, c, c2, k, k2
      <4>2. QED
        BY <3>1, <4>1, <2>1, <2>3, Constants
    <3>2. CASE ~(c > 0 /\ c2 = 0)
      <4>1. c2 = c /\ guesses' = guesses
        BY <1>6, <1>7, <3>2
      <4>2. CASE k > 0 /\ k2 = 0
        <5>1. P2 = P + T
          <6>1. unlocks' = unlocks + 1
            BY <1>7, <3>2, <4>2
          <6>2. T * (unlocks + 1) = T * unlocks + T
            BY <2>3
          <6>3. QED
            BY <6>1, <6>2
        <5> HIDE DEF P, P2, g, l, d, T, c, c2, k, k2
        <5>2. QED
          BY <1>6, <4>1, <4>2, <5>1, <2>1, <2>3, <2>4, Constants
      <4>3. CASE ~(k > 0 /\ k2 = 0)
        <5>1. k2 = k
          BY <1>6, <4>3
        <5>2. P2 = P
          BY <1>7, <3>2, <4>3, <2>3
        <5> HIDE DEF P, P2, g, l, d, T, c, c2, k, k2
        <5>3. QED
          BY <1>6, <4>1, <5>1, <5>2, <2>1, <2>3, <2>4, Constants
      <4>4. QED
        BY <4>2, <4>3
    <3>3. QED
      BY <3>1, <3>2
  <2>6. QED
    BY <1>1, <2>2, <2>5 DEF GuessInv
<1>13. ASSUME NEW end \in 1..MaxTicks PROVE WindowInv(end)'
  <2>1. /\ Admitted(end)' = Admitted(end) /\ Marked(end)' = Marked(end)
        /\ AddingTo(end)' = AddingTo(end) /\ ComingTo(end)' = ComingTo(end) /\ Bound' = Bound
    BY <1>1 DEF Admitted, Marked, AddingTo, ComingTo, Window, Inside, SumOn, Bound
  <2>2. WindowIsKept(end) => WindowIsKept(end)'
    BY <1>1, <2>1 DEF WindowIsKept
  <2>3. end < ticks => end < ticks'
    BY <1>1, <1>2, Constants
  <2>4. WindowIsPast(end) => WindowIsPast(end)'
    BY <2>1, <2>3 DEF WindowIsPast
  <2>5. QED
    BY <2>2, <2>4 DEF WindowInv, LimitsInv
<1>14. QED
  BY <1>9, <1>10, <1>11, <1>12, <1>13 DEF LimitsInv

-----------------------------------------------------------------------------
LEMMA LimitsStart ==
    ASSUME LimitsInit  PROVE LimitsInv
<1>1. LimitsTypes
  <2>1. NoTry \in Visits
    BY Constants DEF NoTry, Visits
  <2>2. [s \in LimitStores |-> [count |-> 0, until |-> 0]] \in [LimitStores -> [count : Nat, until : Nat]]
    OBVIOUS
  <2>3. [s \in LimitStores |-> [n \in 1..MaxTicks |-> 0]] \in [LimitStores -> [1..MaxTicks -> Nat]]
    OBVIOUS
  <2>4. ticks \in 1..MaxTicks
    BY Constants DEF LimitsInit
  <2>5. QED
    BY <2>1, <2>2, <2>3, <2>4 DEF LimitsInit, LimitsTypes
<1>2. \A t \in Tries : visit[t].at = "idle"
  BY DEF LimitsInit, NoTry
<1>3. TimesAreRight
  BY <1>2 DEF LimitsInit, TimesAreRight
<1>4. PlacesAreRight
  <2>1. limiter \in Limiters
    BY DEF LimitsInit
  <2>2. "idle" \in Places
    BY <2>1 DEF Places, Limiters
  <2>3. failing[Shared].count = 0
    BY DEF LimitsInit, LimitStores
  <2>4. QED
    BY <1>2, <2>1, <2>2, <2>3 DEF PlacesAreRight
<1>5. GuessInv
  <2>1. failing[Shared].count = 0 /\ guesses = 0 /\ slips = 0
    BY DEF LimitsInit, LimitStores
  <2>2. Cardinality(Failing) \in Nat
    BY <1>1, GuessNumbers DEF Failing
  <2>3. QED
    BY <2>1, <2>2, Constants DEF GuessInv
<1>6. ASSUME NEW end \in 1..MaxTicks PROVE WindowInv(end)
  <2>1. Window(end) \in SUBSET (1..MaxTicks) /\ IsFiniteSet(Window(end))
    BY WindowSums
  <2>2. Admitted(end) = 0
    <3>1. \A n \in Window(end) : admitted[n] = 0
      BY <2>1 DEF LimitsInit
    <3>2. QED
      BY <2>1, <3>1, SumOfZeros DEF Admitted
  <2>3. Marked(end) \in Nat /\ slips = 0
    BY <1>1, WindowSums DEF LimitsInit
  <2>4. Cardinality(AddingTo(end)) = 0
    <3>1. AddingTo(end) = {}
      BY <1>2 DEF AddingTo
    <3>2. QED
      BY <3>1, FS_EmptySet
  <2>5. QED
    BY <2>2, <2>3, <2>4, Constants DEF WindowInv, WindowIsKept, Bound
<1>7. QED
  BY <1>1, <1>3, <1>4, <1>5, <1>6 DEF LimitsInv

LEMMA LimitsStutter ==
    ASSUME LimitsInv, UNCHANGED limitVars  PROVE LimitsInv'
<1>1. UNCHANGED <<limiter, ticks, marks, failing, lockout, visit, admitted, guesses, unlocks, slips>>
  BY DEF limitVars
<1>2. LimitsTypes' /\ TimesAreRight' /\ PlacesAreRight'
  BY <1>1 DEF LimitsInv, LimitsTypes, TimesAreRight, PlacesAreRight, Places
<1>3. GuessInv'
  BY <1>1, Zenon DEF LimitsInv, GuessInv, Guessing, Failing, Locking, LoginsAt
<1>4. \A end \in 1..MaxTicks : WindowInv(end)'
  BY <1>1, Zenon DEF LimitsInv, WindowInv, WindowIsKept, WindowIsPast, Admitted, Marked, AddingTo, ComingTo,
     Window, Inside, SumOn, Bound
<1>5. QED
  BY <1>2, <1>3, <1>4 DEF LimitsInv

LEMMA LimitsStep ==
    ASSUME LimitsInv, [LimitsNext]_limitVars  PROVE LimitsInv'
<1>1. CASE ClockTicks
  BY <1>1, ClockKeepsLimitsInv
<1>2. CASE \E t \in Tries : Arrive(t) \/ Verify(t)
  BY <1>2, ArriveKeepsLimitsInv, VerifyKeepsLimitsInv
<1>3. CASE \E t \in Tries : \E s \in LimitStores :
              \/ GetLockout(t, s) \/ CountAttempts(t, s) \/ AddAttempt(t, s) \/ Connect(t, s)
              \/ ResetFailures(t, s) \/ IncrFailures(t, s) \/ SetLockout(t, s)
  <2>1. PICK t \in Tries, s \in LimitStores :
              \/ GetLockout(t, s) \/ CountAttempts(t, s) \/ AddAttempt(t, s) \/ Connect(t, s)
              \/ ResetFailures(t, s) \/ IncrFailures(t, s) \/ SetLockout(t, s)
    BY <1>3
  <2>2. QED
    BY <2>1, GetLockoutKeepsLimitsInv, CountKeepsLimitsInv, AddKeepsLimitsInv, ConnectKeepsLimitsInv,
       ResetKeepsLimitsInv, IncrKeepsLimitsInv, SetLockoutKeepsLimitsInv
<1>4. CASE UNCHANGED limitVars
  BY <1>4, LimitsStutter
<1>5. QED
  BY <1>1, <1>2, <1>3, <1>4 DEF LimitsNext

(* What the inductive invariant says of the two limits                     *)
LEMMA InvariantKeepsLimits ==
    ASSUME LimitsInv  PROVE LimitsHold
<1> DEFINE T == Cardinality(Tries)  P == T * unlocks
<1>1. T \in Nat \ {0} /\ MaxPerWindow \in Nat \ {0} /\ MaxInARow \in Nat \ {0}
  BY Constants
<1>2. LimitsTypes /\ GuessInv
  BY DEF LimitsInv
<1>3. ASSUME NEW end \in 1..MaxTicks
      PROVE  SumFunctionOnSet(admitted, {n \in 1..end : Inside(end, n)}) <= MaxPerWindow + slips + 2 * (T - 1)
  <2>1. SumFunctionOnSet(admitted, {n \in 1..end : Inside(end, n)}) = Admitted(end)
    BY DEF Admitted, Window, SumOn
  <2>2. /\ Admitted(end) \in Nat /\ slips \in Nat
        /\ Cardinality(AddingTo(end)) \in Nat /\ Cardinality(ComingTo(end)) \in Nat
    BY <1>2, Numbers
  <2>3. WindowIsKept(end) \/ WindowIsPast(end)
    BY DEF LimitsInv, WindowInv
  <2>4. Admitted(end) <= MaxPerWindow + slips + 2 * (T - 1)
    BY <1>1, <2>2, <2>3 DEF WindowIsKept, WindowIsPast, Bound
  <2>5. QED
    BY <2>1, <2>4
<1>4. guesses <= MaxInARow - 1 + T * (unlocks + 1) + slips
  <2> DEFINE g == Cardinality(Guessing)  l == Cardinality(Locking)  d == Cardinality(Failing)
             c == failing[Shared].count
  <2>1. c \in Nat /\ guesses \in Nat /\ unlocks \in Nat /\ slips \in Nat /\ P \in Nat
    BY <1>2, GuessNumbers
  <2>2. g \in 0..T /\ l \in 0..T /\ d \in 0..T
    BY <1>2, GuessNumbers DEF Guessing, Failing, Locking
  <2>3. T * (unlocks + 1) = P + T
    BY <1>1, <2>1
  <2>4. /\ c < MaxInARow => guesses <= c + d + slips
        /\ c >= MaxInARow => \/ guesses <= MaxInARow - 1 + P + slips + l
                             \/ guesses + g <= MaxInARow - 1 + P + T + slips
    BY <1>2 DEF GuessInv
  <2> HIDE DEF g, l, d, c, P, T
  <2>5. guesses <= MaxInARow - 1 + (P + T) + slips
    BY <1>1, <2>1, <2>2, <2>4
  <2>6. QED
    BY <2>3, <2>5
<1>5. QED
  BY <1>3, <1>4 DEF LimitsHold

(* rate_limit.py:1-19: however many requests of however many processes     *)
(* cross, a window admits no more than its limit but for them and for the  *)
(* calls that Redis failed, and between two lockouts of an account no more *)
(* logins fail than its limit but for those.                               *)
THEOREM LimitsAreKept == LimitsSpec => []LimitsHold
<1>1. LimitsInit => LimitsInv
  BY LimitsStart
<1>2. LimitsInv /\ [LimitsNext]_limitVars => LimitsInv'
  BY LimitsStep
<1>3. LimitsInv => LimitsHold
  BY InvariantKeepsLimits
<1>4. QED
  BY <1>1, <1>2, <1>3, PTL DEF LimitsSpec
=============================================================================
