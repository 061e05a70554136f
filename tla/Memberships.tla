----------------------------- MODULE Memberships -----------------------------
(***************************************************************************)
(* Members, invitations and ownership of one shared workspace              *)
(* (backend/app/api/v1/organizations.py, api/v1/invitations.py,            *)
(* services/invitation_service.py, auth/service.py): each request is a     *)
(* transaction that reads what its guards need, at its start, and writes   *)
(* at its end.                                                             *)
(*                                                                         *)
(* PostgreSQL (READ COMMITTED) is external: an UPDATE by primary key takes *)
(* effect whatever the row has become, and one column is only updated when *)
(* its value differs from the one read; the unique constraint of           *)
(* memberships (organization, email) covers removed rows as well.  Rate    *)
(* limits, alerts and e-mails, all best effort, are left out.              *)
(***************************************************************************)
EXTENDS Naturals, Sequences, FiniteSets

CONSTANTS
    People,       \* e-mail addresses
    Founder,      \* who created the workspace
    Calls,     \* calls in progress at one time
    Nobody,       \* "no such person" in a request
    MaxCalls,  \* bound: calls
    MaxInvites    \* bound: invitation rows

ASSUME MembershipsAssumption ==
    /\ Founder \in People /\ Nobody \notin People
    /\ MaxCalls \in Nat /\ MaxInvites \in Nat

VARIABLES
    account,     \* account[p]: none, live or deleted
    member,      \* member[p]: the membership row of the address
    workspace,   \* live or deleted
    invites,     \* invitation rows, in the order of their commits
    request,     \* request[r]: what it has read and is about to write
    calls,    \* how many calls were made
    stale,       \* a change, removal or transfer was committed that its guards,
                 \* run at that moment, would have refused or found otherwise
    doubled      \* an invitation became valid that no guard looked at: made by
                 \* such a call, or settled or expired and then sent again

membershipVars ==
    <<account, member, workspace, invites, request, calls, stale, doubled>>

(* Viewers and members differ in nothing that matters here.                *)
Roles == {"owner", "admin", "member"}
NoMember == [state |-> "never", role |-> "member", linked |-> FALSE]
Anybody(op) == [op |-> op, by |-> Nobody, on |-> Nobody, role |-> "member",
                invite |-> 0, found |-> "member"]
NoRequest == Anybody("none")

Active(p) == member[p].state = "active"
Owners == {p \in People : Active(p) /\ member[p].role = "owner"}
-----------------------------------------------------------------------------
MembershipsInit ==
    /\ account = [p \in People |-> IF p = Founder THEN "live" ELSE "none"]
    /\ member = [p \in People |-> IF p = Founder
                    THEN [state |-> "active", role |-> "owner", linked |-> TRUE] ELSE NoMember]
    /\ workspace = "live" /\ invites = <<>>
    /\ request = [r \in Calls |-> NoRequest]
    /\ calls = 0 /\ stale = FALSE /\ doubled = FALSE
-----------------------------------------------------------------------------
(* What the handlers' guards allow, by the committed state                 *)

(* The dependencies: a live account, a workspace, a membership, a role.    *)
Caller(p, roles) ==
    /\ account[p] = "live" /\ workspace = "live"
    /\ Active(p) /\ member[p].role \in roles

Managers == {"owner", "admin"}

(* Only an owner grants the owner role.                                    *)
MayGrant(p, role) == role = "owner" => member[p].role = "owner"

AddAllowed(q) ==
    Caller(q.by, Managers) /\ MayGrant(q.by, q.role) /\ ~Active(q.on)

(* Mutation: a role is changed without counting the owners.              *)
ChangeUncounted(q) ==
    /\ Caller(q.by, Managers) /\ MayGrant(q.by, q.role)
    /\ Active(q.on)

(* An owner stays one unless another one says so and a third is left.      *)
ChangeAllowed(q) ==
    /\ Caller(q.by, Managers) /\ MayGrant(q.by, q.role)
    /\ Active(q.on)
    /\ q.on \in Owners /\ q.role # "owner" => q.on # q.by /\ Cardinality(Owners) > 1

RemoveAllowed(q) ==
    /\ Caller(q.by, Managers)
    /\ Active(q.on)
    /\ q.on \in Owners => q.by \in Owners /\ Cardinality(Owners) > 1

TransferAllowed(q) == Caller(q.by, {"owner"}) /\ Active(q.on) /\ q.on # q.by

DeleteAllowed(q) == Caller(q.by, {"owner"})

(* Pending and not expired                                                 *)
Valid(i) == invites[i].status = "pending" /\ ~invites[i].expired
ValidFor(p) == {i \in DOMAIN invites : invites[i].to = p /\ Valid(i)}

(* Mutation: nobody looks for an invitation that is still pending.       *)
InviteAgain(q) ==
    Caller(q.by, Managers) /\ MayGrant(q.by, q.role) /\ q.on # q.by /\ ~Active(q.on)

InviteAllowed(q) ==
    /\ Caller(q.by, Managers) /\ MayGrant(q.by, q.role)
    /\ q.on # q.by /\ ~Active(q.on)
    /\ ValidFor(q.on) = {}

AcceptAllowed(q) ==
    /\ account[q.by] = "live" /\ workspace = "live"
    /\ q.invite \in ValidFor(q.by)

DeclineAllowed(q) == Valid(q.invite)

(* Resend and cancel look at the caller, not at the invitation's status.   *)
ManageInviteAllowed(q) == Caller(q.by, Managers)

(* Not by the owner of a workspace with other members                      *)
CloseAccountAllowed(q) ==
    /\ account[q.by] = "live"
    /\ (workspace = "live" /\ q.by \in Owners) => \A p \in People \ {q.by} : ~Active(p)

Allowed(q) ==
    CASE q.op = "add"       -> AddAllowed(q)
      [] q.op = "change"    -> ChangeAllowed(q)
      [] q.op = "remove"    -> RemoveAllowed(q)
      [] q.op = "transfer"  -> TransferAllowed(q)
      [] q.op = "delete"    -> DeleteAllowed(q)
      [] q.op = "invite"    -> InviteAllowed(q)
      [] q.op = "accept"    -> AcceptAllowed(q)
      [] q.op = "decline"   -> DeclineAllowed(q)
      [] q.op \in {"resend", "cancel"} -> ManageInviteAllowed(q)
      [] q.op = "close"     -> CloseAccountAllowed(q)

(* What a call has read of the row it writes: a role, a status, and in     *)
(* delete_account whether the workspace is one the account owns.           *)
AsFound(q) ==
    [q EXCEPT !.found =
        CASE q.on \in People -> member[q.on].role
          [] q.op \in {"resend", "cancel"} -> invites[q.invite].status
          [] q.op = "close" /\ workspace = "live" /\ q.by \in Owners -> "owner"
          [] OTHER -> "member"]

Decide(r, q) == Allowed(q) /\ request' = [request EXCEPT ![r] = AsFound(q)]

(* Calls by their operation: what is in the path, the body, the token.     *)
StartRequest(r) ==
    /\ request[r] = NoRequest
    /\ calls < MaxCalls
    /\ calls' = calls + 1
    /\ \/ \E op \in {"add", "change", "invite"}, by \in People, on \in People, role \in Roles :
             Decide(r, [Anybody(op) EXCEPT !.by = by, !.on = on, !.role = role])
       \/ \E op \in {"remove", "transfer"}, by \in People, on \in People :
             Decide(r, [Anybody(op) EXCEPT !.by = by, !.on = on])
       \/ \E op \in {"delete", "close"}, by \in People :
             Decide(r, [Anybody(op) EXCEPT !.by = by])
       \/ \E op \in {"accept", "resend", "cancel"}, by \in People, i \in DOMAIN invites :
             Decide(r, [Anybody(op) EXCEPT !.by = by, !.invite = i])
       \/ \E i \in DOMAIN invites : Decide(r, [Anybody("decline") EXCEPT !.invite = i])
    /\ UNCHANGED <<account, member, workspace, invites, stale, doubled>>
-----------------------------------------------------------------------------
(* What they write, and the commit                                         *)

FoundOtherwise(q) == q.on \in People /\ q.found # member[q.on].role

Outdated(q) ==
    /\ q.op \in {"change", "remove", "transfer"}
    /\ ~Allowed(q) \/ FoundOtherwise(q)

Finish(r, op) ==
    /\ request[r].op = op
    /\ request' = [request EXCEPT ![r] = NoRequest]
    /\ UNCHANGED calls
    /\ stale' = (stale \/ Outdated(request[r]))

(* INSERT: an IntegrityError if the address has a row, removed or not.     *)
InsertMember(p, role) ==
    /\ member[p].state = "never"
    /\ member' = [member EXCEPT ![p] = [state |-> "active", role |-> role,
                                        linked |-> account[p] = "live"]]

AddMember(r) ==
    /\ Finish(r, "add")
    /\ InsertMember(request[r].on, request[r].role)
    /\ UNCHANGED <<account, workspace, invites, doubled>>

(* UPDATE ... SET role, unless the row that was read has it already        *)
ChangeRole(r) ==
    LET q == request[r] IN
    /\ Finish(r, "change")
    /\ member' = IF q.found = q.role THEN member
                 ELSE [member EXCEPT ![q.on].role = q.role]
    /\ UNCHANGED <<account, workspace, invites, doubled>>

RemoveMember(r) ==
    /\ Finish(r, "remove")
    /\ member' = [member EXCEPT ![request[r].on].state = "removed"]
    /\ UNCHANGED <<account, workspace, invites, doubled>>

TransferOwnership(r) ==
    LET q == request[r] IN
    /\ Finish(r, "transfer")
    /\ member' = [member EXCEPT ![q.on].role = IF q.found = "owner" THEN @ ELSE "owner",
                                ![q.by].role = "admin"]
    /\ UNCHANGED <<account, workspace, invites, doubled>>

DeleteWorkspace(r) ==
    /\ Finish(r, "delete")
    /\ workspace' = "deleted"
    /\ UNCHANGED <<account, member, invites, doubled>>

CreateInvitation(r) ==
    /\ Finish(r, "invite")
    /\ Len(invites) < MaxInvites
    /\ invites' = Append(invites, [to |-> request[r].on, role |-> request[r].role,
                                   status |-> "pending", expired |-> FALSE])
    /\ doubled' = (doubled \/ ~Allowed(request[r]))
    /\ UNCHANGED <<account, member, workspace>>

Settle(r, status) == invites' = [invites EXCEPT ![request[r].invite].status = status]

AcceptInvitation(r) ==
    /\ Finish(r, "accept")
    /\ InsertMember(request[r].by, invites[request[r].invite].role)
    /\ Settle(r, "accepted")
    /\ UNCHANGED <<account, workspace, doubled>>

CancelInvitation(r) ==
    /\ Finish(r, "decline") \/ Finish(r, "cancel")
    /\ IF request[r].found = "cancelled" THEN UNCHANGED invites ELSE Settle(r, "cancelled")
    /\ UNCHANGED <<account, member, workspace, doubled>>

(* A new token and expiry on the same row, and pending again               *)
ResendInvitation(r) ==
    LET i == request[r].invite IN
    /\ Finish(r, "resend")
    /\ invites' = [invites EXCEPT ![i].expired = FALSE,
                                  ![i].status = IF request[r].found = "pending" THEN @ ELSE "pending"]
    /\ doubled' = (doubled \/ ~Valid(i))
    /\ UNCHANGED <<account, member, workspace>>

(* delete_account, and what it cascades to if it found the workspace to be *)
(* its own: nobody looks again.                                            *)
CloseAccount(r) ==
    LET p == request[r].by IN
    /\ Finish(r, "close")
    /\ account' = [account EXCEPT ![p] = "deleted"]
    /\ IF request[r].found = "owner"
       THEN /\ workspace' = "deleted"
            /\ invites' = [i \in DOMAIN invites |->
                  IF invites[i].status = "pending" THEN [invites[i] EXCEPT !.status = "cancelled"]
                  ELSE invites[i]]
       ELSE UNCHANGED <<workspace, invites>>
    /\ UNCHANGED <<member, doubled>>

(* A constraint, a deadlock, or an error: nothing is written.              *)
RequestFails(r) ==
    /\ request[r] # NoRequest
    /\ request' = [request EXCEPT ![r] = NoRequest]
    /\ UNCHANGED <<account, member, workspace, invites, calls, stale, doubled>>
-----------------------------------------------------------------------------
(* register() and login(): an account for a new address (the constraint    *)
(* covers deleted ones), and link_pending_by_email.                        *)
RegisterAndLogin(p) ==
    /\ account[p] \in {"none", "live"}
    /\ account[p] = "live" => Active(p) /\ ~member[p].linked
    /\ account' = [account EXCEPT ![p] = "live"]
    /\ member' = [member EXCEPT ![p].linked = @ \/ Active(p)]
    /\ UNCHANGED <<workspace, invites, request, calls, stale, doubled>>

InvitationExpires(i) ==
    /\ ~invites[i].expired
    /\ invites' = [invites EXCEPT ![i].expired = TRUE]
    /\ UNCHANGED <<account, member, workspace, request, calls, stale, doubled>>
-----------------------------------------------------------------------------
MembershipsNext ==
    \/ \E r \in Calls :
          \/ StartRequest(r) \/ RequestFails(r)
          \/ AddMember(r) \/ ChangeRole(r) \/ RemoveMember(r)
          \/ TransferOwnership(r) \/ DeleteWorkspace(r)
          \/ CreateInvitation(r) \/ AcceptInvitation(r)
          \/ CancelInvitation(r) \/ ResendInvitation(r) \/ CloseAccount(r)
    \/ \E p \in People : RegisterAndLogin(p)
    \/ \E i \in DOMAIN invites : InvitationExpires(i)

MembershipsSpec == MembershipsInit /\ [][MembershipsNext]_membershipVars
-----------------------------------------------------------------------------
MembershipsTypeOK ==
    /\ account \in [People -> {"none", "live", "deleted"}]
    /\ member \in [People -> [state : {"never", "active", "removed"}, role : Roles,
                              linked : BOOLEAN]]
    /\ workspace \in {"live", "deleted"}
    /\ Len(invites) <= MaxInvites
    /\ \A i \in DOMAIN invites :
          /\ invites[i].to \in People /\ invites[i].role \in Roles
          /\ invites[i].status \in {"pending", "accepted", "cancelled"}
          /\ invites[i].expired \in BOOLEAN
    /\ \A r \in Calls : request[r].invite \in 0..Len(invites)

(* "The organization's last remaining OWNER can never be demoted or        *)
(* removed, to prevent an organization becoming ownerless" (the router's   *)
(* docstring): a live workspace has an owner.                              *)
NeverOwnerless == workspace = "live" => Owners # {}

(* The guards together keep an owner, whatever people do in whatever       *)
(* order, and also when calls cross, unless a change of a role, a removal  *)
(* or a transfer decided by what another call was changing: then nothing   *)
(* does (NeverOwnerless is violated).                                      *)
GuardsKeepAnOwner == ~stale => NeverOwnerless

(* "No duplicate pending invitation": an address has one link it can use,  *)
(* unless invite calls crossed or a settled or expired invitation was sent *)
(* again, which nothing prevents; and whoever has accepted one has a       *)
(* membership row, whatever crossed.                                       *)
OneWayIn ==
    \A p \in People :
        /\ ~doubled => Cardinality(ValidFor(p)) <= 1
        /\ \A i \in DOMAIN invites :
              invites[i].to = p /\ invites[i].status = "accepted" => member[p].state # "never"
=============================================================================
