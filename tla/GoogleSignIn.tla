---------------------------- MODULE GoogleSignIn -----------------------------
(***************************************************************************)
(* "Continue with Google": browsers, Google's consent page and the         *)
(* callback (api/v1/auth.py, auth/google_oauth.py, auth/service.py).       *)
(*                                                                         *)
(* A flow begins in a browser that keeps its signed state in a cookie, one *)
(* cookie for all flows.  Google sends the browser to the callback with a  *)
(* code; that URL can be opened again, later and in another browser.  The  *)
(* callback spends the code, finds out whose account it is, writes and     *)
(* answers; callbacks cross each other and their answers may be lost.      *)
(*                                                                         *)
(* A person is named after the address of a Google account, so a person's  *)
(* own account and row are one name; linking may pair any.                 *)
(***************************************************************************)
EXTENDS Naturals, Sequences

CONSTANTS
    Devices,     \* browsers
    Holders,     \* people with an address; each has a Google account
    Unknown,     \* no person or browser
    Callbacks,   \* requests to the callback in progress at one time
    MaxFlows,    \* bound: flows started
    MaxOpens     \* bound: requests to the callback

ASSUME GoogleAssumption == Unknown \notin Holders /\ MaxFlows \in Nat /\ MaxOpens \in Nat

VARIABLES
    flows,       \* the flows started: what their signed state says, and their code
    cookie,      \* cookie[d]: the flow whose state the browser keeps, 0 if none
    person,      \* person[u]: the row of users
    session,     \* session[d]: who is signed in
    callback,    \* callback[r]: a request to the callback
    visits,      \* how many there were
    grants,      \* history: the flows that gave a session or a link, in order
    sameOrigin   \* whether dashboard and API share an origin

googleVars == <<flows, cookie, person, session, callback, visits, grants, sameOrigin>>

NoPerson == [state |-> "none", password |-> FALSE, sub |-> Unknown]
NoCallback == [at |-> "idle", device |-> Unknown, flow |-> 0, target |-> Unknown,
               how |-> "none", ok |-> FALSE, clears |-> FALSE]

GoogleInit ==
    /\ flows = <<>> /\ grants = <<>> /\ visits = 0
    /\ cookie = [d \in Devices |-> 0]
    /\ person \in [Holders -> {NoPerson} \cup [state : {"active", "disabled"}, password : {TRUE}, sub : {Unknown}]]
    /\ session \in [Devices -> {u \in Holders : person[u].state = "active"} \cup {Unknown}]
    /\ callback = [r \in Callbacks |-> NoCallback]
    /\ sameOrigin \in BOOLEAN

-----------------------------------------------------------------------------
(* Browsers                                                                *)

NewFlow(mode, d, u) ==
    /\ Len(flows) < MaxFlows
    /\ flows' = Append(flows, [mode |-> mode, device |-> d, user |-> u, account |-> Unknown,
                               code |-> "none"])

(* GET /google/start is a navigation: its cookie replaces an earlier one.  *)
Start(d) ==
    /\ NewFlow("login", d, Unknown)
    /\ cookie' = [cookie EXCEPT ![d] = Len(flows')]
    /\ UNCHANGED <<person, session, callback, visits, grants, sameOrigin>>

(* POST /google/link is a fetch without credentials: the browser keeps the *)
(* cookie only if the API has the dashboard's origin.                      *)
StartLink(d) ==
    LET u == session[d] IN
    /\ u # Unknown /\ person[u].state = "active"
    /\ NewFlow("link", d, u)
    /\ cookie' = IF sameOrigin THEN [cookie EXCEPT ![d] = Len(flows')] ELSE cookie
    /\ UNCHANGED <<person, session, callback, visits, grants, sameOrigin>>

(* unlink_google: refused while Google is the only way to sign in.         *)
Unlink(d) ==
    LET u == session[d] IN
    /\ u # Unknown /\ person[u].state = "active" /\ person[u].password /\ person[u].sub # Unknown
    /\ person' = [person EXCEPT ![u].sub = Unknown]
    /\ UNCHANGED <<flows, cookie, session, callback, visits, grants, sameOrigin>>

-----------------------------------------------------------------------------
(* Google                                                                  *)

Consent(f, who) ==
    /\ flows[f].code = "none" /\ flows[f].account = Unknown
    /\ flows' = [flows EXCEPT ![f].account = who, ![f].code = "issued"]
    /\ UNCHANGED <<cookie, person, session, callback, visits, grants, sameOrigin>>

(* The callback is told of an error and clears the cookie, whichever flow  *)
(* it is of.                                                               *)
Deny(f) ==
    /\ flows[f].code = "none"
    /\ flows' = [flows EXCEPT ![f].code = "denied"]
    /\ cookie' = [cookie EXCEPT ![flows[f].device] = 0]
    /\ UNCHANGED <<person, session, callback, visits, grants, sameOrigin>>

-----------------------------------------------------------------------------
(* The callback                                                            *)

Failed(c) == [c EXCEPT !.at = "answer", !.clears = TRUE]

(* Mutation: any state the service signed will do.                         *)
AnySignedState(d, f) == TRUE

(* verify_state_match and decode_oauth_state; after ten minutes the cookie *)
(* and the state are no good any more, which refuses no less.              *)
StateMatches(d, f) == cookie[d] = f

Open(r, d, f) ==
    LET c == [NoCallback EXCEPT !.at = "exchange", !.device = d, !.flow = f] IN
    /\ callback[r] = NoCallback /\ visits < MaxOpens
    /\ flows[f].code \in {"issued", "spent"}
    /\ visits' = visits + 1
    /\ callback' = [callback EXCEPT ![r] = IF StateMatches(d, f) THEN c ELSE Failed(c)]
    /\ UNCHANGED <<flows, cookie, person, session, grants, sameOrigin>>

(* exchange_code_for_tokens and verify_google_id_token: a code is good     *)
(* once; it is spent although the answer is lost or not accepted.          *)
Exchange(r) ==
    LET c == callback[r] IN
    /\ c.at = "exchange"
    /\ \/ /\ flows[c.flow].code = "issued"
          /\ flows' = [flows EXCEPT ![c.flow].code = "spent"]
          /\ callback' \in {[callback EXCEPT ![r] = x] : x \in {[c EXCEPT !.at = "resolve"], Failed(c)}}
       \/ UNCHANGED flows /\ callback' = [callback EXCEPT ![r] = Failed(c)]
    /\ UNCHANGED <<cookie, person, session, visits, grants, sameOrigin>>

LinkedTo(who) == {u \in Holders : person[u].sub = who}
Aborted(c) == [c EXCEPT !.at = "answer"]

(* link_google, for whoever asked.                                         *)
ResolveLink(c) ==
    LET f == flows[c.flow] IN
    IF LinkedTo(f.account) \ {f.user} # {} THEN Failed(c)
    ELSE [c EXCEPT !.at = "commit", !.target = f.user, !.how = "update"]

(* login_or_register_with_google: the person linked to the account, else   *)
(* the one with its address, who is linked, else a new one.  A disabled    *)
(* person's error is nobody's: it ends the request.                        *)
ResolveLogin(c) ==
    LET who == flows[c.flow].account
        found == IF LinkedTo(who) # {} THEN LinkedTo(who)
                 ELSE {u \in {who} : person[u].state # "none"}
    IN IF found = {} THEN [c EXCEPT !.at = "commit", !.target = who, !.how = "insert"]
       ELSE LET u == CHOOSE v \in found : TRUE
            IN IF person[u].state = "disabled" THEN Aborted(c)
               ELSE [c EXCEPT !.at = "commit", !.target = u,
                              !.how = IF LinkedTo(who) = {} THEN "update" ELSE "none"]

Resolve(r) ==
    LET c == callback[r] IN
    /\ c.at = "resolve"
    /\ callback' = [callback EXCEPT ![r] = IF flows[c.flow].mode = "link" THEN ResolveLink(c) ELSE ResolveLogin(c)]
    /\ UNCHANGED <<flows, cookie, person, session, visits, grants, sameOrigin>>

(* uq_users_google_sub and uq_users_email                                  *)
Unique(c) ==
    /\ c.how = "insert" => person[c.target].state = "none"
    /\ c.how # "none" => LinkedTo(flows[c.flow].account) \subseteq {c.target}

(* The row as its columns are written; a violation ends the request.       *)
Commit(r) ==
    LET c == callback[r]
        who == flows[c.flow].account
    IN /\ c.at = "commit"
       /\ IF Unique(c)
          THEN /\ person' = CASE c.how = "insert" -> [person EXCEPT ![c.target] =
                                                        [state |-> "active", password |-> FALSE, sub |-> who]]
                              [] c.how = "update" -> [person EXCEPT ![c.target].sub = who]
                              [] c.how = "none" -> person
               /\ grants' = Append(grants, [flow |-> c.flow, device |-> c.device, user |-> c.target])
               /\ callback' = [callback EXCEPT ![r].at = "answer", ![r].ok = TRUE, ![r].clears = TRUE]
          ELSE callback' = [callback EXCEPT ![r] = Aborted(c)] /\ UNCHANGED <<person, grants>>
       /\ UNCHANGED <<flows, cookie, session, visits, sameOrigin>>

(* The dashboard takes the session over from the address it is sent to.    *)
HandOff(c) == IF c.ok /\ flows[c.flow].mode = "login" THEN [session EXCEPT ![c.device] = c.target] ELSE session

(* The redirect clears the cookie, of whichever flow it is by now.         *)
Answer(r) ==
    LET c == callback[r] IN
    /\ c.at = "answer"
    /\ cookie' = IF c.clears THEN [cookie EXCEPT ![c.device] = 0] ELSE cookie
    /\ session' = HandOff(c)
    /\ callback' = [callback EXCEPT ![r] = NoCallback]
    /\ UNCHANGED <<flows, person, visits, grants, sameOrigin>>

Lost(r) ==
    /\ callback[r].at = "answer"
    /\ callback' = [callback EXCEPT ![r] = NoCallback]
    /\ UNCHANGED <<flows, cookie, person, session, visits, grants, sameOrigin>>

GoogleNext ==
    \/ \E d \in Devices : Start(d) \/ StartLink(d) \/ Unlink(d)
    \/ \E f \in 1..Len(flows) : Deny(f) \/ \E u \in Holders : Consent(f, u)
    \/ \E r \in Callbacks : \/ \E d \in Devices, f \in 1..Len(flows) : Open(r, d, f)
                            \/ Exchange(r) \/ Resolve(r) \/ Commit(r) \/ Answer(r) \/ Lost(r)

GoogleSpec == GoogleInit /\ [][GoogleNext]_googleVars

-----------------------------------------------------------------------------
GoogleTypeOK ==
    /\ Len(flows) <= MaxFlows /\ visits \in 0..MaxOpens /\ sameOrigin \in BOOLEAN
    /\ cookie \in [Devices -> 0..MaxFlows] /\ session \in [Devices -> Holders \cup {Unknown}]
    /\ person \in [Holders -> [state : {"none", "active", "disabled"}, password : BOOLEAN, sub : Holders \cup {Unknown}]]
    /\ \A r \in Callbacks : callback[r].at \in {"idle", "exchange", "resolve", "commit", "answer"}

(* google_oauth.py:1-40: whatever crosses, a flow is finished at most      *)
(* once, and in the browser it began in; a link goes to the person who     *)
(* asked for it, and to nobody when the browser dropped the state.  An     *)
(* account belongs to one person: its address is that person's own, or the *)
(* person chose it in a flow that ended.  Everybody keeps a way to sign in *)
(* and a browser is signed in as someone who could.                        *)
GoogleSignInIsOurs ==
    /\ \A i, j \in 1..Len(grants) : i # j => grants[i].flow # grants[j].flow
    /\ \A i \in 1..Len(grants) :
          LET f == flows[grants[i].flow] IN
          /\ grants[i].device = f.device
          /\ f.mode = "link" => grants[i].user = f.user /\ sameOrigin
    /\ \A u \in Holders :
          /\ person[u].sub # Unknown =>
                /\ LinkedTo(person[u].sub) = {u}
                /\ \/ person[u].sub = u
                   \/ \E i \in 1..Len(grants) : /\ grants[i].user = u /\ flows[grants[i].flow].mode = "link"
                                                /\ flows[grants[i].flow].account = person[u].sub
          /\ person[u].state # "none" => person[u].password \/ person[u].sub # Unknown
    /\ \A d \in Devices : session[d] # Unknown => person[session[d]].state = "active"
=============================================================================
