------------------------------ MODULE Sessions ------------------------------
(***************************************************************************)
(* Sign-in and sessions of the api: the rows of users, magic_links and     *)
(* refresh_tokens, the handlers that rotate and revoke them a statement at *)
(* a time, and the refresh cookie of each browser, which all the tabs of   *)
(* the browser share and which changes when a response arrives.            *)
(*                                                                         *)
(* Abstracted: token values, drawn at random and kept as hashes, are       *)
(* numbers never drawn twice, and a family is named by its first token;    *)
(* access tokens, which no row records; mail, the addresses it refuses and *)
(* the throttling of requests.                                             *)
(***************************************************************************)
EXTENDS Integers, FiniteSets

CONSTANTS
  Emails,       \* normalized addresses
  Browsers,     \* cookie jars
  Requests,     \* requests that can be in flight together
  Tabs,         \* refreshes a browser has in flight: one for each open tab
  SignupOpen,   \* SIGNUP_OPEN
  Lossy,        \* a refresh, a logout or the answer may be lost
  DBFaults,     \* a statement may fail, or commit without its answer
  MaxToken,     \* bound: refresh tokens drawn
  MaxLink,      \* bound: magic links sent
  MaxUser       \* bound: user ids drawn

ASSUME SessionAssumption ==
  /\ Emails # {} /\ Browsers # {} /\ Requests # {}
  /\ Tabs \in Nat /\ MaxToken \in Nat /\ MaxLink \in Nat /\ MaxUser \in Nat
  /\ SignupOpen \in BOOLEAN /\ Lossy \in BOOLEAN /\ DBFaults \in BOOLEAN

VARIABLES
  users,      \* rows of users
  nextUser,
  links,      \* rows of magic_links that have not expired
  nextLink,
  tokens,     \* rows of refresh_tokens
  nextToken,
  cookie,     \* cookie[b]: the refresh token the browser b holds, 0 if none
  pc,         \* pc[r]: the statement request r is at
  loc,        \* loc[r]: what r was sent with and has read
  reused      \* history: the families revoked for reuse, and whether a
              \* rotation of theirs was under way

rows == <<users, nextUser, links, nextLink, tokens, nextToken>>
vars == <<users, nextUser, links, nextLink, tokens, nextToken, cookie,
          pc, loc, reused>>

TokenIds == 1 .. MaxToken
LinkIds  == 1 .. MaxLink
UserIds  == 1 .. MaxUser

UserRow  == [id : UserIds, email : Emails]
LinkRow  == [id : LinkIds, email : Emails]
TokenRow == [id : TokenIds, user : UserIds, family : TokenIds,
             revoked : BOOLEAN, expired : BOOLEAN]

\* The token or link a request carries, what it read, and what it issued.
Locals   == [browser : Browsers, email : Emails, link : 0 .. MaxLink,
             token : 0 .. MaxToken, user : 0 .. MaxUser,
             family : 0 .. MaxToken, new : 0 .. MaxToken]

Login   == {"claimLink", "findUser", "createUser"}
Refresh == {"claim", "lookup", "revokeFamily", "purge"}
PC      == {"idle", "issue", "answer", "logout", "cleared"} \cup Login \cup Refresh

TypeOK ==
  /\ users \subseteq UserRow
  /\ nextUser \in 1 .. MaxUser + 1
  /\ links \subseteq LinkRow
  /\ nextLink \in 1 .. MaxLink + 1
  /\ tokens \subseteq TokenRow
  /\ nextToken \in 1 .. MaxToken + 1
  /\ cookie \in [Browsers -> 0 .. MaxToken]
  /\ pc \in [Requests -> PC]
  /\ loc \in [Requests -> Locals]
  /\ reused \subseteq [family : TokenIds, racing : BOOLEAN]

NoLocals == [browser |-> CHOOSE b \in Browsers : TRUE,
             email |-> CHOOSE e \in Emails : TRUE,
             link |-> 0, token |-> 0, user |-> 0, family |-> 0, new |-> 0]

Init ==
  /\ users = {} /\ nextUser = 1
  /\ links = {} /\ nextLink = 1
  /\ tokens = {} /\ nextToken = 1
  /\ cookie = [b \in Browsers |-> 0]
  /\ pc = [r \in Requests |-> "idle"]
  /\ loc = [r \in Requests |-> NoLocals]
  /\ reused = {}

-----------------------------------------------------------------------------
(* Requests. *)

Goto(r, label) == pc' = [pc EXCEPT ![r] = label]

Finish(r) ==
  /\ Goto(r, "idle")
  /\ loc' = [loc EXCEPT ![r] = NoLocals]

Start(r, label, l) ==
  /\ pc[r] = "idle"
  /\ Goto(r, label)
  /\ loc' = [loc EXCEPT ![r] = l]
  /\ UNCHANGED <<rows, cookie, reused>>

Known(e) == \E u \in users : u.email = e

\* MagicRequest, with the link on its way to the inbox.
SendLink(e) ==
  /\ Known(e) \/ SignupOpen
  /\ nextLink <= MaxLink
  /\ links' = links \cup {[id |-> nextLink, email |-> e]}
  /\ nextLink' = nextLink + 1
  /\ UNCHANGED <<users, nextUser, tokens, nextToken, cookie, pc, loc, reused>>

ExpireLink(l) ==
  /\ links' = links \ {l}
  /\ UNCHANGED <<users, nextUser, nextLink, tokens, nextToken, cookie, pc, loc,
                 reused>>

\* A link is followed, perhaps again, from any browser.
FollowLink(r, b, l) ==
  /\ l < nextLink
  /\ Start(r, "claimLink", [NoLocals EXCEPT !.browser = b, !.link = l])

\* Google has vouched for e.
GoogleLogin(r, b, e) ==
  Start(r, "findUser", [NoLocals EXCEPT !.browser = b, !.email = e])

Refreshing(b) ==
  {q \in Requests : /\ loc[q].browser = b
                    /\ \/ pc[q] \in Refresh
                       \/ pc[q] \in {"issue", "answer"} /\ loc[q].token # 0}

SendRefresh(r, b) ==
  /\ cookie[b] # 0
  /\ Cardinality(Refreshing(b)) < Tabs
  /\ Start(r, "claim", [NoLocals EXCEPT !.browser = b, !.token = cookie[b]])

SendLogout(r, b) ==
  /\ cookie[b] # 0
  /\ Start(r, "logout", [NoLocals EXCEPT !.browser = b, !.token = cookie[b]])

\* The user closes the tab, the network drops the request or its answer, or
\* a statement fails whose error the handler returns.
Lose(r) ==
  /\ pc[r] # "idle"
  /\ Lossy \/ loc[r].token = 0
  /\ Finish(r)
  /\ UNCHANGED <<rows, cookie, reused>>

-----------------------------------------------------------------------------
(* Sign-in: MagicVerify, completeLogin and issueTokens. *)

\* Slip: the link deleted only after the session has been issued.
ReadLink(r) ==
  /\ pc[r] = "claimLink"
  /\ \/ \E l \in links :
          /\ l.id = loc[r].link
          /\ loc' = [loc EXCEPT ![r].email = l.email]
          /\ Goto(r, "findUser")
     \/ /\ \A l \in links : l.id # loc[r].link
        /\ Finish(r)
  /\ UNCHANGED <<rows, cookie, reused>>

ClaimLink(r) ==
  /\ pc[r] = "claimLink"
  /\ \/ \E l \in links :
          /\ l.id = loc[r].link
          /\ links' = links \ {l}
          /\ loc' = [loc EXCEPT ![r].email = l.email]
          /\ Goto(r, "findUser")
     \/ /\ \A l \in links : l.id # loc[r].link
        /\ Finish(r)
        /\ UNCHANGED links
  /\ UNCHANGED <<users, nextUser, nextLink, tokens, nextToken, cookie, reused>>

FindUser(r) ==
  /\ pc[r] = "findUser"
  /\ \/ \E u \in users :
          /\ u.email = loc[r].email
          /\ loc' = [loc EXCEPT ![r].user = u.id]
          /\ Goto(r, "issue")
     \/ ~Known(loc[r].email) /\ SignupOpen /\ Goto(r, "createUser") /\ UNCHANGED loc
     \/ ~Known(loc[r].email) /\ ~SignupOpen /\ Finish(r)
  /\ UNCHANGED <<rows, cookie, reused>>

\* Slip: the select before it would do.
AdmitsAnyone(e) == TRUE

\* The unique constraint on email: the second of two inserts fails.
Admits(e) == ~Known(e)

CreateUser(r) ==
  /\ pc[r] = "createUser"
  /\ nextUser <= MaxUser
  /\ IF Admits(loc[r].email)
       THEN /\ users' = users \cup {[id |-> nextUser, email |-> loc[r].email]}
            /\ nextUser' = nextUser + 1
            /\ loc' = [loc EXCEPT ![r].user = nextUser]
            /\ Goto(r, "issue")
       ELSE Finish(r) /\ UNCHANGED <<users, nextUser>>
  /\ UNCHANGED <<links, nextLink, tokens, nextToken, cookie, reused>>

\* completeLogin names a new family, Refresh stays in the one it claimed.
FamilyOf(r) == IF loc[r].family = 0 THEN nextToken ELSE loc[r].family

\* The foreign key on users fails the insert once the account is gone.
Issue(r) ==
  /\ pc[r] = "issue"
  /\ nextToken <= MaxToken
  /\ IF \E u \in users : u.id = loc[r].user
       THEN /\ tokens' = tokens \cup
                 {[id |-> nextToken, user |-> loc[r].user, family |-> FamilyOf(r),
                   revoked |-> FALSE, expired |-> FALSE]}
            /\ nextToken' = nextToken + 1
            /\ loc' = [loc EXCEPT ![r].new = nextToken]
            /\ Goto(r, "answer")
       ELSE Finish(r) /\ UNCHANGED <<tokens, nextToken>>
  /\ UNCHANGED <<users, nextUser, links, nextLink, cookie, reused>>

\* The answer arrives, and with it the cookie.
Answer(r) ==
  /\ pc[r] = "answer"
  /\ cookie' = [cookie EXCEPT ![loc[r].browser] = loc[r].new]
  /\ Finish(r)
  /\ UNCHANGED <<rows, reused>>

-----------------------------------------------------------------------------
(* Refresh and Logout. *)

Claimable(t, r) == t.id = loc[r].token /\ ~t.revoked /\ ~t.expired

Revoke(T) == {IF t \in T THEN [t EXCEPT !.revoked = TRUE] ELSE t : t \in tokens}

\* Slip: the token read first and revoked when its successor is stored.
ClaimByReading(r) ==
  /\ pc[r] = "claim"
  /\ \/ \E t \in tokens :
          /\ Claimable(t, r)
          /\ loc' = [loc EXCEPT ![r].user = t.user, ![r].family = t.family]
          /\ Goto(r, "purge")
     \/ /\ ~\E t \in tokens : Claimable(t, r)
        /\ Goto(r, "lookup") /\ UNCHANGED loc
  /\ UNCHANGED <<rows, cookie, reused>>

\* One update takes the token; the claim of an error has no row to go on with.
Claim(r) ==
  /\ pc[r] = "claim"
  /\ \/ \E t \in tokens :
          /\ Claimable(t, r)
          /\ tokens' = Revoke({t})
          /\ \/ /\ loc' = [loc EXCEPT ![r].user = t.user, ![r].family = t.family]
                /\ Goto(r, "purge")
             \/ DBFaults /\ Goto(r, "lookup") /\ UNCHANGED loc
     \/ /\ DBFaults \/ ~\E t \in tokens : Claimable(t, r)
        /\ Goto(r, "lookup") /\ UNCHANGED <<tokens, loc>>
  /\ UNCHANGED <<users, nextUser, links, nextLink, nextToken, cookie, reused>>

Lookup(r) ==
  /\ pc[r] = "lookup"
  /\ \/ \E t \in tokens :
          /\ t.id = loc[r].token /\ t.revoked
          /\ loc' = [loc EXCEPT ![r].family = t.family]
          /\ Goto(r, "revokeFamily")
     \/ /\ ~\E t \in tokens : t.id = loc[r].token /\ t.revoked
        /\ Finish(r)
  /\ UNCHANGED <<rows, cookie, reused>>

\* Slip: only the reused token is revoked, once more.
FamilyHead(f) == {t \in tokens : t.id = f}

Family(f) == {t \in tokens : t.family = f}

\* The requests that have claimed a token of f and not yet stored the next.
Rotating(f) ==
  {q \in Requests : pc[q] \in {"purge", "issue"} /\ loc[q].family = f}

RevokeFamily(r) ==
  /\ pc[r] = "revokeFamily"
  /\ LET f == loc[r].family IN
       /\ tokens' = Revoke(Family(f))
       /\ reused' = reused \cup {[family |-> f, racing |-> Rotating(f) # {}]}
  /\ Finish(r)
  /\ UNCHANGED <<users, nextUser, links, nextLink, nextToken, cookie>>

\* The errors of Purge and of Logout are ignored.
Purge(r) ==
  /\ pc[r] = "purge"
  /\ \/ tokens' = {t \in tokens : ~t.expired}
     \/ DBFaults /\ UNCHANGED tokens
  /\ Goto(r, "issue")
  /\ UNCHANGED <<users, nextUser, links, nextLink, nextToken, cookie, loc, reused>>

Logout(r) ==
  /\ pc[r] = "logout"
  /\ \/ tokens' = {t \in tokens : t.id # loc[r].token}
     \/ DBFaults /\ UNCHANGED tokens
  /\ Goto(r, "cleared")
  /\ UNCHANGED <<users, nextUser, links, nextLink, nextToken, cookie, loc, reused>>

Cleared(r) ==
  /\ pc[r] = "cleared"
  /\ cookie' = [cookie EXCEPT ![loc[r].browser] = 0]
  /\ Finish(r)
  /\ UNCHANGED <<rows, reused>>

-----------------------------------------------------------------------------

ExpireToken(t) ==
  /\ ~t.expired
  /\ tokens' = (tokens \ {t}) \cup {[t EXCEPT !.expired = TRUE]}
  /\ UNCHANGED <<users, nextUser, links, nextLink, nextToken, cookie, pc, loc,
                 reused>>

\* Slip: refresh_tokens without the cascade.
UserTokensKept(u) == {}

UserTokens(u) == {t \in tokens : t.user = u.id}

\* The browser that asked loses its cookie; the others keep theirs.
DeleteAccount(u, b) ==
  /\ users' = users \ {u}
  /\ tokens' = tokens \ UserTokens(u)
  /\ cookie' = [cookie EXCEPT ![b] = 0]
  /\ UNCHANGED <<nextUser, links, nextLink, nextToken, pc, loc, reused>>

Step(r) ==
  \/ ClaimLink(r) \/ FindUser(r) \/ CreateUser(r) \/ Issue(r) \/ Answer(r)
  \/ Claim(r) \/ Lookup(r) \/ RevokeFamily(r) \/ Purge(r)
  \/ Logout(r) \/ Cleared(r)

Next ==
  \/ \E e \in Emails : SendLink(e)
  \/ \E l \in links : ExpireLink(l)
  \/ \E t \in tokens : ExpireToken(t)
  \/ \E u \in users, b \in Browsers : DeleteAccount(u, b)
  \/ \E r \in Requests :
       \/ \E b \in Browsers :
            \/ \E l \in LinkIds : FollowLink(r, b, l)
            \/ \E e \in Emails : GoogleLogin(r, b, e)
            \/ SendRefresh(r, b) \/ SendLogout(r, b)
       \/ Lose(r)
       \/ Step(r)

Spec == Init /\ [][Next]_vars

-----------------------------------------------------------------------------
(* Properties. *)

Usable(f) == {t \in tokens : t.family = f /\ ~t.revoked}

(***************************************************************************)
(* A session is a chain: whatever refreshes of it run at once, a family    *)
(* has one token that can be claimed, or one request about to store it.    *)
(***************************************************************************)
OneLiveToken ==
  \A f \in TokenIds :
    /\ \A s, t \in Usable(f) : s = t
    /\ \A q, r \in Rotating(f) : q = r
    /\ Usable(f) = {} \/ Rotating(f) = {}

(***************************************************************************)
(* A deleted account has no session: its tokens went with it and a refresh *)
(* or a sign-in under way does not bring one back.                         *)
(***************************************************************************)
NoSessionWithoutAccount ==
  \A t \in tokens : \E u \in users : u.id = t.user

(***************************************************************************)
(* An address has one account, also if it signs in for the first time by   *)
(* two requests at once, which both select before either inserts           *)
(* (auth_handlers.go 93-109).                                              *)
(***************************************************************************)
OneAccount == \A u, v \in users : u.email = v.email => u = v

(***************************************************************************)
(* A link that a request has claimed can open no other session.            *)
(***************************************************************************)
LinkUsedOnce ==
  \A r \in Requests :
    pc[r] \in {"findUser", "createUser", "issue", "answer"} /\ loc[r].link # 0
    => /\ \A l \in links : l.id # loc[r].link
       /\ \A q \in Requests \ {r} :
            loc[q].link = loc[r].link => pc[q] = "claimLink"

(***************************************************************************)
(* The documented reaction to a reused token: its family has no token left *)
(* that could be claimed.                                                  *)
(***************************************************************************)
ReuseEndsFamily ==
  \A u \in reused : Usable(u.family) = {}

(***************************************************************************)
(* The same when no rotation of the family was under way, for good.        *)
(***************************************************************************)
SettledReuseEndsFamily ==
  \A u \in reused :
    ~u.racing => Usable(u.family) = {} /\ Rotating(u.family) = {}

=============================================================================
