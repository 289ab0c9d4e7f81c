--------------------------- MODULE SessionsProofs ---------------------------
(***************************************************************************)
(* Theorems about the sessions, for every number of browsers, tabs and     *)
(* requests: a family is a chain of tokens, it ends when a reuse is seen   *)
(* at rest, no token outlives its account, an address has one account, and *)
(* a link opens one session.                                               *)
(***************************************************************************)
EXTENDS Sessions, TLAPS

LEMMA NoLocalsType == NoLocals \in Locals
BY SessionAssumption DEF NoLocals, Locals

LEMMA InitType == Init => TypeOK
BY NoLocalsType, SessionAssumption DEF Init, TypeOK, PC

\* The rows and counters that the step of a request leaves well-typed.
LEMMA StartType ==
  ASSUME TypeOK, NEW r \in Requests, NEW label \in PC, NEW l \in Locals,
         Start(r, label, l)
  PROVE  TypeOK'
BY DEF TypeOK, Start, Goto, rows

LEMMA FinishType ==
  ASSUME TypeOK, NEW r \in Requests, Finish(r)
  PROVE  pc' \in [Requests -> PC] /\ loc' \in [Requests -> Locals]
BY NoLocalsType DEF TypeOK, Finish, Goto, PC

LEMMA SendType ==
  ASSUME TypeOK, NEW r \in Requests, NEW b \in Browsers,
         \/ \E l \in LinkIds : FollowLink(r, b, l)
         \/ \E e \in Emails : GoogleLogin(r, b, e)
         \/ SendRefresh(r, b)
         \/ SendLogout(r, b)
  PROVE  TypeOK'
<1>1. ASSUME NEW l \in LinkIds, FollowLink(r, b, l)
      PROVE  TypeOK'
  <2>1. [NoLocals EXCEPT !.browser = b, !.link = l] \in Locals
    <3>1. l \in 0 .. MaxLink
      BY SessionAssumption DEF LinkIds
    <3> QED
      BY <3>1, NoLocalsType DEF Locals
  <2> QED
    BY <1>1, <2>1, StartType DEF FollowLink, PC, Login
<1>2. ASSUME NEW e \in Emails, GoogleLogin(r, b, e)
      PROVE  TypeOK'
  <2>1. [NoLocals EXCEPT !.browser = b, !.email = e] \in Locals
    BY NoLocalsType DEF Locals
  <2> QED
    BY <1>2, <2>1, StartType DEF GoogleLogin, PC, Login
<1>3. CASE SendRefresh(r, b) \/ SendLogout(r, b)
  <2>1. [NoLocals EXCEPT !.browser = b, !.token = cookie[b]] \in Locals
    BY NoLocalsType DEF Locals, TypeOK
  <2> QED
    BY <1>3, <2>1, StartType DEF SendRefresh, SendLogout, PC, Refresh
<1> QED
  BY <1>1, <1>2, <1>3

LEMMA RevokeType ==
  ASSUME TypeOK, NEW T
  PROVE  Revoke(T) \subseteq TokenRow
BY DEF TypeOK, Revoke, TokenRow

LEMMA StepType ==
  ASSUME TypeOK, NEW r \in Requests, Step(r),
         pc[r] = "revokeFamily" => loc[r].family # 0
  PROVE  TypeOK'
<1>1. loc[r] \in Locals /\ pc \in [Requests -> PC] /\ loc \in [Requests -> Locals]
  BY DEF TypeOK
<1>2. CASE ClaimLink(r)
  <2>1. CASE Finish(r) /\ UNCHANGED links
    BY <1>2, <2>1, FinishType DEF ClaimLink, TypeOK
  <2>2. ASSUME NEW l \in links, links' = links \ {l}, Goto(r, "findUser"),
               loc' = [loc EXCEPT ![r].email = l.email]
        PROVE  TypeOK'
    <3>1. [loc[r] EXCEPT !.email = l.email] \in Locals
      BY <1>1 DEF TypeOK, LinkRow, Locals
    <3> QED
      BY <1>2, <2>2, <3>1 DEF ClaimLink, TypeOK, Goto, PC, Login
  <2> QED
    BY <1>2, <2>1, <2>2 DEF ClaimLink
<1>3. CASE FindUser(r)
  <2>1. CASE Finish(r)
    BY <1>3, <2>1, FinishType DEF FindUser, TypeOK, rows
  <2>2. CASE Goto(r, "createUser") /\ UNCHANGED loc
    BY <1>3, <2>2 DEF FindUser, TypeOK, Goto, PC, Login, rows
  <2>3. ASSUME NEW u \in users, loc' = [loc EXCEPT ![r].user = u.id], Goto(r, "issue")
        PROVE  TypeOK'
    <3>1. [loc[r] EXCEPT !.user = u.id] \in Locals
      BY <1>1, SessionAssumption DEF TypeOK, UserRow, UserIds, Locals
    <3> QED
      BY <1>3, <2>3, <3>1 DEF FindUser, TypeOK, Goto, PC, rows
  <2> QED
    BY <1>3, <2>1, <2>2, <2>3 DEF FindUser
<1>4. CASE CreateUser(r)
  <2>1. CASE Finish(r) /\ UNCHANGED <<users, nextUser>>
    BY <1>4, <2>1, FinishType DEF CreateUser, TypeOK
  <2>2. CASE /\ users' = users \cup {[id |-> nextUser, email |-> loc[r].email]}
             /\ nextUser' = nextUser + 1
             /\ loc' = [loc EXCEPT ![r].user = nextUser]
             /\ Goto(r, "issue")
    <3>1. nextUser \in UserIds /\ nextUser + 1 \in 1 .. MaxUser + 1
      BY <1>4, SessionAssumption DEF CreateUser, TypeOK, UserIds
    <3>2. /\ [loc[r] EXCEPT !.user = nextUser] \in Locals
          /\ [id |-> nextUser, email |-> loc[r].email] \in UserRow
      BY <1>1, <3>1, SessionAssumption DEF Locals, UserRow, UserIds
    <3> QED
      BY <1>4, <2>2, <3>1, <3>2 DEF CreateUser, TypeOK, Goto, PC
  <2> QED
    BY <1>4, <2>1, <2>2 DEF CreateUser
<1>5. CASE Issue(r)
  <2>1. CASE Finish(r) /\ UNCHANGED <<tokens, nextToken>>
    BY <1>5, <2>1, FinishType DEF Issue, TypeOK
  <2>2. ASSUME NEW u \in users, u.id = loc[r].user,
               tokens' = tokens \cup
                 {[id |-> nextToken, user |-> loc[r].user, family |-> FamilyOf(r),
                   revoked |-> FALSE, expired |-> FALSE]},
               nextToken' = nextToken + 1,
               loc' = [loc EXCEPT ![r].new = nextToken],
               Goto(r, "answer")
        PROVE  TypeOK'
    <3>1. nextToken \in TokenIds /\ nextToken + 1 \in 1 .. MaxToken + 1
      BY <1>5, SessionAssumption DEF Issue, TypeOK, TokenIds
    <3>2. FamilyOf(r) \in TokenIds /\ loc[r].user \in UserIds
      BY <1>1, <2>2, <3>1, SessionAssumption
         DEF FamilyOf, Locals, TokenIds, TypeOK, UserRow
    <3>3. /\ [loc[r] EXCEPT !.new = nextToken] \in Locals
          /\ [id |-> nextToken, user |-> loc[r].user, family |-> FamilyOf(r),
              revoked |-> FALSE, expired |-> FALSE] \in TokenRow
      BY <1>1, <3>1, <3>2, SessionAssumption DEF Locals, TokenRow, TokenIds
    <3> QED
      BY <1>5, <2>2, <3>1, <3>3 DEF Issue, TypeOK, Goto, PC
  <2> QED
    BY <1>5, <2>1, <2>2 DEF Issue
<1>6. CASE Answer(r) \/ Cleared(r)
  <2>1. loc[r].new \in 0 .. MaxToken /\ 0 \in 0 .. MaxToken
    BY <1>1, SessionAssumption DEF Locals
  <2> QED
    BY <1>6, <2>1, FinishType DEF Answer, Cleared, TypeOK, rows
<1>7. CASE Claim(r)
  <2>1. CASE Goto(r, "lookup") /\ UNCHANGED loc /\ tokens' \subseteq TokenRow
    BY <1>7, <2>1 DEF Claim, TypeOK, Goto, PC, Refresh
  <2>2. ASSUME NEW t \in tokens, tokens' = Revoke({t}), Goto(r, "purge"),
               loc' = [loc EXCEPT ![r].user = t.user, ![r].family = t.family]
        PROVE  TypeOK'
    <3>1. t.user \in 0 .. MaxUser /\ t.family \in 0 .. MaxToken
      BY SessionAssumption DEF TypeOK, TokenRow, TokenIds, UserIds
    <3>3. [loc[r] EXCEPT !.user = t.user, !.family = t.family] \in Locals
      BY <1>1, <3>1 DEF Locals
    <3>2. loc' \in [Requests -> Locals]
      BY <1>1, <2>2, <3>3
    <3> QED
      BY <1>7, <2>2, <3>2, RevokeType DEF Claim, TypeOK, Goto, PC, Refresh
  <2> QED
    BY <1>7, <2>1, <2>2, RevokeType DEF Claim, TypeOK
<1>8. CASE Lookup(r)
  <2>1. CASE Finish(r)
    BY <1>8, <2>1, FinishType DEF Lookup, TypeOK, rows
  <2>2. ASSUME NEW t \in tokens, loc' = [loc EXCEPT ![r].family = t.family],
               Goto(r, "revokeFamily")
        PROVE  TypeOK'
    <3>1. [loc[r] EXCEPT !.family = t.family] \in Locals
      BY <1>1, SessionAssumption DEF TypeOK, TokenRow, TokenIds, Locals
    <3> QED
      BY <1>8, <2>2, <3>1 DEF Lookup, TypeOK, Goto, PC, Refresh, rows
  <2> QED
    BY <1>8, <2>1, <2>2 DEF Lookup
<1>9. CASE Purge(r) \/ Logout(r)
  BY <1>9 DEF Purge, Logout, TypeOK, Goto, PC
<1>10. CASE RevokeFamily(r)
  <2>1. loc[r].family \in TokenIds
    BY <1>1, <1>10, SessionAssumption DEF RevokeFamily, Locals, TokenIds
  <2>2. [family |-> loc[r].family, racing |-> Rotating(loc[r].family) # {}]
          \in [family : TokenIds, racing : BOOLEAN]
    BY <2>1
  <2> QED
    BY <1>10, <2>2, FinishType, RevokeType DEF RevokeFamily, TypeOK
<1> QED
  BY <1>2, <1>3, <1>4, <1>5, <1>6, <1>7, <1>8, <1>9, <1>10 DEF Step

LEMMA NextType ==
  ASSUME TypeOK, [Next]_vars,
         \A r \in Requests : pc[r] = "revokeFamily" => loc[r].family # 0
  PROVE  TypeOK'
<1>1. ASSUME NEW e \in Emails, SendLink(e)
      PROVE  TypeOK'
  <2>1. nextLink \in LinkIds /\ nextLink + 1 \in 1 .. MaxLink + 1
    BY <1>1, SessionAssumption DEF SendLink, TypeOK, LinkIds
  <2> QED
    BY <1>1, <2>1 DEF SendLink, TypeOK, LinkRow
<1>2. ASSUME NEW l \in links, ExpireLink(l)
      PROVE  TypeOK'
  BY <1>2 DEF ExpireLink, TypeOK
<1>3. ASSUME NEW t \in tokens, ExpireToken(t)
      PROVE  TypeOK'
  <2>1. [t EXCEPT !.expired = TRUE] \in TokenRow
    BY DEF TypeOK, TokenRow
  <2> QED
    BY <1>3, <2>1 DEF ExpireToken, TypeOK
<1>4. ASSUME NEW u \in users, NEW b \in Browsers, DeleteAccount(u, b)
      PROVE  TypeOK'
  <2>1. 0 \in 0 .. MaxToken
    BY SessionAssumption
  <2> QED
    BY <1>4, <2>1 DEF DeleteAccount, TypeOK
<1>5. ASSUME NEW r \in Requests, Lose(r)
      PROVE  TypeOK'
  BY <1>5, FinishType DEF Lose, TypeOK, rows
<1>6. CASE UNCHANGED vars
  BY <1>6 DEF TypeOK, vars
<1> QED
  BY <1>1, <1>2, <1>3, <1>4, <1>5, <1>6, SendType, StepType DEF Next

-----------------------------------------------------------------------------
(* A family is a chain. *)

\* Families are named once: what is held of one was named before.
Fresh ==
  /\ \A t \in tokens : t.family < nextToken
  /\ \A u \in reused : u.family < nextToken
  /\ \A r \in Requests :
       /\ loc[r].family < nextToken
       /\ pc[r] \in Login => loc[r].family = 0
       /\ pc[r] = "revokeFamily" => loc[r].family # 0

ChainInv == TypeOK /\ Fresh /\ OneLiveToken /\ SettledReuseEndsFamily

\* The step is one of request r.
Only(r) == \A q \in Requests \ {r} : pc'[q] = pc[q] /\ loc'[q] = loc[q]

LEMMA FinishOnly ==
  ASSUME TypeOK, NEW r \in Requests, Finish(r)
  PROVE  Only(r) /\ pc'[r] = "idle" /\ loc'[r].family = 0
BY DEF TypeOK, Finish, Goto, Only, NoLocals

LEMMA GotoOnly ==
  ASSUME TypeOK, NEW r \in Requests, NEW label, Goto(r, label),
         NEW l, loc' = [loc EXCEPT ![r] = l]
  PROVE  Only(r) /\ pc'[r] = label /\ loc'[r] = l
BY DEF TypeOK, Goto, Only

LEMMA RotatingStep ==
  ASSUME TypeOK, NEW r \in Requests, Only(r), NEW f
  PROVE  /\ Rotating(f)' \subseteq Rotating(f) \cup {r}
         /\ r \in Rotating(f)'
            <=> pc'[r] \in {"purge", "issue"} /\ loc'[r].family = f
         /\ r \in Rotating(f)
            <=> pc[r] \in {"purge", "issue"} /\ loc[r].family = f
         /\ Rotating(f) \ {r} \subseteq Rotating(f)'
BY DEF Rotating, Only

LEMMA FreshStep ==
  ASSUME TypeOK, Fresh, NEW r \in Requests, Only(r),
         UNCHANGED <<nextToken, reused>>,
         \A t \in tokens' : t.family < nextToken,
         loc'[r].family < nextToken,
         pc'[r] \in Login => loc'[r].family = 0,
         pc'[r] = "revokeFamily" => loc'[r].family # 0
  PROVE  Fresh'
<1>1. ASSUME NEW q \in Requests
      PROVE  /\ loc'[q].family < nextToken
             /\ pc'[q] \in Login => loc'[q].family = 0
             /\ pc'[q] = "revokeFamily" => loc'[q].family # 0
  BY DEF Fresh, Only
<1> QED
  BY <1>1 DEF Fresh, Login

(***************************************************************************)
(* Steps that give no family a usable token or a rotation.                 *)
(***************************************************************************)
LEMMA ShrinkKeeps ==
  ASSUME ChainInv, UNCHANGED reused,
         \A f \in TokenIds : /\ Usable(f)' \subseteq Usable(f)
                             /\ Rotating(f)' \subseteq Rotating(f)
  PROVE  OneLiveToken' /\ SettledReuseEndsFamily'
<1>1. OneLiveToken'
  BY DEF ChainInv, OneLiveToken
<1>2. \A u \in reused : u.family \in TokenIds
  BY DEF ChainInv, TypeOK
<1>3. SettledReuseEndsFamily'
  BY <1>2 DEF ChainInv, SettledReuseEndsFamily
<1> QED
  BY <1>1, <1>3

\* Such a step of one request.
LEMMA QuietStep ==
  ASSUME ChainInv, TypeOK', NEW r \in Requests, Only(r),
         UNCHANGED <<nextToken, reused>>,
         \A t \in tokens' : t \in tokens,
         loc'[r].family < nextToken,
         pc'[r] \in Login => loc'[r].family = 0,
         pc'[r] = "revokeFamily" => loc'[r].family # 0,
         \/ pc'[r] \notin {"purge", "issue"}
         \/ loc'[r].family = 0
         \/ pc[r] \in {"purge", "issue"} /\ loc'[r].family = loc[r].family
  PROVE  ChainInv'
<1>1. Fresh'
  BY FreshStep DEF ChainInv, Fresh
<1>2. ASSUME NEW f \in TokenIds
      PROVE  Usable(f)' \subseteq Usable(f) /\ Rotating(f)' \subseteq Rotating(f)
  <2>1. f # 0
    BY SessionAssumption DEF TokenIds
  <2>2. Usable(f)' \subseteq Usable(f)
    BY DEF Usable
  <2> QED
    BY <2>1, <2>2, RotatingStep DEF ChainInv
<1>3. OneLiveToken' /\ SettledReuseEndsFamily'
  BY <1>2, ShrinkKeeps
<1> QED
  BY <1>1, <1>3 DEF ChainInv

LEMMA RevokedRows ==
  ASSUME TypeOK, NEW T \in SUBSET tokens
  PROVE  /\ \A t \in Revoke(T) : \E s \in tokens : t.family = s.family
         /\ \A t \in Revoke(T) : ~t.revoked => t \in tokens /\ t \notin T
<1>1. ASSUME NEW t \in Revoke(T)
      PROVE  /\ \E s \in tokens : t.family = s.family
             /\ ~t.revoked => t \in tokens /\ t \notin T
  <2>1. PICK s \in tokens : t = IF s \in T THEN [s EXCEPT !.revoked = TRUE] ELSE s
    BY <1>1 DEF Revoke
  <2>2. s \in TokenRow
    BY DEF TypeOK
  <2>3. CASE s \in T
    <3>1. t.revoked = TRUE /\ t.family = s.family
      BY <2>1, <2>2, <2>3 DEF TokenRow
    <3> QED
      BY <3>1
  <2>4. CASE s \notin T
    BY <2>1, <2>4
  <2> QED
    BY <2>3, <2>4
<1> QED
  BY <1>1

LEMMA ClaimKeeps ==
  ASSUME ChainInv, TypeOK', NEW r \in Requests, Claim(r)
  PROVE  ChainInv'
<1>0. TypeOK /\ pc[r] = "claim" /\ loc[r].family < nextToken
      /\ UNCHANGED <<nextToken, reused>>
  BY DEF ChainInv, Fresh, Claim
<1>1. CASE Goto(r, "lookup") /\ UNCHANGED <<tokens, loc>>
  <2>1. Only(r) /\ pc'[r] = "lookup" /\ loc'[r] = loc[r]
    BY <1>0, <1>1 DEF Goto, Only, TypeOK
  <2> QED
    BY <1>0, <1>1, <2>1, QuietStep DEF Login
<1>2. ASSUME NEW t \in tokens, Claimable(t, r), tokens' = Revoke({t})
      PROVE  /\ \A s \in tokens' : s.family < nextToken
             /\ \A f : Usable(f)' \subseteq Usable(f)
             /\ Usable(t.family)' = {} /\ Usable(t.family) # {}
             /\ t.family \in TokenIds
  <2>1. /\ \A s \in tokens' : \E q \in tokens : s.family = q.family
        /\ \A s \in tokens' : ~s.revoked => s \in tokens /\ s # t
    BY <1>0, <1>2, RevokedRows
  <2>2. t.family \in TokenIds
    BY <1>0 DEF TypeOK, TokenRow
  <2>3. t \in Usable(t.family)
    BY <1>2 DEF Usable, Claimable
  <2>4. \A s \in Usable(t.family) : s = t
    BY <2>2, <2>3 DEF ChainInv, OneLiveToken
  <2>5. \A f : Usable(f)' \subseteq Usable(f)
    BY <2>1 DEF Usable
  <2>6. Usable(t.family)' = {}
    BY <2>1, <2>4, <2>5 DEF Usable
  <2> QED
    BY <2>1, <2>2, <2>3, <2>5, <2>6 DEF ChainInv, Fresh
<1>3. ASSUME NEW t \in tokens, Claimable(t, r), tokens' = Revoke({t}),
             Goto(r, "lookup"), UNCHANGED loc
      PROVE  ChainInv'
  <2>1. Only(r) /\ pc'[r] = "lookup" /\ loc'[r] = loc[r]
    BY <1>0, <1>3 DEF Goto, Only, TypeOK
  <2>2. Fresh'
    BY <1>0, <1>2, <1>3, <2>1, FreshStep DEF ChainInv, Login
  <2>3. \A f \in TokenIds : Rotating(f)' \subseteq Rotating(f)
    BY <1>0, <2>1, RotatingStep
  <2>4. OneLiveToken' /\ SettledReuseEndsFamily'
    BY <1>0, <1>2, <1>3, <2>3, ShrinkKeeps
  <2> QED
    BY <2>2, <2>4 DEF ChainInv
<1>4. ASSUME NEW t \in tokens, Claimable(t, r), tokens' = Revoke({t}),
             Goto(r, "purge"),
             loc' = [loc EXCEPT ![r].user = t.user, ![r].family = t.family]
      PROVE  ChainInv'
  <2>1. loc[r] \in Locals
    BY <1>0 DEF TypeOK
  <2>2. Only(r) /\ pc'[r] = "purge" /\ loc'[r].family = t.family
    BY <1>0, <1>4, <2>1 DEF Goto, Only, TypeOK, Locals
  <2>3. t.family < nextToken
    BY DEF ChainInv, Fresh
  <2>4. Fresh'
    BY <1>0, <1>2, <1>4, <2>2, <2>3, FreshStep DEF ChainInv, Login
  <2>5. Rotating(t.family) = {}
    BY <1>2, <1>4 DEF ChainInv, OneLiveToken
  <2>6. /\ Rotating(t.family)' \subseteq {r}
        /\ \A f \in TokenIds : f # t.family => Rotating(f)' \subseteq Rotating(f)
    BY <1>0, <2>2, <2>5, RotatingStep
  <2>7. OneLiveToken'
    BY <1>2, <1>4, <2>6 DEF ChainInv, OneLiveToken
  <2>8. SettledReuseEndsFamily'
    <3>1. ASSUME NEW u \in reused, ~u.racing
          PROVE  Usable(u.family)' = {} /\ Rotating(u.family)' = {}
      <4>1. Usable(u.family) = {} /\ Rotating(u.family) = {} /\ u.family \in TokenIds
        BY <1>0, <3>1 DEF ChainInv, SettledReuseEndsFamily, TypeOK
      <4>2. u.family # t.family
        BY <1>2, <1>4, <4>1
      <4> QED
        BY <1>2, <1>4, <2>6, <4>1, <4>2
    <3> QED
      BY <1>0, <3>1 DEF SettledReuseEndsFamily
  <2> QED
    BY <2>4, <2>7, <2>8 DEF ChainInv
<1> QED
  BY <1>1, <1>3, <1>4 DEF Claim

LEMMA IssueKeeps ==
  ASSUME ChainInv, TypeOK', NEW r \in Requests, Issue(r)
  PROVE  ChainInv'
<1>0. TypeOK /\ pc[r] = "issue" /\ reused' = reused
  BY DEF ChainInv, Issue
<1>1. CASE Finish(r) /\ UNCHANGED <<tokens, nextToken>>
  <2>1. Only(r) /\ pc'[r] = "idle" /\ loc'[r].family = 0 /\ 0 < nextToken
    BY <1>0, <1>1, FinishOnly, SessionAssumption DEF TypeOK
  <2> QED
    BY <1>0, <1>1, <2>1, QuietStep DEF Login
<1>2. ASSUME NEW n, n.family = FamilyOf(r), ~n.revoked,
             tokens' = tokens \cup {n}, nextToken' = nextToken + 1,
             loc' = [loc EXCEPT ![r].new = nextToken], Goto(r, "answer")
      PROVE  ChainInv'
  <2>1. /\ nextToken \in TokenIds /\ nextToken' > nextToken
        /\ \A f \in TokenIds : f < nextToken => f < nextToken'
    BY <1>0, <1>2, SessionAssumption DEF Issue, TypeOK, TokenIds
  <2>2. loc[r] \in Locals /\ loc[r].family < nextToken
    BY <1>0 DEF TypeOK, ChainInv, Fresh
  <2>3. Only(r) /\ pc'[r] = "answer" /\ loc'[r].family = loc[r].family
    BY <1>0, <1>2, <2>2 DEF Goto, Only, TypeOK, Locals
  <2>. PICK g : g = FamilyOf(r)
    OBVIOUS
  <2>4. \A f : /\ f # g => Usable(f)' = Usable(f)
               /\ Usable(f)' \subseteq Usable(f) \cup {n}
    BY <1>2 DEF Usable
  <2>5. \A f : Rotating(f)' = Rotating(f) \ {r}
    BY <1>0, <2>3, RotatingStep
  <2>6. g \in TokenIds /\ g < nextToken'
    BY <2>1, <2>2, SessionAssumption DEF FamilyOf, Locals, TokenIds
  <2>7. Usable(g) = {} /\ Rotating(g)' = {}
        /\ \A u \in reused : ~u.racing => u.family # g
    <3>1. CASE loc[r].family = 0
      <4>1. g = nextToken
        BY <3>1 DEF FamilyOf
      <4>2. /\ \A t \in tokens : t.family # nextToken
            /\ \A q \in Requests : loc[q].family # nextToken
            /\ \A u \in reused : u.family # nextToken
        BY <2>1, SessionAssumption DEF ChainInv, Fresh, TokenIds
      <4> QED
        BY <2>5, <4>1, <4>2 DEF Usable, Rotating
    <3>2. CASE loc[r].family # 0
      <4>1. g = loc[r].family /\ r \in Rotating(g)
        BY <1>0, <3>2 DEF FamilyOf, Rotating
      <4>2. Usable(g) = {} /\ \A q \in Rotating(g) : q = r
        BY <2>6, <4>1 DEF ChainInv, OneLiveToken
      <4>3. \A u \in reused : ~u.racing => u.family # g
        BY <4>1 DEF ChainInv, SettledReuseEndsFamily
      <4> QED
        BY <2>5, <4>2, <4>3
    <3> QED
      BY <3>1, <3>2
  <2>8. OneLiveToken'
    BY <2>4, <2>5, <2>7 DEF ChainInv, OneLiveToken
  <2>9. SettledReuseEndsFamily'
    BY <1>0, <2>4, <2>5, <2>7 DEF ChainInv, SettledReuseEndsFamily
  <2>10. Fresh'
    <3>1. \A q \in Requests :
            /\ loc'[q].family < nextToken'
            /\ pc'[q] \in Login => loc'[q].family = 0
            /\ pc'[q] = "revokeFamily" => loc'[q].family # 0
      <4>1. \A q \in Requests : loc[q].family \in Int /\ loc[q].family < nextToken
        BY <1>0, SessionAssumption DEF TypeOK, Locals, ChainInv, Fresh
      <4>2. \A q \in Requests : loc'[q].family = loc[q].family
        BY <2>3 DEF Only
      <4>3. nextToken \in Int /\ nextToken' = nextToken + 1
        BY <1>2, <2>1, SessionAssumption DEF TokenIds
      <4>4. \A q \in Requests : loc'[q].family < nextToken'
        BY <4>1, <4>2, <4>3
      <4>5. \A q \in Requests : pc'[q] = pc[q] \/ pc'[q] = "answer"
        BY <2>3 DEF Only
      <4> QED
        BY <4>2, <4>4, <4>5 DEF ChainInv, Fresh, Login
    <3>2. \A t \in tokens' : t.family < nextToken'
      <4>1. \A t \in tokens : t.family \in TokenIds /\ t.family < nextToken
        BY <1>0 DEF TypeOK, TokenRow, ChainInv, Fresh
      <4> QED
        BY <1>2, <2>1, <2>6, <4>1
    <3>3. \A u \in reused' : u.family < nextToken'
      <4>1. \A u \in reused : u.family \in TokenIds /\ u.family < nextToken
        BY <1>0 DEF TypeOK, ChainInv, Fresh
      <4> QED
        BY <1>0, <2>1, <4>1
    <3> QED
      BY <3>1, <3>2, <3>3 DEF Fresh, Login
  <2> QED
    BY <2>8, <2>9, <2>10 DEF ChainInv
<1>3. ASSUME tokens' = tokens \cup
               {[id |-> nextToken, user |-> loc[r].user, family |-> FamilyOf(r),
                 revoked |-> FALSE, expired |-> FALSE]},
             nextToken' = nextToken + 1,
             loc' = [loc EXCEPT ![r].new = nextToken], Goto(r, "answer")
      PROVE  ChainInv'
  <2> DEFINE n == [id |-> nextToken, user |-> loc[r].user, family |-> FamilyOf(r),
                   revoked |-> FALSE, expired |-> FALSE]
  <2>1. n.family = FamilyOf(r) /\ ~n.revoked /\ tokens' = tokens \cup {n}
    BY <1>3
  <2> HIDE DEF n
  <2> QED
    BY <1>2, <1>3, <2>1
<1> QED
  BY <1>1, <1>3 DEF Issue

LEMMA RevokeFamilyKeeps ==
  ASSUME ChainInv, TypeOK', NEW r \in Requests, RevokeFamily(r)
  PROVE  ChainInv'
<1> PICK f : f = loc[r].family
  OBVIOUS
<1>0. TypeOK /\ pc[r] = "revokeFamily" /\ Finish(r) /\ nextToken' = nextToken
      /\ tokens' = Revoke(Family(f))
      /\ reused' = reused \cup {[family |-> f, racing |-> Rotating(f) # {}]}
  BY DEF ChainInv, RevokeFamily
<1>1. Only(r) /\ pc'[r] = "idle" /\ loc'[r].family = 0 /\ 0 < nextToken
  BY <1>0, FinishOnly, SessionAssumption DEF TypeOK
<1>2. f \in TokenIds /\ f < nextToken
  BY <1>0, SessionAssumption DEF ChainInv, Fresh, TypeOK, Locals, TokenIds
<1>3. /\ \A t \in tokens' : \E s \in tokens : t.family = s.family
      /\ \A t \in tokens' : ~t.revoked => t \in tokens /\ t \notin Family(f)
  <2>1. Family(f) \in SUBSET tokens
    BY DEF Family
  <2> QED
    BY <1>0, <2>1, RevokedRows
<1>4. (\A g : Usable(g)' \subseteq Usable(g)) /\ Usable(f)' = {}
  BY <1>3 DEF Usable, Family
<1>5. \A g : Rotating(g)' = Rotating(g)
  BY <1>0, <1>1, RotatingStep
<1>6. OneLiveToken'
  BY <1>4, <1>5 DEF ChainInv, OneLiveToken
<1>7. SettledReuseEndsFamily'
  <2>1. ASSUME NEW u \in reused', ~u.racing
        PROVE  Usable(u.family)' = {} /\ Rotating(u.family)' = {}
    <3>1. CASE u \in reused
      BY <1>4, <1>5, <2>1, <3>1 DEF ChainInv, SettledReuseEndsFamily
    <3>2. CASE u = [family |-> f, racing |-> Rotating(f) # {}]
      BY <1>4, <1>5, <2>1, <3>2
    <3> QED
      BY <1>0, <3>1, <3>2
  <2> QED
    BY <2>1 DEF SettledReuseEndsFamily
<1>8. Fresh'
  <2>1. \A t \in tokens' : t.family < nextToken
    BY <1>3 DEF ChainInv, Fresh
  <2>2. \A u \in reused' : u.family < nextToken
    BY <1>0, <1>2 DEF ChainInv, Fresh
  <2>3. \A q \in Requests :
          /\ loc'[q].family < nextToken
          /\ pc'[q] \in Login => loc'[q].family = 0
          /\ pc'[q] = "revokeFamily" => loc'[q].family # 0
    BY <1>1 DEF ChainInv, Fresh, Only, Login
  <2> QED
    BY <1>0, <2>1, <2>2, <2>3 DEF Fresh, Login
<1> QED
  BY <1>6, <1>7, <1>8 DEF ChainInv

LEMMA SendKeeps ==
  ASSUME ChainInv, TypeOK', NEW r \in Requests, NEW label, NEW l,
         Start(r, label, l), l.family = 0,
         label \notin {"purge", "issue", "revokeFamily"}
  PROVE  ChainInv'
<1>1. Only(r) /\ pc'[r] = label /\ loc'[r] = l
  BY GotoOnly DEF ChainInv, Start
<1>2. 0 < nextToken /\ UNCHANGED <<tokens, nextToken, reused>>
  BY SessionAssumption DEF ChainInv, TypeOK, Start, rows
<1> QED
  BY <1>1, <1>2, QuietStep

LEMMA StepKeeps ==
  ASSUME ChainInv, TypeOK', NEW r \in Requests, Step(r)
  PROVE  ChainInv'
<1>0. TypeOK /\ 0 < nextToken /\ loc[r] \in Locals /\ loc[r].family < nextToken
  BY SessionAssumption DEF ChainInv, Fresh, TypeOK
<1>1. ASSUME Finish(r), \A t \in tokens' : t \in tokens,
             UNCHANGED <<nextToken, reused>>
      PROVE  ChainInv'
  BY <1>0, <1>1, FinishOnly, QuietStep DEF Login
<1>2. ASSUME NEW label \in {"findUser", "createUser", "issue"}, Goto(r, label),
             Only(r), loc'[r].family = loc[r].family, pc[r] \in Login,
             UNCHANGED <<tokens, nextToken, reused>>
      PROVE  ChainInv'
  <2>1. pc'[r] = label /\ loc'[r].family = 0 /\ label # "revokeFamily"
    BY <1>0, <1>2 DEF Goto, TypeOK, ChainInv, Fresh
  <2> QED
    BY <1>0, <1>2, <2>1, QuietStep
<1>3. CASE ClaimLink(r)
  <2>1. CASE Finish(r)
    BY <1>1, <1>3, <2>1 DEF ClaimLink
  <2>2. ASSUME NEW e, loc' = [loc EXCEPT ![r].email = e], Goto(r, "findUser")
        PROVE  ChainInv'
    <3>1. Only(r) /\ loc'[r].family = loc[r].family
      BY <1>0, <2>2 DEF Only, Goto, TypeOK, Locals
    <3> QED
      BY <1>2, <1>3, <2>2, <3>1 DEF ClaimLink, Login
  <2> QED
    BY <1>3, <2>1, <2>2 DEF ClaimLink
<1>4. CASE FindUser(r)
  <2>1. CASE Finish(r)
    BY <1>1, <1>4, <2>1 DEF FindUser, rows
  <2>2. CASE Goto(r, "createUser") /\ UNCHANGED loc
    <3>1. Only(r) /\ loc'[r].family = loc[r].family
      BY <1>0, <2>2 DEF Only, Goto, TypeOK
    <3> QED
      BY <1>2, <1>4, <2>2, <3>1 DEF FindUser, Login, rows
  <2>3. ASSUME NEW i, loc' = [loc EXCEPT ![r].user = i], Goto(r, "issue")
        PROVE  ChainInv'
    <3>1. Only(r) /\ loc'[r].family = loc[r].family
      BY <1>0, <2>3 DEF Only, Goto, TypeOK, Locals
    <3> QED
      BY <1>2, <1>4, <2>3, <3>1 DEF FindUser, Login, rows
  <2> QED
    BY <1>4, <2>1, <2>2, <2>3 DEF FindUser
<1>5. CASE CreateUser(r)
  <2>1. CASE Finish(r)
    BY <1>1, <1>5, <2>1 DEF CreateUser
  <2>2. CASE loc' = [loc EXCEPT ![r].user = nextUser] /\ Goto(r, "issue")
    <3>1. Only(r) /\ loc'[r].family = loc[r].family
      BY <1>0, <2>2 DEF Only, Goto, TypeOK, Locals
    <3> QED
      BY <1>2, <1>5, <2>2, <3>1 DEF CreateUser, Login
  <2> QED
    BY <1>5, <2>1, <2>2 DEF CreateUser
<1>6. CASE Answer(r) \/ Cleared(r)
  BY <1>1, <1>6 DEF Answer, Cleared, rows
<1>7. CASE Lookup(r)
  <2>1. CASE Finish(r)
    BY <1>1, <1>7, <2>1 DEF Lookup, rows
  <2>2. ASSUME NEW t \in tokens, loc' = [loc EXCEPT ![r].family = t.family],
               Goto(r, "revokeFamily")
        PROVE  ChainInv'
    <3>1. Only(r) /\ pc'[r] = "revokeFamily" /\ loc'[r].family = t.family
      BY <1>0, <2>2 DEF Only, Goto, TypeOK, Locals
    <3>2. t.family < nextToken /\ t.family # 0
      BY <1>0, SessionAssumption DEF ChainInv, Fresh, TypeOK, TokenRow, TokenIds
    <3>3. UNCHANGED <<tokens, nextToken, reused>>
      BY <1>7 DEF Lookup, rows
    <3> QED
      BY <3>1, <3>2, <3>3, QuietStep DEF Login
  <2> QED
    BY <1>7, <2>1, <2>2 DEF Lookup
<1>8. CASE Purge(r)
  <2>1. /\ Only(r) /\ pc'[r] = "issue" /\ pc[r] = "purge" /\ loc'[r] = loc[r]
        /\ \A t \in tokens' : t \in tokens
        /\ UNCHANGED <<nextToken, reused>>
    BY <1>0, <1>8 DEF Purge, Only, Goto, TypeOK
  <2> QED
    BY <1>0, <2>1, QuietStep DEF Login
<1>9. CASE Logout(r)
  <2>1. /\ Only(r) /\ pc'[r] = "cleared" /\ loc'[r] = loc[r]
        /\ \A t \in tokens' : t \in tokens
        /\ UNCHANGED <<nextToken, reused>>
    BY <1>0, <1>9 DEF Logout, Only, Goto, TypeOK
  <2> QED
    BY <1>0, <2>1, QuietStep DEF Login
<1> QED
  BY <1>3, <1>4, <1>5, <1>6, <1>7, <1>8, <1>9, ClaimKeeps, IssueKeeps,
     RevokeFamilyKeeps DEF Step

\* Nothing a family is made of changes, or rows are lost.
LEMMA RowsKeep ==
  ASSUME ChainInv, TypeOK', \A t \in tokens' : t \in tokens,
         UNCHANGED <<nextToken, pc, loc, reused>>
  PROVE  ChainInv'
<1>1. Fresh'
  BY DEF ChainInv, Fresh
<1>2. \A f \in TokenIds : /\ Usable(f)' \subseteq Usable(f)
                          /\ Rotating(f)' \subseteq Rotating(f)
  BY DEF Usable, Rotating
<1> QED
  BY <1>1, <1>2, ShrinkKeeps DEF ChainInv

LEMMA ExpireKeeps ==
  ASSUME ChainInv, TypeOK', NEW t \in tokens, ExpireToken(t)
  PROVE  ChainInv'
<1> DEFINE n == [t EXCEPT !.expired = TRUE]
<1>1. n.family = t.family /\ n.revoked = t.revoked
  BY DEF ChainInv, TypeOK, TokenRow
<1>2. /\ tokens' = (tokens \ {t}) \cup {n} /\ UNCHANGED <<nextToken, pc, loc, reused>>
      /\ \A f : Rotating(f)' = Rotating(f)
  BY DEF ExpireToken, Rotating
<1> HIDE DEF n
<1>3. Fresh'
  BY <1>1, <1>2 DEF ChainInv, Fresh
<1>4. ASSUME NEW f \in TokenIds
      PROVE  /\ \A s, q \in Usable(f)' : s = q
             /\ Usable(f) = {} => Usable(f)' = {}
  <2>1. \A s, q \in Usable(f) : s = q
    BY DEF ChainInv, OneLiveToken
  <2>2. CASE t \in Usable(f)
    BY <1>1, <1>2, <2>1, <2>2 DEF Usable
  <2>3. CASE t \notin Usable(f)
    BY <1>1, <1>2, <2>1, <2>3 DEF Usable
  <2> QED
    BY <2>2, <2>3
<1>5. OneLiveToken'
  BY <1>2, <1>4 DEF ChainInv, OneLiveToken
<1>6. SettledReuseEndsFamily'
  <2>1. \A u \in reused : u.family \in TokenIds
    BY DEF ChainInv, TypeOK
  <2> QED
    BY <1>2, <1>4, <2>1 DEF ChainInv, SettledReuseEndsFamily
<1> QED
  BY <1>3, <1>5, <1>6 DEF ChainInv

LEMMA NextKeeps == ChainInv /\ [Next]_vars => ChainInv'
<1> SUFFICES ASSUME ChainInv, [Next]_vars
             PROVE  ChainInv'
  OBVIOUS
<1>1. TypeOK'
  BY NextType DEF ChainInv, Fresh
<1>2. ASSUME NEW e \in Emails, SendLink(e)
      PROVE  ChainInv'
  BY <1>1, <1>2, RowsKeep DEF SendLink
<1>3. ASSUME NEW l \in links, ExpireLink(l)
      PROVE  ChainInv'
  BY <1>1, <1>3, RowsKeep DEF ExpireLink
<1>4. ASSUME NEW u \in users, NEW b \in Browsers, DeleteAccount(u, b)
      PROVE  ChainInv'
  BY <1>1, <1>4, RowsKeep DEF DeleteAccount
<1>5. ASSUME NEW r \in Requests, Lose(r)
      PROVE  ChainInv'
  <2>1. 0 < nextToken /\ TypeOK
    BY SessionAssumption DEF ChainInv, TypeOK
  <2> QED
    BY <1>1, <1>5, <2>1, FinishOnly, QuietStep DEF Lose, Login, rows
<1>6. ASSUME NEW r \in Requests, NEW b \in Browsers,
             \/ \E l \in LinkIds : FollowLink(r, b, l)
             \/ \E e \in Emails : GoogleLogin(r, b, e)
             \/ SendRefresh(r, b)
             \/ SendLogout(r, b)
      PROVE  ChainInv'
  <2>1. ASSUME NEW l, NEW label \in {"claimLink", "findUser", "claim", "logout"},
               Start(r, label, l), l.family = 0
        PROVE  ChainInv'
    BY <1>1, <2>1, SendKeeps
  <2>2. ASSUME NEW l \in LinkIds, FollowLink(r, b, l)
        PROVE  ChainInv'
    <3> DEFINE n == [NoLocals EXCEPT !.browser = b, !.link = l]
    <3>1. n.family = 0
      BY DEF NoLocals
    <3>2. Start(r, "claimLink", n)
      BY <2>2 DEF FollowLink
    <3> HIDE DEF n
    <3> QED
      BY <2>1, <3>1, <3>2
  <2>3. ASSUME NEW e \in Emails, GoogleLogin(r, b, e)
        PROVE  ChainInv'
    <3> DEFINE n == [NoLocals EXCEPT !.browser = b, !.email = e]
    <3>1. n.family = 0
      BY DEF NoLocals
    <3>2. Start(r, "findUser", n)
      BY <2>3 DEF GoogleLogin
    <3> HIDE DEF n
    <3> QED
      BY <2>1, <3>1, <3>2
  <2>4. ASSUME SendRefresh(r, b)
        PROVE  ChainInv'
    <3> DEFINE n == [NoLocals EXCEPT !.browser = b, !.token = cookie[b]]
    <3>1. n.family = 0
      BY DEF NoLocals
    <3>2. Start(r, "claim", n)
      BY <2>4 DEF SendRefresh
    <3> HIDE DEF n
    <3> QED
      BY <2>1, <3>1, <3>2
  <2>5. ASSUME SendLogout(r, b)
        PROVE  ChainInv'
    <3> DEFINE n == [NoLocals EXCEPT !.browser = b, !.token = cookie[b]]
    <3>1. n.family = 0
      BY DEF NoLocals
    <3>2. Start(r, "logout", n)
      BY <2>5 DEF SendLogout
    <3> HIDE DEF n
    <3> QED
      BY <2>1, <3>1, <3>2
  <2> QED
    BY <1>6, <2>2, <2>3, <2>4, <2>5
<1>7. CASE UNCHANGED vars
  BY <1>1, <1>7, RowsKeep DEF vars
<1> QED
  BY <1>1, <1>2, <1>3, <1>4, <1>5, <1>6, <1>7, StepKeeps, ExpireKeeps DEF Next

LEMMA ChainInvariant == Spec => []ChainInv
<1>1. Init => ChainInv
  BY InitType
     DEF Init, ChainInv, Fresh, OneLiveToken, SettledReuseEndsFamily, Usable,
         Rotating, Login, NoLocals
<1> QED
  BY <1>1, NextKeeps, PTL DEF Spec

(***************************************************************************)
(* Every row, counter and local variable stays well-typed.                 *)
(***************************************************************************)
THEOREM TypeCorrect == Spec => []TypeOK
BY ChainInvariant, PTL DEF ChainInv

(***************************************************************************)
(* At every moment a family has one usable token or one request about to   *)
(* store it, whatever number of refreshes of it run at once, with lost     *)
(* answers and database faults.                                            *)
(***************************************************************************)
THEOREM Chain == Spec => []OneLiveToken
BY ChainInvariant, PTL DEF ChainInv

(***************************************************************************)
(* A reuse seen while no rotation of the family is under way ends it.      *)
(***************************************************************************)
THEOREM ReuseSettles == Spec => []SettledReuseEndsFamily
BY ChainInvariant, PTL DEF ChainInv

-----------------------------------------------------------------------------
(* No token outlives its account. *)

LEMMA TokensOwned ==
  ASSUME TypeOK, NoSessionWithoutAccount, [Next]_vars
  PROVE  NoSessionWithoutAccount'
<1>1. ASSUME \A t \in tokens' : \E s \in tokens : t.user = s.user,
             \A u \in users : u \in users'
      PROVE  NoSessionWithoutAccount'
  BY <1>1 DEF NoSessionWithoutAccount
<1>2. ASSUME tokens' \subseteq tokens, \A u \in users : u \in users'
      PROVE  NoSessionWithoutAccount'
  BY <1>1, <1>2
<1>3. ASSUME NEW T \in SUBSET tokens, tokens' = Revoke(T), users' = users
      PROVE  NoSessionWithoutAccount'
  <2>1. \A t \in tokens : [t EXCEPT !.revoked = TRUE].user = t.user
    BY DEF TypeOK, TokenRow
  <2> QED
    BY <1>1, <1>3, <2>1 DEF Revoke
<1>4. ASSUME NEW t \in tokens, ExpireToken(t)
      PROVE  NoSessionWithoutAccount'
  <2>1. [t EXCEPT !.expired = TRUE].user = t.user
    BY DEF TypeOK, TokenRow
  <2> QED
    BY <1>1, <1>4, <2>1 DEF ExpireToken
<1>5. ASSUME NEW u \in users, NEW b \in Browsers, DeleteAccount(u, b)
      PROVE  NoSessionWithoutAccount'
  BY <1>5 DEF DeleteAccount, UserTokens, NoSessionWithoutAccount
<1>6. ASSUME NEW r \in Requests, Issue(r)
      PROVE  NoSessionWithoutAccount'
  <2>1. CASE UNCHANGED <<tokens, users>>
    BY <1>2, <2>1
  <2>2. ASSUME NEW u \in users, u.id = loc[r].user,
               tokens' = tokens \cup
                 {[id |-> nextToken, user |-> loc[r].user, family |-> FamilyOf(r),
                   revoked |-> FALSE, expired |-> FALSE]}
        PROVE  NoSessionWithoutAccount'
    BY <1>6, <2>2 DEF Issue, NoSessionWithoutAccount
  <2> QED
    BY <1>6, <2>1, <2>2 DEF Issue
<1>7. ASSUME NEW r \in Requests, Claim(r) \/ RevokeFamily(r)
      PROVE  NoSessionWithoutAccount'
  <2>1. /\ users' = users
        /\ tokens' = tokens \/ \E T \in SUBSET tokens : tokens' = Revoke(T)
    BY <1>7 DEF Claim, RevokeFamily, Family
  <2> QED
    BY <1>2, <1>3, <2>1
<1>8. ASSUME NEW r \in Requests,
             \/ ClaimLink(r) \/ FindUser(r) \/ CreateUser(r) \/ Answer(r)
             \/ Lookup(r) \/ Purge(r) \/ Logout(r) \/ Cleared(r) \/ Lose(r)
      PROVE  NoSessionWithoutAccount'
  <2>1. tokens' \subseteq tokens /\ \A u \in users : u \in users'
    BY <1>8 DEF ClaimLink, FindUser, CreateUser, Answer, Lookup, Purge, Logout,
                Cleared, Lose, rows
  <2> QED
    BY <1>2, <2>1
<1>9. ASSUME NEW r \in Requests, NEW b \in Browsers,
             \/ \E l \in LinkIds : FollowLink(r, b, l)
             \/ \E e \in Emails : GoogleLogin(r, b, e)
             \/ SendRefresh(r, b)
             \/ SendLogout(r, b)
      PROVE  NoSessionWithoutAccount'
  BY <1>2, <1>9 DEF FollowLink, GoogleLogin, SendRefresh, SendLogout, Start, rows
<1>10. ASSUME \/ \E e \in Emails : SendLink(e)
              \/ \E l \in links : ExpireLink(l)
              \/ UNCHANGED vars
       PROVE  NoSessionWithoutAccount'
  BY <1>2, <1>10 DEF SendLink, ExpireLink, vars
<1> QED
  BY <1>4, <1>5, <1>6, <1>7, <1>8, <1>9, <1>10 DEF Next, Step

(***************************************************************************)
(* No refresh or sign-in under way brings a deleted account's session back.*)
(***************************************************************************)
THEOREM SessionsOwned == Spec => []NoSessionWithoutAccount
<1>1. Init => NoSessionWithoutAccount
  BY DEF Init, NoSessionWithoutAccount
<1> QED
  BY <1>1, TokensOwned, TypeCorrect, PTL DEF Spec

-----------------------------------------------------------------------------
(* One account for an address. *)

(***************************************************************************)
(* Sign-ins of one address, however many run at once, meet in one account: *)
(* all select before they insert, and the constraint lets one insert.      *)
(***************************************************************************)
THEOREM AddressIsAccount == Spec => []OneAccount
<1>1. Init => OneAccount
  BY DEF Init, OneAccount
<1>2. ASSUME TypeOK, OneAccount, [Next]_vars
      PROVE  OneAccount'
  <2>1. ASSUME users' \subseteq users
        PROVE  OneAccount'
    BY <1>2, <2>1 DEF OneAccount
  <2>2. ASSUME NEW r \in Requests, CreateUser(r)
        PROVE  OneAccount'
    <3>1. CASE UNCHANGED users
      BY <2>1, <3>1
    <3>2. CASE /\ Admits(loc[r].email)
               /\ users' = users \cup {[id |-> nextUser, email |-> loc[r].email]}
      BY <1>2, <3>2 DEF OneAccount, Admits, Known
    <3> QED
      BY <2>2, <3>1, <3>2 DEF CreateUser
  <2>3. ASSUME NEW r \in Requests, Step(r), ~ CreateUser(r)
        PROVE  users' = users
    BY <2>3 DEF Step, ClaimLink, FindUser, Issue, Answer, Claim, Lookup, RevokeFamily,
                Purge, Logout, Cleared, rows
  <2>4. ASSUME NEW r \in Requests, NEW b \in Browsers,
               \/ \E l \in LinkIds : FollowLink(r, b, l)
               \/ \E e \in Emails : GoogleLogin(r, b, e)
               \/ SendRefresh(r, b) \/ SendLogout(r, b) \/ Lose(r)
        PROVE  users' = users
    BY <2>4 DEF FollowLink, GoogleLogin, SendRefresh, SendLogout, Start, Lose, rows
  <2>5. ASSUME \/ \E e \in Emails : SendLink(e)
               \/ \E l \in links : ExpireLink(l)
               \/ \E t \in tokens : ExpireToken(t)
               \/ UNCHANGED vars
        PROVE  users' = users
    BY <2>5 DEF SendLink, ExpireLink, ExpireToken, vars
  <2>6. ASSUME NEW u \in users, NEW b \in Browsers, DeleteAccount(u, b)
        PROVE  users' \subseteq users
    BY <2>6 DEF DeleteAccount
  <2>7. ASSUME NEW r \in Requests, Lose(r)
        PROVE  users' = users
    BY <2>7 DEF Lose, rows
  <2> QED
    BY <1>2, <2>1, <2>2, <2>3, <2>4, <2>5, <2>6, <2>7 DEF Next
<1> QED
  BY <1>1, <1>2, TypeCorrect, PTL DEF Spec

-----------------------------------------------------------------------------
(* A link opens one session. *)

\* Links are told apart by numbers that were drawn before, and only a sign-in
\* by a link has one.
LinkInv ==
  /\ LinkUsedOnce
  /\ \A l \in links : l.id < nextLink
  /\ \A k, l \in links : k.id = l.id => k = l
  /\ \A r \in Requests :
       loc[r].link # 0 =>
         /\ loc[r].link < nextLink
         /\ pc[r] \in {"claimLink", "findUser", "createUser", "issue", "answer"}

\* A request whose link stays, or goes, at a step that is no claim.
LEMMA LinkGoesOn ==
  ASSUME TypeOK, LinkInv, NEW r \in Requests,
         links' \subseteq links, nextLink' = nextLink,
         \A q \in Requests \ {r} : pc'[q] = pc[q] /\ loc'[q].link = loc[q].link,
         \/ loc'[r].link = 0
         \/ /\ loc'[r].link = loc[r].link
            /\ pc[r] # "claimLink"
            /\ pc'[r] \in {"findUser", "createUser", "issue", "answer"}
  PROVE  LinkInv'
<1>1. \A q \in Requests :
        loc'[q].link # 0 => /\ loc'[q].link = loc[q].link
                            /\ pc'[q] = "claimLink" <=> pc[q] = "claimLink"
  OBVIOUS
<1>2. LinkUsedOnce'
  BY <1>1 DEF LinkInv, LinkUsedOnce
<1> QED
  BY <1>1, <1>2 DEF LinkInv

LEMMA LinkKeeps == TypeOK /\ LinkInv /\ [Next]_vars => LinkInv'
<1> SUFFICES ASSUME TypeOK, LinkInv, [Next]_vars
             PROVE  LinkInv'
  OBVIOUS
<1>0. NoLocals.link = 0 /\ pc \in [Requests -> PC] /\ loc \in [Requests -> Locals]
  BY DEF TypeOK, NoLocals
<1>1. ASSUME NEW r \in Requests, Finish(r), links' \subseteq links, nextLink' = nextLink
      PROVE  LinkInv'
  BY <1>0, <1>1, LinkGoesOn DEF Finish, Goto
<1>2. ASSUME NEW r \in Requests, ClaimLink(r)
      PROVE  LinkInv'
  <2>1. CASE Finish(r) /\ UNCHANGED links
    BY <1>1, <1>2, <2>1 DEF ClaimLink
  <2>2. ASSUME NEW l \in links, l.id = loc[r].link, links' = links \ {l},
               loc' = [loc EXCEPT ![r].email = l.email], Goto(r, "findUser")
        PROVE  LinkInv'
    <3>1. \A q \in Requests : loc'[q].link = loc[q].link
      BY <1>0, <2>2 DEF Locals
    <3>2. nextLink' = nextLink /\ pc' = [pc EXCEPT ![r] = "findUser"] /\ pc[r] = "claimLink"
      BY <1>2, <2>2 DEF ClaimLink, Goto
    <3>3. LinkUsedOnce'
      <4> SUFFICES ASSUME NEW q \in Requests,
                          pc'[q] \in {"findUser", "createUser", "issue", "answer"},
                          loc'[q].link # 0
                   PROVE  /\ \A k \in links' : k.id # loc'[q].link
                          /\ \A p \in Requests \ {q} :
                               loc'[p].link = loc'[q].link => pc'[p] = "claimLink"
        BY DEF LinkUsedOnce
      <4>1. CASE q = r
        <5>1. \A k \in links' : k.id # loc'[q].link
          BY <2>2, <3>1, <4>1 DEF LinkInv
        <5>2. ASSUME NEW p \in Requests \ {q}, loc'[p].link = loc'[q].link
              PROVE  pc'[p] = "claimLink"
          BY <1>0, <2>2, <3>1, <3>2, <4>1, <5>2 DEF LinkInv, LinkUsedOnce
        <5> QED
          BY <5>1, <5>2
      <4>2. CASE q # r
        <5>1. loc[q].link # loc[r].link
          BY <1>0, <2>2, <3>1, <3>2, <4>2 DEF LinkInv, LinkUsedOnce
        <5> QED
          BY <1>0, <2>2, <3>1, <3>2, <4>2, <5>1 DEF LinkInv, LinkUsedOnce
      <4> QED
        BY <4>1, <4>2
    <3> QED
      BY <1>0, <2>2, <3>1, <3>2, <3>3 DEF LinkInv
  <2> QED
    BY <1>2, <2>1, <2>2 DEF ClaimLink
<1>3. ASSUME NEW r \in Requests, FindUser(r) \/ CreateUser(r) \/ Issue(r)
      PROVE  LinkInv'
  <2>1. links' = links /\ nextLink' = nextLink
    BY <1>3 DEF FindUser, CreateUser, Issue, rows
  <2>2. CASE Finish(r)
    BY <1>1, <2>1, <2>2
  <2>3. CASE ~ Finish(r)
    <3>1. /\ pc[r] # "claimLink"
          /\ \/ Goto(r, "createUser")
             \/ Goto(r, "issue")
             \/ Goto(r, "answer")
      BY <1>3, <2>3 DEF FindUser, CreateUser, Issue
    <3>2. /\ pc'[r] \in {"createUser", "issue", "answer"}
          /\ \A q \in Requests \ {r} : pc'[q] = pc[q]
      BY <1>0, <3>1 DEF Goto
    <3>3. \A q \in Requests : loc'[q].link = loc[q].link
      <4>1. CASE loc' = loc
        BY <4>1
      <4>2. CASE \E u : loc' = [loc EXCEPT ![r].user = u]
        BY <1>0, <4>2 DEF Locals
      <4>3. CASE \E n : loc' = [loc EXCEPT ![r].new = n]
        BY <1>0, <4>3 DEF Locals
      <4> QED
        BY <1>3, <2>3, <4>1, <4>2, <4>3 DEF FindUser, CreateUser, Issue
    <3> QED
      BY <2>1, <3>1, <3>2, <3>3, LinkGoesOn
  <2> QED
    BY <2>2, <2>3
<1>4. ASSUME NEW r \in Requests, Claim(r) \/ Lookup(r) \/ Purge(r) \/ Logout(r)
      PROVE  LinkInv'
  <2>1. links' = links /\ nextLink' = nextLink
    BY <1>4 DEF Claim, Lookup, Purge, Logout, rows
  <2>2. loc[r].link = 0
    BY <1>4 DEF LinkInv, Claim, Lookup, Purge, Logout
  <2>3. CASE Finish(r)
    BY <1>1, <2>1, <2>3
  <2>4. CASE ~ Finish(r)
    <3>1. \A q \in Requests \ {r} : pc'[q] = pc[q]
      BY <1>0, <1>4, <2>4 DEF Claim, Lookup, Purge, Logout, Goto
    <3>2. \A q \in Requests : loc'[q].link = loc[q].link
      <4>1. CASE loc' = loc
        BY <4>1
      <4>2. CASE \E u, f : loc' = [loc EXCEPT ![r].user = u, ![r].family = f]
        BY <1>0, <4>2 DEF Locals
      <4>3. CASE \E f : loc' = [loc EXCEPT ![r].family = f]
        BY <1>0, <4>3 DEF Locals
      <4> QED
        BY <1>4, <2>4, <4>1, <4>2, <4>3 DEF Claim, Lookup, Purge, Logout
    <3> QED
      BY <2>1, <2>2, <3>1, <3>2, LinkGoesOn
  <2> QED
    BY <2>3, <2>4
<1>5. ASSUME NEW r \in Requests,
             Answer(r) \/ RevokeFamily(r) \/ Cleared(r) \/ Lose(r)
      PROVE  LinkInv'
  <2>1. Finish(r) /\ links' = links /\ nextLink' = nextLink
    BY <1>5 DEF Answer, RevokeFamily, Cleared, Lose, rows
  <2> QED
    BY <1>1, <2>1
<1>6. ASSUME NEW r \in Requests, NEW b \in Browsers,
             \/ \E e \in Emails : GoogleLogin(r, b, e)
             \/ SendRefresh(r, b) \/ SendLogout(r, b)
      PROVE  LinkInv'
  <2>1. PICK label, l : Start(r, label, l) /\ l.link = 0
    <3>1. CASE \E e \in Emails : GoogleLogin(r, b, e)
      <4>1. PICK e \in Emails :
              Start(r, "findUser", [NoLocals EXCEPT !.browser = b, !.email = e])
        BY <3>1 DEF GoogleLogin
      <4>2. [NoLocals EXCEPT !.browser = b, !.email = e].link = 0
        BY DEF NoLocals
      <4> QED
        BY <4>1, <4>2
    <3>2. CASE SendRefresh(r, b) \/ SendLogout(r, b)
      <4>1. [NoLocals EXCEPT !.browser = b, !.token = cookie[b]].link = 0
        BY DEF NoLocals
      <4> QED
        BY <3>2, <4>1 DEF SendRefresh, SendLogout
    <3> QED
      BY <1>6, <3>1, <3>2
  <2>2. /\ links' = links /\ nextLink' = nextLink
        /\ loc'[r].link = 0
        /\ \A q \in Requests \ {r} : pc'[q] = pc[q] /\ loc'[q] = loc[q]
    BY <1>0, <2>1 DEF Start, Goto, rows
  <2> QED
    BY <2>2, LinkGoesOn
<1>7. ASSUME NEW r \in Requests, NEW b \in Browsers, NEW l \in LinkIds,
             FollowLink(r, b, l)
      PROVE  LinkInv'
  <2>1. /\ l < nextLink /\ links' = links /\ nextLink' = nextLink
        /\ pc' = [pc EXCEPT ![r] = "claimLink"]
        /\ loc' = [loc EXCEPT ![r] = [NoLocals EXCEPT !.browser = b, !.link = l]]
    BY <1>7 DEF FollowLink, Start, Goto, rows
  <2>2. /\ pc'[r] = "claimLink" /\ loc'[r].link = l
        /\ \A q \in Requests \ {r} : pc'[q] = pc[q] /\ loc'[q] = loc[q]
    BY <1>0, <2>1 DEF NoLocals
  <2>3. LinkUsedOnce'
    BY <2>1, <2>2 DEF LinkInv, LinkUsedOnce
  <2> QED
    BY <2>1, <2>2, <2>3 DEF LinkInv
<1>8. ASSUME NEW e \in Emails, SendLink(e)
      PROVE  LinkInv'
  <2>1. /\ links' = links \cup {[id |-> nextLink, email |-> e]}
        /\ nextLink' = nextLink + 1 /\ pc' = pc /\ loc' = loc
    BY <1>8 DEF SendLink
  <2>2. /\ nextLink \in Nat
        /\ \A k \in links : k.id \in Nat
        /\ \A q \in Requests : loc[q].link \in Nat
    BY <1>0, SessionAssumption DEF TypeOK, LinkRow, LinkIds, Locals
  <2>3. LinkUsedOnce'
    BY <2>1, <2>2 DEF LinkInv, LinkUsedOnce
  <2> QED
    BY <2>1, <2>2, <2>3 DEF LinkInv
<1>9. ASSUME \/ \E l \in links : ExpireLink(l)
             \/ \E t \in tokens : ExpireToken(t)
             \/ \E u \in users, b \in Browsers : DeleteAccount(u, b)
             \/ UNCHANGED vars
      PROVE  LinkInv'
  <2>1. links' \subseteq links /\ nextLink' = nextLink /\ pc' = pc /\ loc' = loc
    BY <1>9 DEF ExpireLink, ExpireToken, DeleteAccount, vars
  <2> QED
    BY <2>1 DEF LinkInv, LinkUsedOnce
<1> QED
  BY <1>2, <1>3, <1>4, <1>5, <1>6, <1>7, <1>8, <1>9 DEF Next, Step

\* The link that signed a request in is gone, and every other request that
\* carries it still has to claim it (MagicVerify, auth_handlers.go).
THEOREM LinkOpensOne == Spec => []LinkUsedOnce
<1>1. Init => LinkInv
  BY DEF Init, LinkInv, LinkUsedOnce, NoLocals
<1>2. LinkInv => LinkUsedOnce
  BY DEF LinkInv
<1> QED
  BY <1>1, <1>2, LinkKeeps, TypeCorrect, PTL DEF Spec
=============================================================================
