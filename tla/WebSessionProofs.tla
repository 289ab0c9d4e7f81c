-------------------------- MODULE WebSessionProofs --------------------------
(***************************************************************************)
(* Theorems about one tab's session, for every number of accounts,         *)
(* requests, sign-ins and loads: the types and the single flight of the    *)
(* refresh; that a tab on its own never spends a refresh token twice; that *)
(* only the address typed is deleted, and its account does not stay shown; *)
(* that a sign-in is offered to who has none; and that the tab acts as the *)
(* account it shows.                                                       *)
(***************************************************************************)
EXTENDS WebSession, FiniteSetTheorems, TLAPS

Pages == {"app", "login", "magic", "invalid", "to app", "to login"}
Odds  == {"crossed", "left", "half in", "half out", "kept", "late", "lost", "reused"}
SomeCookie == Cookie \cup {NoCookie}

ServerOK ==
  /\ session \in [SignIns -> [user : Anyone, token : 0 .. MaxTokens]]
  /\ nextToken \in 1 .. MaxTokens + 1
  /\ gone \subseteq Users

ClientOK ==
  /\ cookie \in SomeCookie /\ access \in Anyone
  /\ user \in Anyone /\ status \in {"loading", "authed", "anon"}
  /\ page \in Pages /\ google \in {"none", "idle", "loading"}
  /\ erasing \in {"no", "asked", "leaving"}
  /\ loads \in 0 .. MaxLoads
  /\ odd \subseteq Odds

\* One refresh is under way at most, the shared one, and who waits for one
\* waits for it.
SwapOK ==
  /\ refreshing \in {0} \cup Swaps
  /\ swap \in [Swaps -> Swap]
  /\ refreshing # 0 => Pending(refreshing)
  /\ \A s \in Swaps : Pending(s) => refreshing = s

WaitOK ==
  \A t \in Tasks : task[t].at = "refresh" => task[t].swap = refreshing /\ refreshing # 0

TaskOK ==
  /\ task \in [Tasks -> Task]
  /\ \A t \in Tasks :
       task[t].doing = "enter" /\ task[t].at = "acted" => task[t].cookie \in Cookie

Inv == ServerOK /\ ClientOK /\ SwapOK /\ TaskOK /\ WaitOK

LEMMA InvTypes == Inv => TypeOK
BY DEF Inv, ServerOK, ClientOK, SwapOK, TaskOK, WaitOK, TypeOK, Pages, Odds, SomeCookie

-----------------------------------------------------------------------------
(* The operators of the model. *)

LEMMA FirstSwap == 1 \in Swaps /\ 0 \notin Swaps /\ Cardinality(Tasks) \in Nat
<1>1. IsFiniteSet({"boot", "signin", "logout"} \cup Work)
  <2>1. IsFiniteSet(Work \cup {"boot"})
    BY FS_AddElement, WebSessionAssumption
  <2>2. IsFiniteSet((Work \cup {"boot"}) \cup {"signin"})
    BY <2>1, FS_AddElement
  <2>3. IsFiniteSet(((Work \cup {"boot"}) \cup {"signin"}) \cup {"logout"})
    BY <2>2, FS_AddElement
  <2>4. ((Work \cup {"boot"}) \cup {"signin"}) \cup {"logout"}
          = {"boot", "signin", "logout"} \cup Work
    OBVIOUS
  <2> QED
    BY <2>3, <2>4
<1>2. Cardinality(Tasks) \in Nat
  BY <1>1, FS_CardinalityType DEF Tasks
<1>3. Cardinality(Tasks) # 0
  BY <1>1, FS_EmptySet DEF Tasks
<1> QED
  BY <1>2, <1>3 DEF Swaps

LEMMA Constants ==
  /\ NoTask \in Task /\ NoTask.doing = "nothing" /\ NoTask.at = "sent"
  /\ IdleSwap \in Swap /\ IdleSwap.at = "idle"
  /\ Entering \in Task /\ Entering.doing = "enter" /\ Entering.at = "sent"
  /\ Nobody \in Anyone /\ NoCookie \in SomeCookie /\ NoCookie.signin = 0
BY DEF NoTask, Task, IdleSwap, Swap, Entering, Anyone, SomeCookie, NoCookie

LEMMA CookieType ==
  ASSUME NEW c \in SomeCookie, c.signin # 0
  PROVE  c \in Cookie /\ c.signin \in SignIns /\ c.token \in 1 .. MaxTokens
BY DEF SomeCookie, Cookie, NoCookie

LEMMA NotedType == \A o : o \subseteq Odds => Noted(o) \subseteq Odds
BY DEF Noted

\* Of what is lost and reused it forgets nothing.
LEMMA NotedKeeps ==
  \A o : ("lost" \in Noted(o) <=> "lost" \in o) /\ ("reused" \in Noted(o) <=> "reused" \in o)
BY DEF Noted

LEMMA GuardedType == \A p \in Pages : \A st : Guarded(p, st) \in Pages
BY DEF Guarded, Pages

LEMMA ThrownTypes ==
  ASSUME ClientOK, NEW tasks, NEW st \in {"loading", "authed", "anon"}, Thrown(tasks, st)
  PROVE  /\ status' = st /\ page' \in Pages /\ google' \in {"none", "idle", "loading"}
         /\ erasing' \in {"no", "asked", "leaving"}
<1>1. PageAfter(tasks) \in Pages
  BY DEF PageAfter, ClientOK, Pages
<1> QED
  BY <1>1, GuardedType DEF Thrown, GoogleAfter, ErasingAfter, ClientOK

LEMMA StaleTypes ==
  ASSUME NEW tasks \in [Tasks -> Task]
  PROVE  /\ Stale(tasks) \in [Tasks -> Task]
         /\ \A t \in Tasks :
              /\ Stale(tasks)[t].doing = tasks[t].doing
              /\ Stale(tasks)[t].at = tasks[t].at
              /\ Stale(tasks)[t].swap = tasks[t].swap
              /\ Stale(tasks)[t].cookie = tasks[t].cookie
              /\ Stale(tasks)[t].token = tasks[t].token
              /\ Stale(tasks)[t].as = tasks[t].as
<1>1. ASSUME NEW t \in Tasks, NEW x \in BOOLEAN
      PROVE  /\ [tasks[t] EXCEPT !.stale = x] \in Task
             /\ [tasks[t] EXCEPT !.stale = x].doing = tasks[t].doing
             /\ [tasks[t] EXCEPT !.stale = x].at = tasks[t].at
             /\ [tasks[t] EXCEPT !.stale = x].swap = tasks[t].swap
             /\ [tasks[t] EXCEPT !.stale = x].cookie = tasks[t].cookie
             /\ [tasks[t] EXCEPT !.stale = x].token = tasks[t].token
             /\ [tasks[t] EXCEPT !.stale = x].as = tasks[t].as
  BY DEF Task
<1>2. \A t \in Tasks :
        \E x \in BOOLEAN : Stale(tasks)[t] = [tasks[t] EXCEPT !.stale = x]
  BY DEF Stale
<1>3. \A t \in Tasks :
        /\ Stale(tasks)[t] \in Task
        /\ Stale(tasks)[t].doing = tasks[t].doing
        /\ Stale(tasks)[t].at = tasks[t].at
        /\ Stale(tasks)[t].swap = tasks[t].swap
        /\ Stale(tasks)[t].cookie = tasks[t].cookie
        /\ Stale(tasks)[t].token = tasks[t].token
        /\ Stale(tasks)[t].as = tasks[t].as
  <2>1. TAKE t \in Tasks
  <2>2. PICK x \in BOOLEAN : Stale(tasks)[t] = [tasks[t] EXCEPT !.stale = x]
    BY <1>2
  <2> QED
    BY <1>1, <2>2, ZenonT(40)
<1>4. Stale(tasks) = [t \in Tasks |-> Stale(tasks)[t]]
  BY DEF Stale
<1>5. Stale(tasks) \in [Tasks -> Task]
  BY <1>3, <1>4, Zenon
<1> QED
  BY <1>3, <1>5, Zenon

LEMMA StaleSwapsTypes ==
  ASSUME SwapOK
  PROVE  /\ StaleSwaps \in [Swaps -> Swap]
         /\ \A s \in Swaps : /\ StaleSwaps[s].at = swap[s].at
                             /\ StaleSwaps[s].sent = swap[s].sent
                             /\ StaleSwaps[s].got = swap[s].got
                             /\ StaleSwaps[s].user = swap[s].user
<1>1. ASSUME NEW s \in Swaps, NEW x \in BOOLEAN
      PROVE  /\ [swap[s] EXCEPT !.stale = x] \in Swap
             /\ [swap[s] EXCEPT !.stale = x].at = swap[s].at
             /\ [swap[s] EXCEPT !.stale = x].sent = swap[s].sent
             /\ [swap[s] EXCEPT !.stale = x].got = swap[s].got
             /\ [swap[s] EXCEPT !.stale = x].user = swap[s].user
  BY DEF Swap, SwapOK
<1>2. \A s \in Swaps :
        \E x \in BOOLEAN : StaleSwaps[s] = [swap[s] EXCEPT !.stale = x]
  BY DEF StaleSwaps
<1>3. \A s \in Swaps :
        /\ StaleSwaps[s] \in Swap
        /\ StaleSwaps[s].at = swap[s].at
        /\ StaleSwaps[s].sent = swap[s].sent
        /\ StaleSwaps[s].got = swap[s].got
        /\ StaleSwaps[s].user = swap[s].user
  <2>1. TAKE s \in Swaps
  <2>2. PICK x \in BOOLEAN : StaleSwaps[s] = [swap[s] EXCEPT !.stale = x]
    BY <1>2
  <2> QED
    BY <1>1, <2>2, ZenonT(40)
<1>4. StaleSwaps = [s \in Swaps |-> StaleSwaps[s]]
  BY DEF StaleSwaps
<1>5. StaleSwaps \in [Swaps -> Swap]
  BY <1>3, <1>4, Zenon
<1> QED
  BY <1>3, <1>5, Zenon

-----------------------------------------------------------------------------
(* What a step does to one refresh or to one task. *)

LEMMA SameSwaps ==
  ASSUME SwapOK, UNCHANGED <<refreshing, swap>>
  PROVE  SwapOK'
BY DEF SwapOK, Pending

LEMMA SwapAdvances ==
  ASSUME SwapOK, NEW s \in Swaps, NEW w \in Swap, w.at # "idle", Pending(s),
         swap' = [swap EXCEPT ![s] = w], refreshing' = refreshing
  PROVE  SwapOK'
BY DEF SwapOK, Pending

LEMMA SwapEnds ==
  ASSUME SwapOK, NEW X \in [Swaps -> Swap], \A x \in Swaps : X[x].at = swap[x].at,
         NEW s \in Swaps, Pending(s), swap' = [X EXCEPT ![s] = IdleSwap], DropPromise(s)
  PROVE  SwapOK' /\ refreshing' = 0
<1>1. refreshing = s /\ refreshing' = 0
  BY DEF SwapOK, DropPromise
<1>2. swap' \in [Swaps -> Swap]
  BY Constants
<1>3. \A x \in Swaps : swap'[x].at = "idle"
  <2>1. TAKE x \in Swaps
  <2>2. CASE x = s
    BY <2>2, Constants
  <2>3. CASE x # s
    BY <2>3, <1>1 DEF SwapOK, Pending
  <2> QED
    BY <2>2, <2>3
<1> QED
  BY <1>1, <1>2, <1>3 DEF SwapOK, Pending

\* A refresh is shared, or the one that starts is the only one.
LEMMA RefreshShared ==
  ASSUME SwapOK, ClientOK, RefreshAccess
  PROVE  /\ SwapOK' /\ refreshing' \in Swaps /\ SharedSwap = refreshing'
         /\ refreshing # 0 => refreshing' = refreshing /\ swap' = swap
         /\ refreshing = 0 =>
              /\ \A s \in Swaps : swap[s].at = "idle"
              /\ swap' = [swap EXCEPT ![refreshing'] =
                            [IdleSwap EXCEPT !.at = "sent", !.sent = cookie]]
<1>1. CASE refreshing # 0
  BY <1>1 DEF SwapOK, RefreshAccess, SharedSwap, Pending
<1>2. CASE refreshing = 0
  <2>1. \A s \in Swaps : ~ Pending(s)
    BY <1>2, FirstSwap DEF SwapOK
  <2>2. PICK n : n = SharedSwap
    OBVIOUS
  <2>3. n \in Swaps
    BY <1>2, <2>1, <2>2, FirstSwap DEF SharedSwap
  <2>4. [IdleSwap EXCEPT !.at = "sent", !.sent = cookie] \in Swap
    BY DEF IdleSwap, Swap, ClientOK, SomeCookie, Anyone
  <2>5. [IdleSwap EXCEPT !.at = "sent", !.sent = cookie].at = "sent"
    BY DEF IdleSwap
  <2>6. /\ refreshing' = n
        /\ swap' = [swap EXCEPT ![n] = [IdleSwap EXCEPT !.at = "sent", !.sent = cookie]]
    BY <2>1, <2>2, <2>3 DEF RefreshAccess
  <2>7. PICK w : w = [IdleSwap EXCEPT !.at = "sent", !.sent = cookie]
    OBVIOUS
  <2>8. SwapOK'
    BY <2>1, <2>3, <2>4, <2>5, <2>6, <2>7 DEF SwapOK, Pending
  <2> QED
    BY <1>2, <2>1, <2>2, <2>3, <2>6, <2>8 DEF Pending
<1> QED
  BY <1>1, <1>2

\* A new state of a task that waits for no refresh.
Settled(w) ==
  /\ w \in Task /\ w.at # "refresh"
  /\ w.doing = "enter" /\ w.at = "acted" => w.cookie \in Cookie

LEMMA OneTask ==
  ASSUME TaskOK, WaitOK, NEW t \in Tasks, NEW w, Settled(w),
         task' = [task EXCEPT ![t] = w], UNCHANGED refreshing
  PROVE  TaskOK' /\ WaitOK'
BY DEF TaskOK, WaitOK, Settled

LEMMA SettledOrKept ==
  ASSUME TaskOK, WaitOK, UNCHANGED refreshing, task' \in [Tasks -> Task],
         \A x \in Tasks : Settled(task'[x]) \/ task'[x] = task[x]
  PROVE  TaskOK' /\ WaitOK'
<1>1. TaskOK'
  BY DEF TaskOK, Settled
<1>2. WaitOK'
  BY DEF WaitOK, Settled
<1> QED
  BY <1>1, <1>2

LEMMA OneOfStale ==
  ASSUME TaskOK, WaitOK, NEW t \in Tasks, NEW w, Settled(w),
         task' = [Stale(task) EXCEPT ![t] = w], UNCHANGED refreshing
  PROVE  TaskOK' /\ WaitOK'
<1>1. PICK X : X = Stale(task)
  OBVIOUS
<1>2. /\ X \in [Tasks -> Task]
      /\ \A x \in Tasks : /\ X[x].doing = task[x].doing /\ X[x].at = task[x].at
                          /\ X[x].swap = task[x].swap /\ X[x].cookie = task[x].cookie
  BY <1>1, StaleTypes DEF TaskOK
<1>3. task' = [X EXCEPT ![t] = w]
  BY <1>1
<1>4. task' \in [Tasks -> Task]
  BY <1>2, <1>3 DEF Settled
<1>5. task'[t] = w /\ \A x \in Tasks : x # t => task'[x] = X[x]
  BY <1>2, <1>3
<1>6. TaskOK'
  <2>1. ASSUME NEW x \in Tasks, task'[x].doing = "enter", task'[x].at = "acted"
        PROVE  task'[x].cookie \in Cookie
    <3>1. CASE x = t
      BY <1>5, <2>1, <3>1 DEF Settled
    <3>2. CASE x # t
      BY <1>2, <1>5, <2>1, <3>2 DEF TaskOK
    <3> QED
      BY <3>1, <3>2
  <2> QED
    BY <1>4, <2>1 DEF TaskOK
<1>7. WaitOK'
  <2>1. ASSUME NEW x \in Tasks, task'[x].at = "refresh"
        PROVE  task'[x].swap = refreshing' /\ refreshing' # 0
    <3>1. x # t
      BY <1>5, <2>1 DEF Settled
    <3> QED
      BY <1>2, <1>5, <2>1, <3>1 DEF WaitOK
  <2> QED
    BY <2>1 DEF WaitOK
<1> QED
  BY <1>6, <1>7

\* No task waits any longer once the refresh is over.
LEMMA NoWaiters ==
  ASSUME SwapOK, TaskOK, WaitOK, NEW s \in Swaps, Pending(s)
  PROVE  /\ GivenUp(s) \in [Tasks -> Task]
         /\ \A t \in Tasks : GivenUp(s)[t].at # "refresh"
         /\ \A t \in Tasks : GivenUp(s)[t] \in {NoTask, task[t]}
<1>1. \A t \in Tasks : task[t].at = "refresh" => t \in Waiters(s)
  BY DEF SwapOK, WaitOK, Waiters
<1> QED
  BY <1>1, Constants DEF GivenUp, TaskOK

-----------------------------------------------------------------------------
(* Every step keeps the invariant: the refreshes. *)

LEMMA RotateKeeps ==
  ASSUME Inv, NEW s \in Swaps, Rotate(s)
  PROVE  Inv'
<1>1. PICK f : f = swap[s].sent.signin
  OBVIOUS
<1>2. f \in SignIns /\ nextToken \in 1 .. MaxTokens
  BY <1>1 DEF Inv, SwapOK, Swap, Rotate, ServerOK, Cookie, NoCookie
<1>3. [signin |-> f, token |-> nextToken] \in Cookie
  BY <1>2 DEF Cookie
<1>4. session[f].user \in Anyone
  BY <1>2 DEF Inv, ServerOK
<1>5. PICK w : w = [swap[s] EXCEPT !.at = "granted", !.sent = NoCookie, !.user = Minted(f),
                                   !.got = [signin |-> f, token |-> nextToken]]
  OBVIOUS
<1>6. w \in Swap /\ w.at = "granted"
  BY <1>3, <1>4, <1>5 DEF Inv, SwapOK, Swap, Minted
<1>7. swap' = [swap EXCEPT ![s] = w] /\ Pending(s)
  BY <1>1, <1>5, Zenon DEF Rotate, Pending
<1>8. SwapOK'
  BY <1>6, <1>7, SwapAdvances DEF Rotate, Inv
<1>9. ServerOK'
  BY <1>1, <1>2, WebSessionAssumption DEF Rotate, Inv, ServerOK
<1> QED
  BY <1>8, <1>9 DEF Inv, ClientOK, TaskOK, WaitOK, Rotate, shown, pages

LEMMA RefuseKeeps ==
  ASSUME Inv, NEW s \in Swaps, Refuse(s)
  PROVE  Inv'
<1>1. PICK w : w = [swap[s] EXCEPT !.at = "refused", !.sent = NoCookie]
  OBVIOUS
<1>2. w \in Swap /\ w.at = "refused"
  BY <1>1 DEF Inv, SwapOK, Swap
<1>3. swap' = [swap EXCEPT ![s] = w] /\ Pending(s)
  BY <1>1, Zenon DEF Refuse, Pending
<1>4. SwapOK'
  BY <1>2, <1>3, SwapAdvances DEF Refuse, Inv
<1>5. PICK f : f = swap[s].sent.signin
  OBVIOUS
<1>6. session' \in [SignIns -> [user : Anyone, token : 0 .. MaxTokens]]
  BY <1>5, WebSessionAssumption DEF Refuse, Inv, ServerOK
<1>7. odd' \subseteq Odds
  <2>1. PICK o : o = odd \cup IF f # 0 /\ session[f].token \notin {0, swap[s].sent.token}
                                THEN {"reused"} ELSE {}
    OBVIOUS
  <2> QED
    BY <1>5, <2>1, NotedType DEF Refuse, Inv, ClientOK, Odds
<1> QED
  BY <1>4, <1>6, <1>7 DEF Inv, ServerOK, ClientOK, TaskOK, WaitOK, Refuse, shown, pages

LEMMA GrantedKeeps ==
  ASSUME Inv, NEW s \in Swaps, SwapGranted(s)
  PROVE  Inv'
<1>1. Pending(s) /\ SwapOK' /\ refreshing' = 0
  <2>1. Pending(s)
    BY DEF SwapGranted, Pending
  <2> QED
    BY <2>1, SwapEnds DEF SwapGranted, Inv, SwapOK
<1>2. swap[s].user \in Anyone /\ swap[s].got \in SomeCookie
  BY DEF Inv, SwapOK, Swap, SomeCookie
<1>3. \A t \in Tasks : /\ task'[t] \in Task /\ task'[t].at # "refresh"
                       /\ task'[t].doing = "enter" /\ task'[t].at = "acted"
                            => task'[t].cookie \in Cookie
  <2>1. TAKE t \in Tasks
  <2>2. task[t] \in Task
    BY DEF Inv, TaskOK
  <2>3. PICK u : u = swap[s].user
    OBVIOUS
  <2>4. u \in Anyone /\ Nobody \in Anyone
    BY <1>2, <2>3, Constants
  <2>5. CASE task[t].at # "refresh" \/ task[t].swap # s
    <3>1. task'[t] = task[t]
      BY <2>5 DEF SwapGranted, Resumed
    <3>2. task[t].at # "refresh"
      BY <2>5, <1>1 DEF Inv, WaitOK, SwapOK
    <3> QED
      BY <3>1, <3>2 DEF Inv, TaskOK
  <2>6. CASE ~ (task[t].at # "refresh" \/ task[t].swap # s) /\ task[t].doing = "boot"
    <3>1. task'[t] = [NoTask EXCEPT !.doing = "me", !.token = u, !.stale = task[t].stale]
      BY <2>3, <2>6 DEF SwapGranted, Resumed
    <3> QED
      BY <2>2, <2>4, <3>1 DEF Task, NoTask
  <2>7. CASE ~ (task[t].at # "refresh" \/ task[t].swap # s) /\ task[t].doing # "boot"
    <3>1. PICK x \in Anyone : x = IF task[t].doing = "enter" THEN Nobody ELSE u
      BY <2>4
    <3>2. task'[t] = [task[t] EXCEPT !.at = "again", !.swap = 0, !.token = x]
      BY <2>3, <2>7, <3>1 DEF SwapGranted, Resumed
    <3> QED
      BY <2>2, <3>1, <3>2 DEF Task
  <2> QED
    BY <2>5, <2>6, <2>7
<1>4. task' \in [Tasks -> Task]
  <2>1. task' = [t \in Tasks |-> task'[t]]
    BY DEF SwapGranted, Resumed
  <2> QED
    BY <1>3, <2>1, Zenon
<1>5. odd' \subseteq Odds
  <2>1. PICK o : o = (odd \ {"half out"}) \cup IF swap[s].stale THEN {"crossed"} ELSE {}
    OBVIOUS
  <2> QED
    BY <2>1, NotedType DEF SwapGranted, Inv, ClientOK, Odds
<1>6. TaskOK' /\ WaitOK'
  BY <1>3, <1>4 DEF TaskOK, WaitOK
<1>7. ClientOK'
  BY <1>2, <1>5 DEF Inv, ClientOK, SwapGranted, shown, pages
<1> QED
  BY <1>1, <1>6, <1>7 DEF Inv, ServerOK, SwapGranted, server

LEMMA RefusedKeeps ==
  ASSUME Inv, NEW s \in Swaps, SwapRefused(s)
  PROVE  Inv'
<1>1. Pending(s)
  BY DEF SwapRefused, Pending
<1>2. SwapOK' /\ refreshing' = 0
  <2>1. PICK X : X = StaleSwaps
    OBVIOUS
  <2> QED
    BY <1>1, <2>1, StaleSwapsTypes, SwapEnds DEF SwapRefused, Inv
<1>3. PICK G : G = GivenUp(s)
  OBVIOUS
<1>4. /\ G \in [Tasks -> Task] /\ \A t \in Tasks : G[t].at # "refresh"
      /\ \A t \in Tasks : G[t] \in {NoTask, task[t]}
  BY <1>1, <1>3, NoWaiters DEF Inv
<1>5. task' = Stale(G)
  BY <1>3 DEF SwapRefused
<1>6. TaskOK' /\ WaitOK'
  BY <1>4, <1>5, StaleTypes, Constants DEF TaskOK, WaitOK, Inv
<1>7. odd' \subseteq Odds
  <2>1. PICK o : o = (odd \ {"half in"}) \cup IF swap[s].stale THEN {"crossed"} ELSE {}
    OBVIOUS
  <2> QED
    BY <2>1, NotedType DEF SwapRefused, Inv, ClientOK, Odds
<1>8. ClientOK'
  <2>1. PICK W : W = Waiters(s)
    OBVIOUS
  <2>2. Thrown(W, "anon") /\ user' = Nobody
    BY <2>1 DEF SwapRefused, SignedOut
  <2>3. /\ status' = "anon" /\ page' \in Pages /\ google' \in {"none", "idle", "loading"}
        /\ erasing' \in {"no", "asked", "leaving"}
    BY <2>2, ThrownTypes DEF Inv
  <2> QED
    BY <1>7, <2>2, <2>3, Constants DEF Inv, ClientOK, SwapRefused
<1> QED
  BY <1>2, <1>6, <1>8 DEF Inv, ServerOK, SwapRefused, server

LEMMA SwapThrowsKeeps ==
  ASSUME Inv, NEW s \in Swaps, SwapThrows(s)
  PROVE  Inv'
<1>1. Pending(s)
  BY DEF SwapThrows
<1>2. SwapOK' /\ refreshing' = 0
  BY <1>1, SwapEnds DEF SwapThrows, Inv, SwapOK
<1>3. TaskOK' /\ WaitOK'
  BY <1>1, NoWaiters, Constants DEF TaskOK, WaitOK, Inv, SwapThrows
<1>4. odd' \subseteq Odds
  <2>1. PICK o : o = odd \cup (IF swap[s].at = "granted" THEN {"lost"} ELSE {})
                 \cup (IF BootWaits(s) /\ task["boot"].stale THEN {"crossed"} ELSE {})
    OBVIOUS
  <2> QED
    BY <2>1, NotedType DEF SwapThrows, Inv, ClientOK, Odds
<1>5. ClientOK'
  <2>1. PICK W : W = Waiters(s)
    OBVIOUS
  <2>2. PICK st : st = BootCaught(s)
    OBVIOUS
  <2>3. st \in {"loading", "authed", "anon"}
    BY <2>2 DEF BootCaught, Inv, ClientOK
  <2>4. Thrown(W, st)
    BY <2>1, <2>2 DEF SwapThrows
  <2>5. /\ status' = st /\ page' \in Pages /\ google' \in {"none", "idle", "loading"}
        /\ erasing' \in {"no", "asked", "leaving"}
    BY <2>3, <2>4, ThrownTypes DEF Inv
  <2> QED
    BY <1>4, <2>3, <2>5 DEF Inv, ClientOK, SwapThrows
<1> QED
  BY <1>2, <1>3, <1>5 DEF Inv, ServerOK, SwapThrows, server

-----------------------------------------------------------------------------
(* The requests. *)

LEMMA DeniedKeeps ==
  ASSUME Inv, NEW t \in Tasks, Denied(t)
  PROVE  Inv'
<1>1. SwapOK' /\ refreshing' \in Swaps /\ SharedSwap = refreshing'
  BY RefreshShared DEF Denied, Inv
<1>2. refreshing # 0 => refreshing' = refreshing
  BY RefreshShared DEF Denied, Inv
<1>3. PICK w : w = [task[t] EXCEPT !.at = "refresh", !.token = Nobody, !.swap = SharedSwap]
  OBVIOUS
<1>4. task' = [task EXCEPT ![t] = w]
  BY <1>3, Zenon DEF Denied
<1>5. w \in Task /\ w.at = "refresh" /\ w.swap = refreshing'
  BY <1>1, <1>3, Constants DEF Inv, TaskOK, Task
<1>6. TaskOK'
  BY <1>4, <1>5 DEF Inv, TaskOK
<1>7. WaitOK'
  BY <1>1, <1>2, <1>4, <1>5, FirstSwap DEF Inv, WaitOK, TaskOK
<1> QED
  BY <1>1, <1>6, <1>7 DEF Inv, ServerOK, ClientOK, Denied, server, shown, pages

LEMMA NoTaskSettled == Settled(NoTask) /\ Settled(Entering)
BY Constants DEF Settled

LEMMA ThrowsKeeps ==
  ASSUME Inv, NEW t \in Tasks, Throws(t)
  PROVE  Inv'
<1>1. TaskOK' /\ WaitOK'
  BY NoTaskSettled, OneTask DEF Throws, Inv
<1>2. odd' \subseteq Odds
  <2>1. PICK o : o = odd \cup (IF task[t].at = "acted" THEN {"lost"} ELSE {})
                 \cup (IF t = "boot" /\ task[t].stale THEN {"crossed"} ELSE {})
    OBVIOUS
  <2> QED
    BY <2>1, NotedType DEF Throws, Inv, ClientOK, Odds
<1>3. ClientOK'
  <2>1. PICK W : W = {t}
    OBVIOUS
  <2>2. PICK st : st = IF t = "boot" THEN "anon" ELSE status
    OBVIOUS
  <2>3. st \in {"loading", "authed", "anon"}
    BY <2>2 DEF Inv, ClientOK
  <2>4. Thrown(W, st)
    BY <2>1, <2>2 DEF Throws
  <2>5. /\ status' = st /\ page' \in Pages /\ google' \in {"none", "idle", "loading"}
        /\ erasing' \in {"no", "asked", "leaving"}
    BY <2>3, <2>4, ThrownTypes DEF Inv
  <2> QED
    BY <1>2, <2>3, <2>5 DEF Inv, ClientOK, Throws
<1> QED
  BY <1>1, <1>3, SameSwaps DEF Inv, ServerOK, Throws, server

LEMMA SignInKeeps ==
  ASSUME Inv, SignIn
  PROVE  Inv'
<1>1. TaskOK' /\ WaitOK'
  BY NoTaskSettled, OneTask DEF SignIn, Inv, Tasks
<1> QED
  BY <1>1, SameSwaps DEF Inv, ServerOK, ClientOK, SignIn, server, shown

LEMMA EnterKeeps ==
  ASSUME Inv, NEW u \in Users, Enter(u)
  PROVE  Inv'
<1>1. PICK f \in SignIns :
        /\ task["signin"].doing = "enter" /\ nextToken <= MaxTokens
        /\ session' = [session EXCEPT ![f] = [user |-> u, token |-> nextToken]]
        /\ nextToken' = nextToken + 1
        /\ task' = [task EXCEPT !["signin"].at = "acted",
                                !["signin"].cookie = [signin |-> f, token |-> nextToken]]
        /\ UNCHANGED <<gone, cookie, access, refreshing, swap, shown, pages, loads, odd>>
  BY DEF Enter
<1>2. [signin |-> f, token |-> nextToken] \in Cookie
  BY <1>1 DEF Inv, ServerOK, Cookie
<1>3. PICK c : c = [signin |-> f, token |-> nextToken]
  OBVIOUS
<1>4. PICK w : w = [task["signin"] EXCEPT !.at = "acted", !.cookie = c]
  OBVIOUS
<1>5. task' = [task EXCEPT !["signin"] = w]
  BY <1>1, <1>3, <1>4, Zenon
<1>6. "signin" \in Tasks
  BY DEF Tasks
<1>7. task["signin"] \in Task
  BY <1>6 DEF Inv, TaskOK
<1>8. Settled(w)
  <2>1. c \in Cookie
    BY <1>2, <1>3
  <2> QED
    BY <2>1, <1>4, <1>7 DEF Settled, Task
<1>9. TaskOK' /\ WaitOK'
  BY <1>1, <1>5, <1>6, <1>8, OneTask DEF Inv
<1>10. ServerOK'
  BY <1>1, WebSessionAssumption DEF Inv, ServerOK, Anyone
<1> QED
  BY <1>1, <1>9, <1>10, SameSwaps DEF Inv, ClientOK, shown, pages

LEMMA EnteredKeeps ==
  ASSUME Inv, Entered
  PROVE  Inv'
<1>1. "signin" \in Tasks
  BY DEF Tasks
<1>2. PICK c : c = task["signin"].cookie
  OBVIOUS
<1>3. c \in Cookie
  BY <1>1, <1>2 DEF Inv, TaskOK, Entered
<1>4. PICK u : u = session[c.signin].user
  OBVIOUS
<1>5. u \in Anyone
  BY <1>3, <1>4 DEF Inv, ServerOK, Cookie
<1>6. cookie' = c /\ access' = u
  BY <1>2, <1>4 DEF Entered, SetSession
<1>7. PICK w : w = [NoTask EXCEPT !.doing = "me", !.token = u]
  OBVIOUS
<1>8. Settled(w)
  BY <1>5, <1>7, Constants DEF Settled, NoTask, Task
<1>9. task' = [Stale(task) EXCEPT !["signin"] = w]
  BY <1>6, <1>7 DEF Entered
<1>10. TaskOK' /\ WaitOK'
  BY <1>1, <1>8, <1>9, OneOfStale DEF Inv, Entered
<1>11. SwapOK'
  <2>1. PICK X : X = StaleSwaps
    OBVIOUS
  <2>2. swap' = X /\ refreshing' = refreshing
    BY <2>1 DEF Entered
  <2> QED
    BY <2>1, <2>2, StaleSwapsTypes DEF Inv, SwapOK, Pending
<1>12. odd' \subseteq Odds
  BY NotedType DEF Entered, Inv, ClientOK, Odds
<1>13. ClientOK'
  BY <1>3, <1>5, <1>6, <1>12 DEF Inv, ClientOK, Entered, shown, pages, SomeCookie
<1> QED
  BY <1>10, <1>11, <1>13 DEF Inv, ServerOK, Entered, server

LEMMA MeKeeps ==
  ASSUME Inv, NEW t \in Tasks, Me(t)
  PROVE  Inv'
<1>1. TaskOK' /\ WaitOK'
  BY NoTaskSettled, OneTask DEF Me, Inv
<1>2. odd' \subseteq Odds
  <2>1. PICK o : o = (IF t = "signin" THEN odd \ {"half in"} ELSE odd)
                 \cup IF task[t].stale THEN {"crossed"} ELSE {}
    OBVIOUS
  <2> QED
    BY <2>1, NotedType DEF Me, Inv, ClientOK, Odds
<1>3. page' \in Pages
  <2>1. PICK p \in Pages : p = IF t = "signin" /\ page = "magic" THEN "app" ELSE page
    BY DEF Inv, ClientOK, Pages
  <2> QED
    BY <2>1, GuardedType DEF Me
<1>4. user' \in Anyone
  BY DEF Me, SetUser, Inv, TaskOK, Task
<1>5. ClientOK'
  BY <1>2, <1>3, <1>4 DEF Inv, ClientOK, Me
<1> QED
  BY <1>1, <1>5, SameSwaps DEF Inv, ServerOK, Me, server

LEMMA AskKeeps ==
  ASSUME Inv, NEW t \in Tasks, NEW doing \in {"work", "erase"},
         task' = [task EXCEPT ![t] = FetchAsShown(doing)],
         UNCHANGED <<server, cookie, access, refreshing, swap, shown, page, google, loads, odd>>,
         erasing' \in {"no", "asked", "leaving"}
  PROVE  Inv'
<1>1. PICK w : w = FetchAsShown(doing)
  OBVIOUS
<1>2. access \in Anyone /\ user \in Anyone
  BY DEF Inv, ClientOK
<1>3. PICK g : g = [NoTask EXCEPT !.doing = doing, !.token = access, !.as = user]
  OBVIOUS
<1>4. Settled(w)
  <2>1. \A x \in BOOLEAN : Settled([g EXCEPT !.stale = x])
    BY <1>2, <1>3 DEF Settled, NoTask, Task
  <2>2. ("half in" \in odd) \in BOOLEAN
    OBVIOUS
  <2>3. w = [g EXCEPT !.stale = "half in" \in odd]
    BY <1>1, <1>3, Zenon DEF FetchAsShown, Fetch
  <2> QED
    BY <2>1, <2>2, <2>3, Zenon
<1>5. TaskOK' /\ WaitOK'
  BY <1>1, <1>4, OneTask DEF Inv
<1> QED
  BY <1>5, SameSwaps DEF Inv, ServerOK, ClientOK, server, shown

LEMMA DoneKeeps ==
  ASSUME Inv, NEW t \in Tasks, Done(t)
  PROVE  Inv'
<1>1. TaskOK' /\ WaitOK'
  BY NoTaskSettled, OneTask DEF Done, Inv
<1> QED
  BY <1>1, SameSwaps DEF Inv, ServerOK, ClientOK, Done, server, shown, pages

LEMMA LogOutKeeps ==
  ASSUME Inv, LogOut
  PROVE  Inv'
<1>1. PICK w : w = [NoTask EXCEPT !.doing = "leave", !.cookie = cookie]
  OBVIOUS
<1>2. Settled(w)
  BY <1>1, Constants DEF Settled, NoTask, Task, Inv, ClientOK, SomeCookie
<1>3. TaskOK' /\ WaitOK'
  BY <1>1, <1>2, OneTask DEF Inv, LogOut, Tasks
<1> QED
  BY <1>3, SameSwaps DEF Inv, ServerOK, ClientOK, LogOut, server, shown, pages

LEMMA DeleteKeeps ==
  ASSUME Inv, NEW t \in Tasks, Delete(t)
  PROVE  Inv'
<1>1. PICK u : u = Confirmed(t)
  OBVIOUS
<1>2. u \in Users
  BY <1>1 DEF Delete, Confirmed, Inv, TaskOK, Task, Anyone
<1>3. ServerOK'
  BY <1>1, <1>2, WebSessionAssumption DEF Inv, ServerOK, Delete
<1>4. PICK w : w = [task[t] EXCEPT !.at = "acted", !.token = Nobody]
  OBVIOUS
<1>5. task' = [task EXCEPT ![t] = w]
  BY <1>4, Zenon DEF Delete
<1>6. Settled(w)
  BY <1>4, Constants DEF Inv, TaskOK, Task, Settled, Delete
<1>7. TaskOK' /\ WaitOK'
  BY <1>5, <1>6, OneTask DEF Inv, Delete
<1> QED
  BY <1>3, <1>7, SameSwaps DEF Inv, ClientOK, Delete, shown, pages

LEMMA ErasedKeeps ==
  ASSUME Inv, NEW t \in Tasks, Erased(t)
  PROVE  Inv'
<1>1. PICK w : w = Departing(t)
  OBVIOUS
<1>2. Settled(w)
  BY <1>1, Constants DEF Departing, Settled, NoTask, Task, Inv, TaskOK
<1>3. PICK X : X = [task EXCEPT ![t] = NoTask]
  OBVIOUS
<1>4. task' = [X EXCEPT !["logout"] = w]
  BY <1>1, <1>3, Zenon DEF Erased
<1>5. TaskOK' /\ WaitOK'
  <2>1. TaskOK /\ WaitOK /\ "logout" \in Tasks /\ UNCHANGED refreshing
    BY DEF Inv, Erased, Tasks
  <2>2. task' \in [Tasks -> Task]
    BY <1>2, <1>3, <1>4, <2>1, NoTaskSettled DEF TaskOK, Settled
  <2>3. \A x \in Tasks : task'[x] \in {NoTask, w, task[x]}
    BY <1>3, <1>4, <2>1 DEF TaskOK
  <2> QED
    BY <1>2, <2>1, <2>2, <2>3, NoTaskSettled, SettledOrKept
<1>6. erasing' \in {"no", "asked", "leaving"}
  BY DEF Erased, Inv, ClientOK
<1> QED
  BY <1>5, <1>6, SameSwaps, Constants DEF Inv, ServerOK, ClientOK, Erased, server, shown

LEMMA LeaveKeeps ==
  ASSUME Inv, Leave
  PROVE  Inv'
<1>1. PICK c : c = task["logout"].cookie
  OBVIOUS
<1>2. "logout" \in Tasks /\ task["logout"] \in Task /\ c \in SomeCookie
  BY <1>1 DEF Inv, TaskOK, Task, Tasks, SomeCookie
<1>3. ServerOK'
  <2>1. PICK f : f = c.signin
    OBVIOUS
  <2>2. session' = session \/ session' = [session EXCEPT ![f].token = 0]
    BY <1>1, <2>1 DEF Leave
  <2>3. session' \in [SignIns -> [user : Anyone, token : 0 .. MaxTokens]]
    BY <2>2, WebSessionAssumption DEF Inv, ServerOK
  <2> QED
    BY <2>3 DEF Inv, ServerOK, Leave
<1>4. PICK w : w = [task["logout"] EXCEPT !.at = "acted", !.cookie = NoCookie]
  OBVIOUS
<1>5. task' = [task EXCEPT !["logout"] = w]
  BY <1>4, Zenon DEF Leave
<1>6. Settled(w)
  BY <1>2, <1>4 DEF Task, Settled, Leave
<1>7. TaskOK' /\ WaitOK'
  BY <1>2, <1>5, <1>6, OneTask DEF Inv, Leave
<1> QED
  BY <1>3, <1>7, SameSwaps DEF Inv, ClientOK, Leave, shown, pages

LEMMA LeftKeeps ==
  ASSUME Inv, Left
  PROVE  Inv'
<1>1. TaskOK' /\ WaitOK'
  BY NoTaskSettled, OneOfStale DEF Left, Inv, Tasks
<1>2. SwapOK'
  <2>1. PICK X : X = StaleSwaps
    OBVIOUS
  <2>2. swap' = X /\ refreshing' = refreshing
    BY <2>1 DEF Left
  <2> QED
    BY <2>1, <2>2, StaleSwapsTypes DEF Inv, SwapOK, Pending
<1>3. odd' \subseteq Odds
  <2>1. PICK o : o = (odd \ {"half in", "half out"}) \cup {"left"}
                       \cup IF task["logout"].stale THEN {"late"} ELSE {}
    OBVIOUS
  <2> QED
    BY <2>1, NotedType DEF Left, Inv, ClientOK, Odds
<1>4. page' \in Pages
  <2>1. PICK p \in Pages : p = IF task["logout"].as # Nobody THEN "login" ELSE page
    BY DEF Inv, ClientOK, Pages
  <2> QED
    BY <2>1, GuardedType DEF Left
<1>5. ClientOK'
  BY <1>3, <1>4, Constants DEF Inv, ClientOK, Left, ClearSession
<1> QED
  BY <1>1, <1>2, <1>5 DEF Inv, ServerOK, Left, server

LEMMA LeaveThrowsKeeps ==
  ASSUME Inv, LeaveThrows
  PROVE  Inv'
<1>1. TaskOK' /\ WaitOK'
  BY NoTaskSettled, OneTask DEF LeaveThrows, Inv, Tasks
<1>2. odd' \subseteq Odds
  <2>1. PICK o : o = odd \cup {"half out"}
                       \cup IF task["logout"].as # Nobody THEN {"kept"} ELSE {}
    OBVIOUS
  <2> QED
    BY <2>1, NotedType DEF LeaveThrows, Inv, ClientOK, Odds
<1> QED
  BY <1>1, <1>2, SameSwaps, Constants
     DEF Inv, ServerOK, ClientOK, LeaveThrows, server, shown, pages

LEMMA RedirectKeeps ==
  ASSUME Inv, Redirect \/ BackToSignIn
  PROVE  Inv'
<1>1. page' \in Pages
  BY GuardedType DEF Redirect, ToLogin, ToApp, BackToSignIn, Pages
<1> QED
  BY <1>1, SameSwaps DEF Inv, ServerOK, ClientOK, TaskOK, WaitOK, Redirect, ToLogin, ToApp,
                         BackToSignIn, server, shown

-----------------------------------------------------------------------------
(* The loads. *)

\* A page that boots has one refresh under way.
LEMMA LoadedOK ==
  ASSUME NEW c \in SomeCookie, NEW magic \in BOOLEAN
  PROVE  /\ Booting(c) \in [Swaps -> Swap]
         /\ Booting(c)[1].at = "sent" /\ Booting(c)[1].sent = c
         /\ \A s \in Swaps : Booting(c)[s].at # "idle" => s = 1
         /\ \A s \in Swaps : Booting(c)[s].at # "granted"
         /\ Started(magic) \in [Tasks -> Task]
         /\ \A t \in Tasks : /\ Started(magic)[t].at \in {"sent", "refresh"}
                             /\ Started(magic)[t].at = "refresh" => Started(magic)[t].swap = 1
         /\ Opened(magic) \subseteq Pages
<1>1. PICK w : w = [IdleSwap EXCEPT !.at = "sent", !.sent = c]
  OBVIOUS
<1>2. w \in Swap /\ w.at = "sent" /\ w.sent = c
  BY <1>1 DEF IdleSwap, Swap, SomeCookie, Anyone
<1>3. Booting(c) = [s \in Swaps |-> IF s = 1 THEN w ELSE IdleSwap]
  BY <1>1 DEF Booting
<1>4. PICK b : b = [NoTask EXCEPT !.doing = "boot", !.at = "refresh", !.swap = 1]
  OBVIOUS
<1>5. b \in Task /\ b.at = "refresh" /\ b.swap = 1
  BY <1>4, FirstSwap DEF NoTask, Task, Anyone
<1>6. Started(magic) = [t \in Tasks |-> IF t = "boot" THEN b
                          ELSE IF t = "signin" /\ magic THEN Entering ELSE NoTask]
  BY <1>4 DEF Started
<1>7. Opened(magic) \subseteq Pages
  BY DEF Opened, Pages
<1> QED
  BY <1>2, <1>3, <1>5, <1>6, <1>7, FirstSwap, Constants

LEMMA InitInv == Init => Inv
<1> SUFFICES ASSUME Init PROVE Inv
  OBVIOUS
<1>1. PICK u \in Known \cup {Nobody}, live \in BOOLEAN, magic \in BOOLEAN :
        LET c == IF u = Nobody THEN NoCookie ELSE [signin |-> 1, token |-> 1]
        IN  /\ session = [f \in SignIns |->
                 IF f = 1 THEN [user |-> u, token |-> IF live /\ u # Nobody THEN 1 ELSE 0]
                          ELSE [user |-> Nobody, token |-> 0]]
            /\ nextToken = 2 /\ cookie = c /\ access = Nobody /\ refreshing = 1
            /\ swap = Booting(c) /\ task = Started(magic)
            /\ user = Nobody /\ status = "loading"
            /\ page \in Opened(magic) /\ google = Button(page) /\ erasing = "no"
            /\ gone = {} /\ loads = 0 /\ odd = {}
  BY DEF Init
<1>2. PICK c : c = IF u = Nobody THEN NoCookie ELSE [signin |-> 1, token |-> 1]
  OBVIOUS
<1>3. c \in SomeCookie
  BY <1>2, WebSessionAssumption DEF SomeCookie, Cookie, SignIns
<1>4. u \in Anyone /\ Nobody \in Anyone
  BY WebSessionAssumption DEF Anyone
<1>5. ServerOK
  BY <1>1, <1>4, WebSessionAssumption DEF ServerOK
<1>6. swap = Booting(c) /\ cookie = c /\ task = Started(magic)
  BY <1>1, <1>2
<1>7. ClientOK
  BY <1>1, <1>3, <1>4, <1>6, LoadedOK, WebSessionAssumption DEF ClientOK, Button
<1>8. SwapOK
  BY <1>1, <1>3, <1>6, LoadedOK, FirstSwap DEF SwapOK, Pending
<1>9. TaskOK /\ WaitOK
  BY <1>1, <1>3, <1>6, LoadedOK, FirstSwap DEF TaskOK, WaitOK
<1> QED
  BY <1>5, <1>7, <1>8, <1>9 DEF Inv

LEMMA CookiesType == Inv => Cookies \subseteq SomeCookie
<1> SUFFICES ASSUME Inv, NEW c \in Cookies PROVE c \in SomeCookie
  OBVIOUS
<1>1. CASE c = cookie
  BY <1>1 DEF Inv, ClientOK
<1>2. CASE \E s \in Swaps : c = swap[s].got
  BY <1>2 DEF Inv, SwapOK, Swap, SomeCookie
<1>3. CASE \E t \in Tasks : c = task[t].cookie
  BY <1>3 DEF Inv, TaskOK, Task, SomeCookie
<1>4. CASE c = NoCookie
  BY <1>4, Constants
<1> QED
  BY <1>1, <1>2, <1>3, <1>4 DEF Cookies

LEMMA LoadKeeps ==
  ASSUME Inv, NEW magic \in BOOLEAN, Load(magic)
  PROVE  Inv'
<1>1. PICK c \in Cookies :
        /\ cookie' = c /\ swap' = Booting(c)
        /\ odd' = Noted((odd \cap {"lost", "reused"}) \cup IF Cookies = {c} THEN {} ELSE {"lost"})
  BY DEF Load
<1>2. c \in SomeCookie
  BY CookiesType
<1>3. /\ access' = Nobody /\ refreshing' = 1 /\ task' = Started(magic)
      /\ user' = Nobody /\ status' = "loading" /\ page' \in Opened(magic)
      /\ google' = Button(page') /\ erasing' = "no" /\ UNCHANGED server
      /\ loads' = loads + 1 /\ loads < MaxLoads
  BY DEF Load
<1>4. odd' \subseteq Odds
  <2>1. PICK o : o = (odd \cap {"lost", "reused"}) \cup IF Cookies = {c} THEN {} ELSE {"lost"}
    OBVIOUS
  <2> QED
    BY <1>1, <2>1, NotedType DEF Odds
<1>5. loads' \in 0 .. MaxLoads
  BY <1>3, WebSessionAssumption DEF Inv, ClientOK
<1>6. ClientOK'
  BY <1>1, <1>2, <1>3, <1>4, <1>5, LoadedOK, Constants DEF ClientOK, Button
<1>7. SwapOK'
  BY <1>1, <1>2, <1>3, LoadedOK, FirstSwap DEF SwapOK, Pending
<1>8. TaskOK' /\ WaitOK'
  BY <1>2, <1>3, LoadedOK, FirstSwap DEF TaskOK, WaitOK
<1> QED
  BY <1>3, <1>6, <1>7, <1>8 DEF Inv, ServerOK, server

-----------------------------------------------------------------------------
LEMMA StepInv == Inv /\ [Next]_vars => Inv'
<1> SUFFICES ASSUME Inv, [Next]_vars PROVE Inv'
  OBVIOUS
<1>1. CASE UNCHANGED vars
  BY <1>1 DEF Inv, ServerOK, ClientOK, SwapOK, TaskOK, WaitOK, Pending, vars
<1>2. ASSUME NEW s \in Swaps, SwapStep(s)
      PROVE  Inv'
  BY <1>2, RotateKeeps, RefuseKeeps, GrantedKeeps, RefusedKeeps, SwapThrowsKeeps DEF SwapStep
<1>3. ASSUME NEW t \in Tasks, MeStep(t)
      PROVE  Inv'
  BY <1>3, MeKeeps, DeniedKeeps, ThrowsKeeps DEF MeStep
<1>4. CASE SignInStep
  BY <1>3, <1>4, EnterKeeps, EnteredKeeps DEF SignInStep, Tasks
<1>5. ASSUME NEW w \in Work,
             \/ Ask(w) \/ Done(w) \/ Denied(w) \/ Throws(w)
             \/ Erase(w) \/ Delete(w) \/ Erased(w)
      PROVE  Inv'
  <2>1. w \in Tasks
    BY DEF Tasks
  <2>2. CASE Ask(w)
    <3>1. erasing' \in {"no", "asked", "leaving"}
      BY <2>2 DEF Ask, pages, Inv, ClientOK
    <3> QED
      BY <2>1, <2>2, <3>1, AskKeeps DEF Ask, pages
  <2>3. CASE Erase(w)
    BY <2>1, <2>3, AskKeeps DEF Erase
  <2> QED
    BY <1>5, <2>1, <2>2, <2>3, DoneKeeps, DeniedKeeps, ThrowsKeeps, DeleteKeeps, ErasedKeeps
<1>6. "boot" \in Tasks
  BY DEF Tasks
<1> QED
  BY <1>1, <1>2, <1>3, <1>4, <1>5, <1>6, SignInKeeps, RedirectKeeps, LogOutKeeps, LeaveKeeps,
     LeftKeeps, LeaveThrowsKeeps, LoadKeeps DEF Next

(***************************************************************************)
(* The types, for a tab of doRefresh and authFetch with any number of      *)
(* requests; with them that who waits for a refresh waits for one that is  *)
(* under way, the only one there is.                                       *)
(***************************************************************************)
THEOREM TypeCorrect == Spec => []TypeOK
<1>1. Spec => []Inv
  BY InitInv, StepInv, PTL DEF Spec
<1> QED
  BY <1>1, InvTypes, PTL

-----------------------------------------------------------------------------
(***************************************************************************)
(* No refresh token is spent twice.  Until an answer is lost, whatever     *)
(* cookie the tab may present is the live one of its sign-in, or that      *)
(* sign-in is over: the cookie of the browser, unless the answer with its  *)
(* successor is on its way; the one that a refresh sends; the one that an  *)
(* answer brings.  A sign-in's answer brings a cookie of a sign-in that    *)
(* nothing else belongs to.                                                *)
(***************************************************************************)
Live(c) == c.signin # 0 => session[c.signin].token \in {0, c.token}

Arriving(f) == \E s \in Swaps : swap[s].at = "granted" /\ swap[s].got.signin = f

CookieLive ==
  cookie.signin # 0 => session[cookie.signin].token \in {0, cookie.token} \/ Arriving(cookie.signin)

SwapsLive ==
  \A s \in Swaps :
    /\ swap[s].at = "sent" => Live(swap[s].sent)
    /\ swap[s].at = "granted" => Live(swap[s].got)

Entry == task["signin"].doing = "enter" /\ task["signin"].at = "acted"

EntryLive ==
  Entry =>
    LET c == task["signin"].cookie
    IN  /\ Live(c) /\ c.signin # cookie.signin
        /\ \A s \in Swaps :
             /\ swap[s].at = "sent" => swap[s].sent.signin # c.signin
             /\ swap[s].at = "granted" => swap[s].got.signin # c.signin

\* The sign-in of a cookie has begun.
Begun(c) == c.signin # 0 => session[c.signin].user # Nobody

AllBegun ==
  /\ Begun(cookie)
  /\ \A s \in Swaps : /\ swap[s].at = "sent" => Begun(swap[s].sent)
                      /\ swap[s].at = "granted" => Begun(swap[s].got)
  /\ Entry => Begun(task["signin"].cookie)

OnlySignIn == \A t \in Tasks : task[t].doing = "enter" => t = "signin"

Fresh ==
  /\ "reused" \notin odd
  /\ CookieLive /\ SwapsLive /\ EntryLive /\ AllBegun

FreshInv == OnlySignIn /\ ("lost" \in odd \/ Fresh)

LEMMA FreshIsOwn == FreshInv => NoOwnReuse
BY DEF FreshInv, Fresh, NoOwnReuse

\* What was lost is not forgotten, and only a refused refresh notes a reuse.
LEMMA OddKept ==
  ASSUME [Next]_vars
  PROVE  /\ "lost" \in odd => "lost" \in odd'
         /\ "reused" \in odd' => "reused" \in odd \/ \E s \in Swaps : Refuse(s)
<1>1. CASE UNCHANGED odd
  BY <1>1
<1>2. ASSUME NEW s \in Swaps, SwapStep(s)
      PROVE  /\ "lost" \in odd => "lost" \in odd'
             /\ "reused" \in odd' => "reused" \in odd \/ Refuse(s)
  <2>1. CASE Refuse(s)
    BY <2>1, NotedKeeps DEF Refuse
  <2>2. CASE SwapGranted(s)
    <3>1. PICK o : o = (odd \ {"half out"}) \cup IF swap[s].stale THEN {"crossed"} ELSE {}
      OBVIOUS
    <3>2. ("lost" \in odd => "lost" \in o) /\ ("reused" \in o => "reused" \in odd)
      BY <3>1
    <3> QED
      BY <2>2, <3>1, <3>2, NotedKeeps DEF SwapGranted
  <2>3. CASE SwapRefused(s)
    <3>1. PICK o : o = (odd \ {"half in"}) \cup IF swap[s].stale THEN {"crossed"} ELSE {}
      OBVIOUS
    <3>2. ("lost" \in odd => "lost" \in o) /\ ("reused" \in o => "reused" \in odd)
      BY <3>1
    <3> QED
      BY <2>3, <3>1, <3>2, NotedKeeps DEF SwapRefused
  <2>4. CASE SwapThrows(s)
    BY <2>4, NotedKeeps DEF SwapThrows
  <2> QED
    BY <1>2, <2>1, <2>2, <2>3, <2>4 DEF SwapStep, Rotate
<1>3. ASSUME NEW t \in Tasks, Throws(t) \/ Me(t)
      PROVE  /\ "lost" \in odd => "lost" \in odd'
             /\ "reused" \in odd' => "reused" \in odd
  <2>1. CASE Throws(t)
    BY <2>1, NotedKeeps DEF Throws
  <2>2. CASE Me(t)
    <3>1. PICK o : o = (IF t = "signin" THEN odd \ {"half in"} ELSE odd)
                       \cup IF task[t].stale THEN {"crossed"} ELSE {}
      OBVIOUS
    <3>2. ("lost" \in odd => "lost" \in o) /\ ("reused" \in o => "reused" \in odd)
      BY <3>1
    <3> QED
      BY <2>2, <3>1, <3>2, NotedKeeps DEF Me
  <2> QED
    BY <1>3, <2>1, <2>2
<1>4. CASE Entered \/ Left \/ LeaveThrows
  <2>1. CASE Entered
    <3>1. PICK o : o = (odd \ {"left", "half out"}) \cup {"half in"}
      OBVIOUS
    <3>2. ("lost" \in odd => "lost" \in o) /\ ("reused" \in o => "reused" \in odd)
      BY <3>1
    <3> QED
      BY <2>1, <3>1, <3>2, NotedKeeps DEF Entered
  <2>2. CASE Left
    <3>1. PICK o : o = (odd \ {"half in", "half out"}) \cup {"left"}
                       \cup IF task["logout"].stale THEN {"late"} ELSE {}
      OBVIOUS
    <3>2. ("lost" \in odd => "lost" \in o) /\ ("reused" \in o => "reused" \in odd)
      BY <3>1
    <3> QED
      BY <2>2, <3>1, <3>2, NotedKeeps DEF Left
  <2>3. CASE LeaveThrows
    <3>1. PICK o : o = odd \cup {"half out"} \cup IF task["logout"].as # Nobody THEN {"kept"} ELSE {}
      OBVIOUS
    <3>2. ("lost" \in odd => "lost" \in o) /\ ("reused" \in o => "reused" \in odd)
      BY <3>1
    <3> QED
      BY <2>3, <3>1, <3>2, NotedKeeps DEF LeaveThrows
  <2> QED
    BY <1>4, <2>1, <2>2, <2>3
<1>5. ASSUME NEW magic \in BOOLEAN, Load(magic)
      PROVE  /\ "lost" \in odd => "lost" \in odd'
             /\ "reused" \in odd' => "reused" \in odd
  BY <1>5, NotedKeeps DEF Load
<1>6. "boot" \in Tasks /\ "signin" \in Tasks /\ Work \subseteq Tasks
  BY DEF Tasks
<1> QED
  BY <1>1, <1>2, <1>3, <1>4, <1>5, <1>6
     DEF Next, vars, MeStep, Denied, SignInStep, Enter, Ask, Done, Erase, Delete, Erased,
         SignIn, Redirect, ToLogin, ToApp, BackToSignIn, LogOut, Leave

\* Only the sign-in sends a credential.
LEMMA OnlySignInStep ==
  ASSUME Inv, OnlySignIn, [Next]_vars
  PROVE  OnlySignIn'
<1>1. \A t \in Tasks : t # "signin" => task[t].doing # "enter"
  BY DEF OnlySignIn
<1>2. ASSUME NEW t \in Tasks, NEW w, w.doing # "enter" \/ t = "signin",
             task' = [task EXCEPT ![t] = w]
      PROVE  OnlySignIn'
  BY <1>1, <1>2 DEF OnlySignIn, Inv, TaskOK
<1>3. "boot" \in Tasks /\ "signin" \in Tasks /\ "logout" \in Tasks /\ Work \subseteq Tasks
  BY DEF Tasks
<1>4. CASE UNCHANGED task
  BY <1>4 DEF OnlySignIn
<1>5. ASSUME NEW s \in Swaps, SwapStep(s)
      PROVE  OnlySignIn'
  <2>1. CASE SwapGranted(s)
    <3>1. \A t \in Tasks : task'[t].doing = "enter" => task[t].doing = "enter"
      <4>1. TAKE t \in Tasks
      <4>2. task[t] \in Task
        BY DEF Inv, TaskOK
      <4>3. PICK u : u = swap[s].user
        OBVIOUS
      <4>4. PICK x : x = IF task[t].doing = "enter" THEN Nobody ELSE u
        OBVIOUS
      <4>5. \/ task'[t] = task[t]
            \/ task'[t] = [NoTask EXCEPT !.doing = "me", !.token = u, !.stale = task[t].stale]
            \/ task'[t] = [task[t] EXCEPT !.at = "again", !.swap = 0, !.token = x]
        BY <2>1, <4>3, <4>4 DEF SwapGranted, Resumed
      <4> QED
        BY <4>2, <4>5 DEF NoTask, Task
    <3> QED
      BY <1>1, <3>1 DEF OnlySignIn
  <2>2. ASSUME SwapRefused(s) \/ SwapThrows(s)
        PROVE  OnlySignIn'
    <3>1. PICK G : G = GivenUp(s)
      OBVIOUS
    <3>2. /\ G \in [Tasks -> Task] /\ \A t \in Tasks : G[t] \in {NoTask, task[t]}
      <4>1. Pending(s)
        BY <2>2 DEF SwapRefused, SwapThrows, Pending
      <4> QED
        BY <3>1, <4>1, NoWaiters DEF Inv
    <3>3. \A t \in Tasks : task'[t].doing = G[t].doing
      BY <2>2, <3>1, <3>2, StaleTypes, ZenonT(40) DEF SwapRefused, SwapThrows
    <3> QED
      BY <1>1, <3>2, <3>3, Constants DEF OnlySignIn
  <2> QED
    BY <1>4, <1>5, <2>1, <2>2 DEF SwapStep, Rotate, Refuse
<1>6. ASSUME NEW t \in Tasks, MeStep(t) \/ Done(t)
      PROVE  OnlySignIn'
  <2>1. CASE Denied(t)
    <3>1. PICK n : n = SharedSwap
      OBVIOUS
    <3>2. PICK w : w = [task[t] EXCEPT !.at = "refresh", !.token = Nobody, !.swap = n]
      OBVIOUS
    <3>3. task' = [task EXCEPT ![t] = w]
      BY <2>1, <3>1, <3>2, Zenon DEF Denied
    <3>4. w.doing = task[t].doing
      BY <3>2 DEF Inv, TaskOK, Task
    <3> QED
      BY <1>1, <1>2, <3>3, <3>4
  <2>2. CASE Me(t) \/ Throws(t) \/ Done(t)
    <3>1. task' = [task EXCEPT ![t] = NoTask]
      BY <2>2 DEF Me, Throws, Done
    <3> QED
      BY <1>2, <3>1, Constants
  <2> QED
    BY <1>6, <2>1, <2>2 DEF MeStep
<1>7. CASE SignIn
  BY <1>2, <1>3, <1>7 DEF SignIn
<1>8. ASSUME NEW u \in Users, Enter(u)
      PROVE  OnlySignIn'
  <2>1. PICK f \in SignIns :
          task' = [task EXCEPT !["signin"].at = "acted",
                               !["signin"].cookie = [signin |-> f, token |-> nextToken]]
    BY <1>8 DEF Enter
  <2>2. PICK c : c = [signin |-> f, token |-> nextToken]
    OBVIOUS
  <2>3. PICK w : w = [task["signin"] EXCEPT !.at = "acted", !.cookie = c]
    OBVIOUS
  <2>4. task' = [task EXCEPT !["signin"] = w]
    BY <2>1, <2>2, <2>3, Zenon
  <2> QED
    BY <1>2, <1>3, <2>4
<1>9. CASE Entered \/ Left
  <2>1. PICK X : X = Stale(task)
    OBVIOUS
  <2>2. X \in [Tasks -> Task] /\ \A t \in Tasks : X[t].doing = task[t].doing
    BY <2>1, StaleTypes DEF Inv, TaskOK
  <2>3. CASE Entered
    <3>1. PICK w : w = [NoTask EXCEPT !.doing = "me", !.token = access']
      OBVIOUS
    <3>2. task' = [X EXCEPT !["signin"] = w]
      BY <2>1, <2>3, <3>1 DEF Entered
    <3> QED
      BY <1>1, <2>2, <3>2 DEF OnlySignIn
  <2>4. CASE Left
    BY <1>1, <2>1, <2>2, <2>4, Constants DEF OnlySignIn, Left
  <2> QED
    BY <1>9, <2>3, <2>4
<1>10. ASSUME NEW w \in Work, Ask(w) \/ Erase(w)
       PROVE  OnlySignIn'
  <2>1. PICK doing \in {"work", "erase"} : task' = [task EXCEPT ![w] = FetchAsShown(doing)]
    BY <1>10 DEF Ask, Erase
  <2>2. FetchAsShown(doing).doing = doing
    BY DEF FetchAsShown, Fetch, NoTask
  <2>3. PICK x : x = FetchAsShown(doing)
    OBVIOUS
  <2> QED
    BY <1>2, <1>3, <2>1, <2>2, <2>3
<1>11. ASSUME NEW w \in Work, Delete(w)
       PROVE  OnlySignIn'
  <2>1. PICK x : x = [task[w] EXCEPT !.at = "acted", !.token = Nobody]
    OBVIOUS
  <2>2. task' = [task EXCEPT ![w] = x]
    BY <1>11, <2>1, Zenon DEF Delete
  <2>3. x.doing = task[w].doing
    BY <1>3, <2>1 DEF Inv, TaskOK, Task
  <2> QED
    BY <1>1, <1>2, <1>3, <2>2, <2>3
<1>12. ASSUME NEW w \in Work, Erased(w)
       PROVE  OnlySignIn'
  <2>1. PICK x : x = Departing(w)
    OBVIOUS
  <2>2. x.doing = "leave"
    BY <2>1 DEF Departing, NoTask
  <2>3. PICK X : X = [task EXCEPT ![w] = NoTask]
    OBVIOUS
  <2>4. task' = [X EXCEPT !["logout"] = x]
    BY <1>12, <2>1, <2>3, Zenon DEF Erased
  <2> QED
    BY <1>1, <1>3, <2>2, <2>3, <2>4, Constants DEF OnlySignIn, Inv, TaskOK
<1>13. CASE LogOut \/ Leave \/ LeaveThrows
  <2>1. task["logout"] \in Task
    BY <1>3 DEF Inv, TaskOK
  <2>2. PICK x : /\ task' = [task EXCEPT !["logout"] = x]
                 /\ x \in {NoTask, [NoTask EXCEPT !.doing = "leave", !.cookie = cookie],
                           [task["logout"] EXCEPT !.at = "acted", !.cookie = NoCookie]}
    BY <1>13, Zenon DEF LogOut, Leave, LeaveThrows
  <2>3. x.doing # "enter" \/ x.doing = task["logout"].doing
    <3>1. CASE x = NoTask
      BY <3>1, Constants
    <3>2. CASE x = [NoTask EXCEPT !.doing = "leave", !.cookie = cookie]
      BY <3>2 DEF NoTask
    <3>3. CASE x = [task["logout"] EXCEPT !.at = "acted", !.cookie = NoCookie]
      BY <2>1, <3>3 DEF Task
    <3> QED
      BY <2>2, <3>1, <3>2, <3>3
  <2> QED
    BY <1>1, <1>2, <1>3, <2>2, <2>3
<1>14. ASSUME NEW magic \in BOOLEAN, Load(magic)
       PROVE  OnlySignIn'
  BY <1>14, Constants DEF Load, Started, OnlySignIn, NoTask
<1> QED
  BY <1>3, <1>4, <1>5, <1>6, <1>7, <1>8, <1>9, <1>10, <1>11, <1>12, <1>13, <1>14
     DEF Next, vars, SignInStep, MeStep, Redirect, ToLogin, ToApp, BackToSignIn

-----------------------------------------------------------------------------
(* Every step keeps the cookies live until an answer is lost. *)

LEMMA RotateFresh ==
  ASSUME Inv, Fresh, NEW s \in Swaps, Rotate(s)
  PROVE  Fresh'
<1>1. PICK f : f = swap[s].sent.signin
  OBVIOUS
<1>2. f \in SignIns /\ f # 0
  BY <1>1 DEF Inv, SwapOK, Swap, Rotate, Cookie, NoCookie
<1>3. PICK c : c = [signin |-> f, token |-> nextToken]
  OBVIOUS
<1>4. c.signin = f /\ c.token = nextToken
  BY <1>3
<1>5. PICK w : w = [swap[s] EXCEPT !.at = "granted", !.sent = NoCookie, !.user = Minted(f),
                                   !.got = c]
  OBVIOUS
<1>6. w.at = "granted" /\ w.got = c
  BY <1>5 DEF Inv, SwapOK, Swap
<1>7. swap' = [swap EXCEPT ![s] = w] /\ swap[s].at = "sent"
  BY <1>1, <1>3, <1>5, Zenon DEF Rotate
<1>8. \A x \in Swaps : x # s => swap'[x].at = "idle"
  BY <1>7 DEF Inv, SwapOK, Pending
<1>9. swap'[s] = w
  BY <1>7 DEF Inv, SwapOK
<1>10. /\ session'[f].token = nextToken /\ session'[f].user = session[f].user
       /\ \A g \in SignIns : g # f => session'[g] = session[g]
  BY <1>1, <1>2 DEF Inv, ServerOK, Rotate
<1>11. UNCHANGED <<cookie, task, odd>>
  BY DEF Rotate
<1>12. CookieLive'
  <2>1. CASE cookie.signin = f
    <3>1. Arriving(cookie.signin)'
      BY <1>4, <1>6, <1>9, <1>11, <2>1 DEF Arriving
    <3> QED
      BY <3>1, <1>11 DEF CookieLive
  <2>2. CASE cookie.signin # f /\ cookie.signin # 0
    <3>1. cookie.signin \in SignIns
      BY <2>2, CookieType DEF Inv, ClientOK
    <3>2. ~ Arriving(cookie.signin)
      BY <1>7 DEF Inv, SwapOK, Pending, Arriving
    <3> QED
      BY <3>1, <3>2, <2>2, <1>10, <1>11 DEF Fresh, CookieLive
  <2> QED
    BY <2>1, <2>2, <1>11 DEF CookieLive
<1>13. SwapsLive'
  BY <1>4, <1>6, <1>8, <1>9, <1>10 DEF SwapsLive, Live
<1>14. AllBegun'
  <2>1. session[f].user # Nobody
    BY <1>1, <1>2, <1>7 DEF Fresh, AllBegun, Begun
  <2>2. Begun(cookie)'
    BY <2>1, <1>10, <1>11, CookieType DEF Fresh, AllBegun, Begun, Inv, ClientOK
  <2>3. Begun(c)'
    BY <2>1, <1>4, <1>10 DEF Begun
  <2>4. Entry' => Begun(task["signin"].cookie)'
    <3>1. SUFFICES ASSUME Entry PROVE Begun(task["signin"].cookie)'
      BY <1>11 DEF Entry
    <3>2. task["signin"].cookie \in Cookie
      BY <3>1 DEF Inv, TaskOK, Entry, Tasks
    <3> QED
      BY <3>1, <3>2, <2>1, <1>10, <1>11 DEF Fresh, AllBegun, Begun, Cookie
  <2> QED
    BY <2>2, <2>3, <2>4, <1>6, <1>8, <1>9 DEF AllBegun, Begun
<1>15. EntryLive'
  <2>1. SUFFICES ASSUME Entry PROVE EntryLive'
    BY <1>11 DEF Entry, EntryLive
  <2>2. PICK e : e = task["signin"].cookie
    OBVIOUS
  <2>3. e \in Cookie
    BY <2>1, <2>2 DEF Inv, TaskOK, Entry, Tasks
  <2>4. Live(e) /\ e.signin # cookie.signin /\ e.signin # f
    BY <2>1, <2>2, <1>1, <1>7 DEF Fresh, EntryLive
  <2>5. Live(e)'
    BY <2>3, <2>4, <1>10 DEF Live, Cookie
  <2>6. \A x \in Swaps :
          /\ swap'[x].at = "sent" => swap'[x].sent.signin # e.signin
          /\ swap'[x].at = "granted" => swap'[x].got.signin # e.signin
    BY <2>4, <1>4, <1>6, <1>8, <1>9
  <2> QED
    BY <2>2, <2>4, <2>5, <2>6, <1>11 DEF EntryLive, Live
<1> QED
  BY <1>11, <1>12, <1>13, <1>14, <1>15 DEF Fresh

\* A step that ends sessions, refreshes or the cookie, or none, and starts none.
LEMMA EndsFresh ==
  ASSUME Inv, Fresh, "reused" \notin odd', cookie' \in {cookie, NoCookie},
         Entry' => Entry /\ task'["signin"].cookie = task["signin"].cookie,
         \A f \in SignIns : /\ session'[f].user = session[f].user
                            /\ session'[f].token \in {0, session[f].token},
         \A s \in Swaps :
           /\ swap'[s].at = "sent" => swap[s].at = "sent" /\ swap'[s].sent = swap[s].sent
           /\ swap'[s].at = "granted" <=> swap[s].at = "granted"
           /\ swap'[s].at = "granted" => swap'[s].got = swap[s].got
  PROVE  Fresh'
<1>1. \A c \in SomeCookie : (Live(c) => Live(c)') /\ (Begun(c) => Begun(c)')
  BY CookieType DEF Live, Begun
<1>2. cookie \in SomeCookie
  BY DEF Inv, ClientOK
<1>3. \A s \in Swaps : swap[s].sent \in SomeCookie /\ swap[s].got \in SomeCookie
  BY DEF Inv, SwapOK, Swap, SomeCookie
<1>4. Entry => task["signin"].cookie \in Cookie
  BY DEF Inv, TaskOK, Entry, Tasks
<1>5. CookieLive'
  <2>1. CASE cookie' = NoCookie
    BY <2>1, Constants DEF CookieLive
  <2>2. CASE cookie' = cookie /\ cookie.signin # 0
    <3>1. Arriving(cookie.signin) => Arriving(cookie.signin)'
      BY <2>2 DEF Arriving
    <3> QED
      BY <3>1, <1>2, <2>2, CookieType DEF Fresh, CookieLive
  <2> QED
    BY <2>1, <2>2 DEF CookieLive
<1>6. SwapsLive'
  <2>1. SUFFICES ASSUME NEW s \in Swaps
                 PROVE  /\ swap'[s].at = "sent" => Live(swap[s].sent)'
                        /\ swap'[s].at = "granted" => Live(swap[s].got)'
    <3>1. SUFFICES ASSUME NEW s \in Swaps
                   PROVE  /\ swap'[s].at = "sent" => Live(swap[s].sent)'
                          /\ swap'[s].at = "granted" => Live(swap[s].got)'
      BY DEF SwapsLive, Live
    <3> QED
      BY <2>1
  <2>2. PICK a, b : a = swap[s].sent /\ b = swap[s].got
    OBVIOUS
  <2>3. (Live(a) => Live(a)') /\ (Live(b) => Live(b)')
    BY <1>1, <1>3, <2>2
  <2>4. /\ swap'[s].at = "sent" => Live(a)' /\ swap'[s].sent = a
        /\ swap'[s].at = "granted" => Live(b)' /\ swap'[s].got = b
    BY <2>2, <2>3 DEF Fresh, SwapsLive
  <2> QED
    BY <2>4 DEF Live
<1>7. AllBegun'
  <2>1. Begun(cookie)'
    BY <1>2, Constants, CookieType DEF Fresh, AllBegun, Begun
  <2>2. \A s \in Swaps : /\ swap'[s].at = "sent" => Begun(swap[s].sent)'
                         /\ swap'[s].at = "granted" => Begun(swap[s].got)'
    BY <1>3, CookieType DEF Fresh, AllBegun, Begun
  <2>3. Entry' => Begun(task["signin"].cookie)'
    BY <1>4 DEF Fresh, AllBegun, Begun, Cookie
  <2> QED
    BY <2>1, <2>2, <2>3 DEF AllBegun, Begun
<1>8. EntryLive'
  <2>1. SUFFICES ASSUME Entry, task'["signin"].cookie = task["signin"].cookie PROVE EntryLive'
    BY DEF EntryLive
  <2>2. PICK e : e = task["signin"].cookie
    OBVIOUS
  <2>3. e \in SomeCookie /\ e.signin # 0
    BY <1>4, <2>1, <2>2 DEF SomeCookie, Cookie, SignIns
  <2>4. Live(e)'
    BY <1>1, <2>1, <2>2, <2>3 DEF Fresh, EntryLive
  <2>5. /\ e.signin # cookie.signin
        /\ \A s \in Swaps :
             /\ swap[s].at = "sent" => swap[s].sent.signin # e.signin
             /\ swap[s].at = "granted" => swap[s].got.signin # e.signin
    BY <2>1, <2>2 DEF Fresh, EntryLive
  <2> QED
    BY <2>1, <2>2, <2>3, <2>4, <2>5, Constants DEF EntryLive, Live
<1> QED
  BY <1>5, <1>6, <1>7, <1>8 DEF Fresh

\* The api refuses a token that is not the live one only if the session is over.
LEMMA RefuseFresh ==
  ASSUME Inv, Fresh, NEW s \in Swaps, Refuse(s)
  PROVE  Fresh'
<1>1. PICK c : c = swap[s].sent
  OBVIOUS
<1>2. swap[s].at = "sent" /\ Live(c)
  BY <1>1 DEF Refuse, Fresh, SwapsLive
<1>3. "reused" \notin odd'
  <2>1. ~ (c.signin # 0 /\ session[c.signin].token \notin {0, c.token})
    BY <1>2 DEF Live
  <2>2. odd' = Noted(odd \cup {})
    BY <1>1, <2>1 DEF Refuse
  <2> QED
    BY <2>2, NotedKeeps DEF Fresh
<1>4. \A f \in SignIns : /\ session'[f].user = session[f].user
                         /\ session'[f].token \in {0, session[f].token}
  <2>1. PICK g : g = c.signin
    OBVIOUS
  <2>2. session' = session \/ session' = [session EXCEPT ![g].token = 0]
    BY <1>1, <2>1 DEF Refuse
  <2> QED
    BY <2>2 DEF Inv, ServerOK
<1>5. PICK w : w = [swap[s] EXCEPT !.at = "refused", !.sent = NoCookie]
  OBVIOUS
<1>6. w.at = "refused"
  BY <1>5 DEF Inv, SwapOK, Swap
<1>7. swap' = [swap EXCEPT ![s] = w]
  BY <1>5, Zenon DEF Refuse
<1>8. \A x \in Swaps :
        /\ swap'[x].at = "sent" => swap[x].at = "sent" /\ swap'[x].sent = swap[x].sent
        /\ swap'[x].at = "granted" <=> swap[x].at = "granted"
        /\ swap'[x].at = "granted" => swap'[x].got = swap[x].got
  BY <1>2, <1>6, <1>7 DEF Inv, SwapOK
<1>9. UNCHANGED <<cookie, task>>
  BY DEF Refuse
<1>10. Entry' => Entry /\ task'["signin"].cookie = task["signin"].cookie
  BY <1>9 DEF Entry
<1> QED
  BY <1>3, <1>4, <1>8, <1>9, <1>10, EndsFresh

\* The answer brings the successor.
LEMMA GrantedFresh ==
  ASSUME Inv, Fresh, NEW s \in Swaps, SwapGranted(s), "reused" \notin odd',
         Entry' => Entry /\ task'["signin"].cookie = task["signin"].cookie
  PROVE  Fresh'
<1>1. PICK c : c = swap[s].got
  OBVIOUS
<1>2. cookie' = c /\ session' = session /\ swap[s].at = "granted"
  BY <1>1 DEF SwapGranted, server
<1>3. \A x \in Swaps : swap'[x].at = "idle"
  <2>1. \A x \in Swaps : x # s => swap[x].at = "idle"
    BY <1>2 DEF Inv, SwapOK, Pending
  <2> QED
    BY <2>1, Constants DEF SwapGranted, Inv, SwapOK
<1>4. Live(c) /\ Begun(c)
  BY <1>1, <1>2 DEF Fresh, SwapsLive, AllBegun
<1>5. CookieLive' /\ Begun(cookie)'
  BY <1>2, <1>4 DEF CookieLive, Live, Begun
<1>6. Entry' => Live(task["signin"].cookie)' /\ Begun(task["signin"].cookie)'
  BY <1>2 DEF Fresh, EntryLive, AllBegun, Live, Begun
<1>7. Entry' => task'["signin"].cookie.signin # c.signin
  BY <1>1, <1>2 DEF Fresh, EntryLive
<1> QED
  BY <1>2, <1>3, <1>5, <1>6, <1>7 DEF Fresh, SwapsLive, EntryLive, AllBegun

\* A refresh starts when the cookie of the last one is there.
LEMMA DeniedFresh ==
  ASSUME Inv, Fresh, NEW t \in Tasks, Denied(t)
  PROVE  Fresh'
<1>1. UNCHANGED <<session, cookie, odd>>
  BY DEF Denied, server
<1>2. Entry' => Entry /\ task'["signin"].cookie = task["signin"].cookie
  <2>1. PICK n : n = SharedSwap
    OBVIOUS
  <2>2. PICK w : w = [task[t] EXCEPT !.at = "refresh", !.token = Nobody, !.swap = n]
    OBVIOUS
  <2>3. task' = [task EXCEPT ![t] = w]
    BY <2>1, <2>2, Zenon DEF Denied
  <2>4. w.at = "refresh"
    BY <2>2 DEF Inv, TaskOK, Task
  <2> QED
    BY <2>3, <2>4 DEF Entry, Inv, TaskOK
<1>3. CASE refreshing # 0
  <2>1. swap' = swap
    BY <1>3, RefreshShared DEF Denied, Inv
  <2> QED
    BY <1>1, <1>2, <2>1, EndsFresh DEF Fresh
<1>4. CASE refreshing = 0
  <2>1. PICK n : n = refreshing'
    OBVIOUS
  <2>2. PICK w : w = [IdleSwap EXCEPT !.at = "sent", !.sent = cookie]
    OBVIOUS
  <2>3. n \in Swaps /\ (\A s \in Swaps : swap[s].at = "idle") /\ swap' = [swap EXCEPT ![n] = w]
    BY <1>4, <2>1, <2>2, RefreshShared DEF Denied, Inv
  <2>4. w.at = "sent" /\ w.sent = cookie
    BY <2>2 DEF IdleSwap
  <2>5. swap'[n] = w /\ \A s \in Swaps : s # n => swap'[s].at = "idle"
    BY <2>3 DEF Inv, SwapOK
  <2>6. PICK c : c = cookie
    OBVIOUS
  <2>7. Live(c) /\ Begun(c)
    BY <2>3, <2>6 DEF Fresh, CookieLive, AllBegun, Arriving, Live
  <2>8. CookieLive' /\ Begun(cookie)'
    BY <1>1, <2>6, <2>7 DEF CookieLive, Live, Begun
  <2>9. SwapsLive' /\ \A s \in Swaps : /\ swap'[s].at = "sent" => Begun(swap[s].sent)'
                                       /\ swap'[s].at # "granted"
    BY <1>1, <2>4, <2>5, <2>6, <2>7 DEF SwapsLive, Live, Begun
  <2>10. EntryLive' /\ (Entry' => Begun(task["signin"].cookie)')
    BY <1>1, <1>2, <2>4, <2>5, <2>6 DEF Fresh, EntryLive, AllBegun, Live, Begun
  <2> QED
    BY <1>1, <2>8, <2>9, <2>10 DEF Fresh, AllBegun, Begun
<1> QED
  BY <1>3, <1>4

\* A new sign-in is nobody else's.
LEMMA EnterFresh ==
  ASSUME Inv, Fresh, NEW u \in Users, Enter(u)
  PROVE  Fresh'
<1>1. PICK f \in SignIns :
        /\ session[f].user = Nobody
        /\ session' = [session EXCEPT ![f] = [user |-> u, token |-> nextToken]]
        /\ task' = [task EXCEPT !["signin"].at = "acted",
                                !["signin"].cookie = [signin |-> f, token |-> nextToken]]
        /\ UNCHANGED <<cookie, swap, odd>>
  BY DEF Enter
<1>2. PICK e : e = [signin |-> f, token |-> nextToken]
  OBVIOUS
<1>3. e.signin = f /\ e.token = nextToken /\ f # 0
  BY <1>2 DEF SignIns
<1>4. task'["signin"].cookie = e
  BY <1>1, <1>2 DEF Inv, TaskOK, Task, Tasks
<1>5. /\ session'[f].user = u /\ session'[f].token = nextToken /\ u # Nobody
      /\ \A g \in SignIns : g # f => session'[g] = session[g]
  BY <1>1, WebSessionAssumption DEF Inv, ServerOK
<1>6. \A c \in SomeCookie : Begun(c) => c.signin # f
  BY <1>1, <1>3 DEF Begun
<1>7. \A c \in SomeCookie : Begun(c) => Begun(c)' /\ (Live(c) => Live(c)')
  BY <1>5, <1>6, CookieType DEF Begun, Live
<1>8. cookie \in SomeCookie /\ \A s \in Swaps : swap[s].sent \in SomeCookie /\ swap[s].got \in SomeCookie
  BY DEF Inv, ClientOK, SwapOK, Swap, SomeCookie
<1>9. Begun(cookie)' /\ cookie.signin # f
  BY <1>1, <1>6, <1>7, <1>8 DEF Fresh, AllBegun, Begun
<1>10. CookieLive'
  BY <1>1, <1>5, <1>8, <1>9, CookieType DEF Fresh, CookieLive, Arriving
<1>11. \A s \in Swaps :
         /\ swap[s].at = "sent" => /\ Live(swap[s].sent)' /\ Begun(swap[s].sent)'
                                   /\ swap[s].sent.signin # f
         /\ swap[s].at = "granted" => /\ Live(swap[s].got)' /\ Begun(swap[s].got)'
                                      /\ swap[s].got.signin # f
  <2>1. TAKE s \in Swaps
  <2>2. PICK a, b : a = swap[s].sent /\ b = swap[s].got
    OBVIOUS
  <2>3. /\ swap[s].at = "sent" => Live(a)' /\ Begun(a)' /\ a.signin # f
        /\ swap[s].at = "granted" => Live(b)' /\ Begun(b)' /\ b.signin # f
    BY <1>6, <1>7, <1>8, <2>2 DEF Fresh, SwapsLive, AllBegun
  <2> QED
    BY <1>1, <2>2, <2>3 DEF Live, Begun
<1>12. Live(e)' /\ Begun(e)'
  BY <1>3, <1>5 DEF Live, Begun
<1>13. EntryLive'
  BY <1>1, <1>3, <1>4, <1>9, <1>11, <1>12 DEF EntryLive, Live
<1>14. SwapsLive' /\ AllBegun'
  BY <1>1, <1>4, <1>9, <1>11, <1>12 DEF SwapsLive, AllBegun, Live, Begun
<1> QED
  BY <1>1, <1>10, <1>13, <1>14 DEF Fresh

\* The sign-in's cookie replaces whatever the browser had.
LEMMA EnteredFresh ==
  ASSUME Inv, Fresh, Entered, "reused" \notin odd'
  PROVE  Fresh'
<1>1. PICK e : e = task["signin"].cookie
  OBVIOUS
<1>2. Entry /\ cookie' = e /\ session' = session
  BY <1>1 DEF Entered, Entry, server
<1>3. /\ Live(e) /\ Begun(e)
      /\ \A s \in Swaps : /\ swap[s].at = "sent" => swap[s].sent.signin # e.signin
                          /\ swap[s].at = "granted" => swap[s].got.signin # e.signin
  BY <1>1, <1>2 DEF Fresh, EntryLive, AllBegun
<1>4. \A s \in Swaps : /\ swap'[s].at = swap[s].at /\ swap'[s].sent = swap[s].sent
                       /\ swap'[s].got = swap[s].got
  <2>1. PICK X : X = StaleSwaps
    OBVIOUS
  <2>2. swap' = X
    BY <2>1 DEF Entered
  <2> QED
    BY <2>1, <2>2, StaleSwapsTypes DEF Inv
<1>5. ~ Entry'
  <2>1. PICK X : X = Stale(task)
    OBVIOUS
  <2>2. X \in [Tasks -> Task]
    BY <2>1, StaleTypes DEF Inv, TaskOK
  <2>3. PICK w : w = [NoTask EXCEPT !.doing = "me", !.token = access']
    OBVIOUS
  <2>4. task' = [X EXCEPT !["signin"] = w]
    BY <2>1, <2>3 DEF Entered
  <2>5. w.doing = "me"
    BY <2>3 DEF NoTask
  <2> QED
    BY <2>2, <2>4, <2>5 DEF Entry, Tasks
<1>6. CookieLive' /\ Begun(cookie)'
  BY <1>2, <1>3 DEF CookieLive, Live, Begun
<1>7. SwapsLive' /\ AllBegun'
  BY <1>2, <1>4, <1>5, <1>6 DEF Fresh, SwapsLive, AllBegun, Live, Begun
<1> QED
  BY <1>5, <1>6, <1>7 DEF Fresh, EntryLive

\* A load goes on with the cookie that there is, or an answer was lost.
LEMMA LoadFresh ==
  ASSUME Inv, Fresh, NEW magic \in BOOLEAN, Load(magic), "lost" \notin odd', "reused" \notin odd'
  PROVE  Fresh'
<1>1. PICK c \in Cookies :
        /\ cookie' = c /\ swap' = Booting(c) /\ task' = Started(magic) /\ session' = session
        /\ odd' = Noted((odd \cap {"lost", "reused"}) \cup IF Cookies = {c} THEN {} ELSE {"lost"})
  BY DEF Load, server
<1>2. Cookies = {c}
  BY <1>1, NotedKeeps
<1>3. c = cookie
  BY <1>2 DEF Cookies
<1>4. \A s \in Swaps : swap[s].at = "granted" => swap[s].got = c
  BY <1>2 DEF Cookies
<1>5. Live(c) /\ Begun(c)
  <2>1. Begun(c)
    BY <1>3 DEF Fresh, AllBegun
  <2>2. CASE \E s \in Swaps : swap[s].at = "granted"
    BY <1>4, <2>1, <2>2 DEF Fresh, SwapsLive, Live
  <2>3. CASE ~ \E s \in Swaps : swap[s].at = "granted"
    BY <1>3, <2>1, <2>3 DEF Fresh, CookieLive, Arriving, Live
  <2> QED
    BY <2>1, <2>2, <2>3
<1>6. c \in SomeCookie
  BY CookiesType
<1>7. \A s \in Swaps : swap'[s].at # "granted" /\ (swap'[s].at = "sent" => swap'[s].sent = c)
  BY <1>1, <1>6, LoadedOK
<1>8. ~ Entry'
  BY <1>1, <1>6, LoadedOK DEF Entry, Tasks
<1>9. CookieLive' /\ Begun(cookie)'
  BY <1>1, <1>5 DEF CookieLive, Live, Begun
<1>10. SwapsLive' /\ AllBegun'
  BY <1>1, <1>5, <1>7, <1>8, <1>9 DEF SwapsLive, AllBegun, Live, Begun
<1> QED
  BY <1>8, <1>9, <1>10 DEF Fresh, EntryLive

\* A new page has what the browser comes with.
LEMMA InitFresh == Init => FreshInv
<1> SUFFICES ASSUME Init PROVE FreshInv
  OBVIOUS
<1>1. PICK u \in Known \cup {Nobody}, live \in BOOLEAN, magic \in BOOLEAN :
        LET c == IF u = Nobody THEN NoCookie ELSE [signin |-> 1, token |-> 1]
        IN  /\ session = [f \in SignIns |->
                 IF f = 1 THEN [user |-> u, token |-> IF live /\ u # Nobody THEN 1 ELSE 0]
                          ELSE [user |-> Nobody, token |-> 0]]
            /\ cookie = c /\ swap = Booting(c) /\ task = Started(magic) /\ odd = {}
  BY DEF Init
<1>2. PICK c : c = IF u = Nobody THEN NoCookie ELSE [signin |-> 1, token |-> 1]
  OBVIOUS
<1>3. c \in SomeCookie
  BY <1>2, WebSessionAssumption DEF SomeCookie, Cookie, SignIns
<1>4. cookie = c /\ swap = Booting(c) /\ task = Started(magic) /\ odd = {}
  BY <1>1, <1>2
<1>5. Live(c) /\ Begun(c)
  <2>1. CASE u = Nobody
    BY <1>2, <2>1 DEF Live, Begun, NoCookie
  <2>2. CASE u # Nobody
    <3>1. c.signin = 1 /\ c.token = 1
      BY <1>2, <2>2
    <3>2. session[1].user = u /\ session[1].token \in {0, 1}
      BY <1>1, WebSessionAssumption DEF SignIns
    <3> QED
      BY <2>2, <3>1, <3>2 DEF Live, Begun
  <2> QED
    BY <2>1, <2>2
<1>6. \A s \in Swaps : swap[s].at # "granted" /\ (swap[s].at = "sent" => swap[s].sent = c)
  BY <1>3, <1>4, LoadedOK
<1>7. ~ Entry
  BY <1>3, <1>4, LoadedOK DEF Entry, Tasks
<1>8. OnlySignIn
  BY <1>4, Constants DEF OnlySignIn, Started, NoTask
<1> QED
  BY <1>4, <1>5, <1>6, <1>7, <1>8
     DEF FreshInv, Fresh, CookieLive, SwapsLive, EntryLive, AllBegun, Live

\* Only a sign-in's step makes its answer.
LEMMA EntryKept ==
  ASSUME Inv, [Next]_vars, ~ \E u \in Users : Enter(u)
  PROVE  Entry' => Entry /\ task'["signin"].cookie = task["signin"].cookie
<1>1. "boot" \in Tasks /\ "signin" \in Tasks /\ "logout" \in Tasks /\ Work \subseteq Tasks
  BY DEF Tasks
<1>2. task["signin"] \in Task
  BY <1>1 DEF Inv, TaskOK
<1>3. ASSUME NEW t \in Tasks, NEW w, task' = [task EXCEPT ![t] = w],
             t = "signin" => w.doing # "enter" \/ w.at # "acted"
      PROVE  Entry' => Entry /\ task'["signin"].cookie = task["signin"].cookie
  BY <1>1, <1>3 DEF Entry, Inv, TaskOK
<1>4. "signin" \notin Work
  BY WebSessionAssumption
<1>5. CASE UNCHANGED task
  BY <1>5 DEF Entry
<1>6. ASSUME NEW s \in Swaps, SwapStep(s)
      PROVE  Entry' => Entry /\ task'["signin"].cookie = task["signin"].cookie
  <2>1. CASE SwapGranted(s)
    <3>1. CASE task["signin"].at # "refresh" \/ task["signin"].swap # s
      BY <1>1, <2>1, <3>1 DEF SwapGranted, Resumed, Entry
    <3>2. CASE ~ (task["signin"].at # "refresh" \/ task["signin"].swap # s)
      <4>1. PICK u : u = swap[s].user
        OBVIOUS
      <4>2. PICK x : x = IF task["signin"].doing = "enter" THEN Nobody ELSE u
        OBVIOUS
      <4>3. \/ task'["signin"] = [NoTask EXCEPT !.doing = "me", !.token = u,
                                                !.stale = task["signin"].stale]
            \/ task'["signin"] = [task["signin"] EXCEPT !.at = "again", !.swap = 0, !.token = x]
        BY <1>1, <2>1, <3>2, <4>1, <4>2 DEF SwapGranted, Resumed
      <4> QED
        BY <1>2, <4>3 DEF Entry, NoTask, Task
    <3> QED
      BY <3>1, <3>2
  <2>2. CASE SwapRefused(s) \/ SwapThrows(s)
    <3>1. PICK G : G = GivenUp(s)
      OBVIOUS
    <3>2. G \in [Tasks -> Task] /\ \A t \in Tasks : G[t] \in {NoTask, task[t]}
      <4>1. Pending(s)
        BY <2>2 DEF SwapRefused, SwapThrows, Pending
      <4> QED
        BY <3>1, <4>1, NoWaiters DEF Inv
    <3>3. /\ task'["signin"].doing = G["signin"].doing /\ task'["signin"].at = G["signin"].at
          /\ task'["signin"].cookie = G["signin"].cookie
      <4>1. task' = G \/ task' = Stale(G)
        BY <2>2, <3>1 DEF SwapRefused, SwapThrows
      <4> QED
        BY <1>1, <3>2, <4>1, StaleTypes
    <3> QED
      BY <1>1, <3>2, <3>3, Constants DEF Entry
  <2> QED
    BY <1>5, <1>6, <2>1, <2>2 DEF SwapStep, Rotate, Refuse
<1>7. ASSUME NEW t \in Tasks, MeStep(t) \/ Done(t)
      PROVE  Entry' => Entry /\ task'["signin"].cookie = task["signin"].cookie
  <2>1. CASE Denied(t)
    <3>1. PICK n : n = SharedSwap
      OBVIOUS
    <3>2. PICK w : w = [task[t] EXCEPT !.at = "refresh", !.token = Nobody, !.swap = n]
      OBVIOUS
    <3>3. task' = [task EXCEPT ![t] = w]
      BY <2>1, <3>1, <3>2, Zenon DEF Denied
    <3>4. w.at = "refresh"
      BY <3>2 DEF Inv, TaskOK, Task
    <3> QED
      BY <1>3, <3>3, <3>4
  <2>2. CASE Me(t) \/ Throws(t) \/ Done(t)
    <3>1. task' = [task EXCEPT ![t] = NoTask]
      BY <2>2 DEF Me, Throws, Done
    <3> QED
      BY <1>3, <3>1, Constants
  <2> QED
    BY <1>7, <2>1, <2>2 DEF MeStep
<1>8. CASE SignIn
  BY <1>1, <1>3, <1>8, Constants DEF SignIn
<1>9. CASE Entered \/ Left
  <2>1. PICK X : X = Stale(task)
    OBVIOUS
  <2>2. /\ X \in [Tasks -> Task] /\ X["signin"].doing = task["signin"].doing
        /\ X["signin"].at = task["signin"].at /\ X["signin"].cookie = task["signin"].cookie
    BY <1>1, <2>1, StaleTypes DEF Inv, TaskOK
  <2>3. CASE Entered
    <3>1. PICK w : w = [NoTask EXCEPT !.doing = "me", !.token = access']
      OBVIOUS
    <3>2. task' = [X EXCEPT !["signin"] = w]
      BY <2>1, <2>3, <3>1 DEF Entered
    <3>3. w.doing = "me"
      BY <3>1 DEF NoTask
    <3> QED
      BY <1>1, <2>2, <3>2, <3>3 DEF Entry
  <2>4. CASE Left
    BY <1>1, <2>1, <2>2, <2>4 DEF Entry, Left
  <2> QED
    BY <1>9, <2>3, <2>4
<1>10. ASSUME NEW w \in Work, Ask(w) \/ Erase(w) \/ Delete(w)
       PROVE  Entry' => Entry /\ task'["signin"].cookie = task["signin"].cookie
  <2>1. w # "signin" /\ w \in Tasks
    BY <1>1, <1>4
  <2>2. CASE Ask(w) \/ Erase(w)
    <3>1. PICK doing \in {"work", "erase"} : task' = [task EXCEPT ![w] = FetchAsShown(doing)]
      BY <2>2 DEF Ask, Erase
    <3>2. PICK x : x = FetchAsShown(doing)
      OBVIOUS
    <3> QED
      BY <1>3, <2>1, <3>1, <3>2
  <2>3. CASE Delete(w)
    <3>1. PICK x : x = [task[w] EXCEPT !.at = "acted", !.token = Nobody]
      OBVIOUS
    <3>2. task' = [task EXCEPT ![w] = x]
      BY <2>3, <3>1, Zenon DEF Delete
    <3> QED
      BY <1>3, <2>1, <3>2
  <2> QED
    BY <1>10, <2>2, <2>3
<1>11. ASSUME NEW w \in Work, Erased(w)
       PROVE  Entry' => Entry /\ task'["signin"].cookie = task["signin"].cookie
  <2>1. PICK x : x = Departing(w)
    OBVIOUS
  <2>2. PICK X : X = [task EXCEPT ![w] = NoTask]
    OBVIOUS
  <2>3. task' = [X EXCEPT !["logout"] = x]
    BY <1>11, <2>1, <2>2, Zenon DEF Erased
  <2>4. X["signin"] = task["signin"]
    BY <1>1, <1>4, <2>2 DEF Inv, TaskOK
  <2>5. task'["signin"] = task["signin"]
    BY <1>1, <2>2, <2>3, <2>4 DEF Inv, TaskOK
  <2> QED
    BY <2>5 DEF Entry
<1>12. CASE LogOut \/ Leave \/ LeaveThrows
  <2>1. PICK x : task' = [task EXCEPT !["logout"] = x]
    <3>1. CASE Leave
      <4>1. PICK x : x = [task["logout"] EXCEPT !.at = "acted", !.cookie = NoCookie]
        OBVIOUS
      <4> QED
        BY <3>1, <4>1, Zenon DEF Leave
    <3>2. CASE LogOut \/ LeaveThrows
      BY <3>2, Zenon DEF LogOut, LeaveThrows
    <3> QED
      BY <1>12, <3>1, <3>2
  <2> QED
    BY <1>1, <1>3, <2>1
<1>13. ASSUME NEW magic \in BOOLEAN, Load(magic)
       PROVE  ~ Entry'
  <2>1. PICK c \in Cookies : task' = Started(magic)
    BY <1>13 DEF Load
  <2>2. c \in SomeCookie
    BY CookiesType
  <2> QED
    BY <1>1, <2>1, <2>2, LoadedOK DEF Entry
<1> QED
  BY <1>1, <1>5, <1>6, <1>7, <1>8, <1>9, <1>10, <1>11, <1>12, <1>13
     DEF Next, vars, SignInStep, MeStep, Redirect, ToLogin, ToApp, BackToSignIn

LEMMA StepFresh ==
  ASSUME Inv, FreshInv, [Next]_vars
  PROVE  FreshInv'
<1>1. OnlySignIn'
  BY OnlySignInStep DEF FreshInv
<1>2. SUFFICES ASSUME "lost" \notin odd' PROVE Fresh'
  BY <1>1 DEF FreshInv
<1>3. Fresh
  BY <1>2, OddKept DEF FreshInv
<1>4. ASSUME NEW s \in Swaps, Refuse(s)
      PROVE  Fresh'
  BY <1>3, <1>4, RefuseFresh
<1>5. ASSUME NEW u \in Users, Enter(u)
      PROVE  Fresh'
  BY <1>3, <1>5, EnterFresh
<1>6. ASSUME NEW s \in Swaps, Rotate(s)
      PROVE  Fresh'
  BY <1>3, <1>6, RotateFresh
<1>7. ASSUME NEW t \in Tasks, Denied(t)
      PROVE  Fresh'
  BY <1>3, <1>7, DeniedFresh
<1>8. SUFFICES ASSUME ~ \E s \in Swaps : Refuse(s), ~ \E u \in Users : Enter(u) PROVE Fresh'
  BY <1>4, <1>5
<1>9. "reused" \notin odd'
  BY <1>3, <1>8, OddKept DEF Fresh
<1>10. Entry' => Entry /\ task'["signin"].cookie = task["signin"].cookie
  BY <1>8, EntryKept
<1>11. ASSUME NEW s \in Swaps, SwapGranted(s)
       PROVE  Fresh'
  BY <1>3, <1>9, <1>10, <1>11, GrantedFresh
<1>12. CASE Entered
  BY <1>3, <1>9, <1>12, EnteredFresh
<1>13. ASSUME NEW magic \in BOOLEAN, Load(magic)
       PROVE  Fresh'
  BY <1>2, <1>3, <1>9, <1>13, LoadFresh
\* The others start no session and no refresh.
<1>14. ASSUME cookie' \in {cookie, NoCookie},
              \A f \in SignIns : /\ session'[f].user = session[f].user
                                 /\ session'[f].token \in {0, session[f].token},
              \A s \in Swaps : /\ swap'[s].at = swap[s].at /\ swap'[s].sent = swap[s].sent
                               /\ swap'[s].got = swap[s].got
       PROVE  Fresh'
  BY <1>3, <1>9, <1>10, <1>14, EndsFresh
<1>15. ASSUME NEW s \in Swaps, SwapRefused(s) \/ SwapThrows(s)
       PROVE  Fresh'
  <2>1. UNCHANGED <<cookie, session>> /\ swap[s].at # "granted"
    <3>1. CASE SwapRefused(s)
      BY <3>1 DEF SwapRefused, server
    <3>2. CASE SwapThrows(s)
      <4>1. PICK o : o = odd \cup (IF swap[s].at = "granted" THEN {"lost"} ELSE {})
                       \cup (IF BootWaits(s) /\ task["boot"].stale THEN {"crossed"} ELSE {})
        OBVIOUS
      <4>2. odd' = Noted(o)
        BY <3>2, <4>1 DEF SwapThrows
      <4> QED
        BY <1>2, <3>2, <4>1, <4>2, NotedKeeps DEF SwapThrows, server
    <3> QED
      BY <1>15, <3>1, <3>2
  <2>2. PICK X : /\ X \in [Swaps -> Swap] /\ swap' = [X EXCEPT ![s] = IdleSwap]
                 /\ \A x \in Swaps : /\ X[x].at = swap[x].at /\ X[x].sent = swap[x].sent
                                     /\ X[x].got = swap[x].got
    <3>1. CASE SwapRefused(s)
      <4>1. PICK X : X = StaleSwaps
        OBVIOUS
      <4>2. swap' = [X EXCEPT ![s] = IdleSwap]
        BY <3>1, <4>1 DEF SwapRefused
      <4> QED
        BY <4>1, <4>2, StaleSwapsTypes DEF Inv
    <3>2. CASE SwapThrows(s)
      BY <3>2 DEF SwapThrows, Inv, SwapOK
    <3> QED
      BY <1>15, <3>1, <3>2
  <2>3. \A x \in Swaps :
          /\ swap'[x].at = "sent" => swap[x].at = "sent" /\ swap'[x].sent = swap[x].sent
          /\ swap'[x].at = "granted" <=> swap[x].at = "granted"
          /\ swap'[x].at = "granted" => swap'[x].got = swap[x].got
    BY <2>1, <2>2, Constants
  <2>4. \A f \in SignIns : /\ session'[f].user = session[f].user
                           /\ session'[f].token \in {0, session[f].token}
    BY <2>1
  <2> QED
    BY <1>3, <1>9, <1>10, <2>1, <2>3, <2>4, EndsFresh
<1>16. CASE Left
  <2>1. PICK X : X = StaleSwaps
    OBVIOUS
  <2>2. swap' = X
    BY <1>16, <2>1 DEF Left
  <2> QED
    BY <1>14, <1>16, <2>1, <2>2, StaleSwapsTypes DEF Left, server, Inv
<1>17. CASE Leave
  <2>1. PICK f : f = task["logout"].cookie.signin
    OBVIOUS
  <2>2. session' = session \/ session' = [session EXCEPT ![f].token = 0]
    BY <1>17, <2>1 DEF Leave
  <2>3. \A g \in SignIns : /\ session'[g].user = session[g].user
                           /\ session'[g].token \in {0, session[g].token}
    BY <2>2 DEF Inv, ServerOK
  <2> QED
    BY <1>14, <1>17, <2>3 DEF Leave
<1>18. ASSUME NEW w \in Work, Delete(w)
       PROVE  Fresh'
  <2>1. \A g \in SignIns : /\ session'[g].user = session[g].user
                           /\ session'[g].token \in {0, session[g].token}
    BY <1>18 DEF Delete, Inv, ServerOK
  <2> QED
    BY <1>14, <1>18, <2>1 DEF Delete
<1>19. CASE UNCHANGED <<session, swap>> /\ cookie' \in {cookie, NoCookie}
  BY <1>14, <1>19
<1>20. "boot" \in Tasks /\ "signin" \in Tasks /\ Work \subseteq Tasks
  BY DEF Tasks
<1>21. CASE UNCHANGED vars
  BY <1>19, <1>21 DEF vars
<1>22. ASSUME NEW s \in Swaps, SwapStep(s)
       PROVE  Fresh'
  BY <1>6, <1>8, <1>11, <1>15, <1>22 DEF SwapStep
<1>23. ASSUME NEW t \in Tasks, MeStep(t)
       PROVE  Fresh'
  BY <1>7, <1>19, <1>23 DEF MeStep, Me, Throws, server
<1>24. ASSUME NEW w \in Work,
              \/ Ask(w) \/ Done(w) \/ Denied(w) \/ Throws(w)
              \/ Erase(w) \/ Delete(w) \/ Erased(w)
       PROVE  Fresh'
  <2>1. CASE Erased(w)
    BY <1>19, <2>1 DEF Erased, server
  <2> QED
    BY <1>7, <1>18, <1>19, <1>20, <1>24, <2>1 DEF Ask, Done, Throws, Erase, server
<1>25. CASE SignIn \/ Redirect \/ BackToSignIn \/ LogOut \/ LeaveThrows
  BY <1>19, <1>25 DEF SignIn, Redirect, ToLogin, ToApp, BackToSignIn, LogOut, LeaveThrows, server
<1> QED
  BY <1>8, <1>12, <1>13, <1>16, <1>17, <1>20, <1>21, <1>22, <1>23, <1>24, <1>25
     DEF Next, SignInStep

(***************************************************************************)
(* doRefresh never sends the api a token that was rotated before, however  *)
(* many requests get a 401 together, unless an answer was lost: the api    *)
(* takes no session of a single tab for a stolen one.                      *)
(***************************************************************************)
THEOREM SpentOnce == Spec => []NoOwnReuse
<1>1. Init => Inv /\ FreshInv
  BY InitInv, InitFresh
<1>2. Inv /\ FreshInv /\ [Next]_vars => (Inv /\ FreshInv)'
  BY StepInv, StepFresh
<1>3. Spec => [](Inv /\ FreshInv)
  BY <1>1, <1>2, PTL DEF Spec
<1> QED
  BY <1>3, FreshIsOwn, PTL

-----------------------------------------------------------------------------
(* What each step does to each task, without the records.                  *)

Others(t) == \A x \in Tasks : x # t => task'[x] = task[x]

\* y is x, but that it is stale when the account changes.
Marked(x, y) ==
  /\ y.doing = x.doing /\ y.at = x.at /\ y.token = x.token /\ y.as = x.as
  /\ x.stale => y.stale
  /\ x.doing \in {"erase", "leave"} => y.stale
  /\ x.doing # "nothing" /\ "crossed" \notin odd => y.stale

\* y is x, but for where it waits and its token.
Moved(x, y) == y.doing = x.doing /\ y.as = x.as /\ y.stale = x.stale

LEMMA SomeTasks ==
  /\ "boot" \in Tasks /\ "signin" \in Tasks /\ "logout" \in Tasks /\ Work \subseteq Tasks
  /\ "boot" \notin Work /\ "signin" \notin Work /\ "logout" \notin Work
BY WebSessionAssumption DEF Tasks

LEMMA NoTaskIs ==
  /\ NoTask.doing = "nothing" /\ NoTask.at = "sent" /\ NoTask.token = Nobody
  /\ NoTask.as = Nobody /\ NoTask.stale = FALSE
  /\ Entering.doing = "enter" /\ Entering.at = "sent" /\ Entering.token = Nobody
  /\ Entering.as = Nobody /\ Entering.stale = FALSE
BY DEF NoTask, Entering

LEMMA PutTask ==
  ASSUME Inv, NEW t \in Tasks, NEW w, task' = [task EXCEPT ![t] = w]
  PROVE  task'[t] = w /\ Others(t)
BY DEF Inv, TaskOK, Others

LEMMA MarkedByStale ==
  ASSUME NEW tasks \in [Tasks -> Task], NEW t \in Tasks
  PROVE  Marked(tasks[t], Stale(tasks)[t])
<1>1. PICK b : b = (\/ tasks[t].stale \/ tasks[t].doing \in {"erase", "leave"}
                    \/ tasks[t].doing # "nothing" /\ "crossed" \notin odd)
  OBVIOUS
<1>2. Stale(tasks)[t] = [tasks[t] EXCEPT !.stale = b]
  BY <1>1 DEF Stale
<1>3. Stale(tasks)[t].stale = b
  BY <1>2 DEF Task
<1> QED
  BY <1>1, <1>3, StaleTypes DEF Marked

LEMMA EndsTask ==
  ASSUME Inv, NEW t \in Tasks, Me(t) \/ Throws(t) \/ Done(t)
  PROVE  task'[t] = NoTask /\ Others(t)
BY PutTask DEF Me, Throws, Done

LEMMA DeniedTask ==
  ASSUME Inv, NEW t \in Tasks, Denied(t)
  PROVE  /\ Moved(task[t], task'[t]) /\ Others(t)
         /\ task'[t].at = "refresh" /\ task'[t].token = Nobody
<1>1. PICK n : n = SharedSwap
  OBVIOUS
<1>2. PICK w : w = [task[t] EXCEPT !.at = "refresh", !.token = Nobody, !.swap = n]
  OBVIOUS
<1>3. task' = [task EXCEPT ![t] = w]
  BY <1>1, <1>2, Zenon DEF Denied
<1>4. w.at = "refresh" /\ w.token = Nobody /\ Moved(task[t], w)
  BY <1>2 DEF Inv, TaskOK, Task, Moved
<1> QED
  BY <1>3, <1>4, PutTask

LEMMA GrantedTasks ==
  ASSUME Inv, NEW s \in Swaps, SwapGranted(s), NEW t \in Tasks
  PROVE  /\ task[t].at # "refresh" => task'[t] = task[t]
         /\ task[t].at = "refresh" =>
              /\ task'[t].token \in {swap[s].user, Nobody} /\ task'[t].stale = task[t].stale
              /\ task[t].doing = "boot" => task'[t].doing = "me" /\ task'[t].as = Nobody
              /\ task[t].doing # "boot" => Moved(task[t], task'[t])
              /\ task'[t].at \in {"sent", "again"}
<1>1. CASE task[t].at # "refresh"
  BY <1>1 DEF SwapGranted, Resumed
<1>2. CASE task[t].at = "refresh"
  <2>1. task[t].swap = s
    BY <1>2 DEF Inv, SwapOK, WaitOK, SwapGranted, Pending
  <2>2. PICK u : u = swap[s].user
    OBVIOUS
  <2>3. CASE task[t].doing = "boot"
    <3>1. task'[t] = [NoTask EXCEPT !.doing = "me", !.token = u, !.stale = task[t].stale]
      BY <1>2, <2>1, <2>2, <2>3 DEF SwapGranted, Resumed
    <3> QED
      BY <1>2, <2>2, <2>3, <3>1 DEF NoTask
  <2>4. CASE task[t].doing # "boot"
    <3>1. PICK x : x = IF task[t].doing = "enter" THEN Nobody ELSE u
      OBVIOUS
    <3>2. task'[t] = [task[t] EXCEPT !.at = "again", !.swap = 0, !.token = x]
      BY <1>2, <2>1, <2>2, <2>4, <3>1 DEF SwapGranted, Resumed
    <3>3. task[t] \in Task
      BY DEF Inv, TaskOK
    <3> QED
      BY <1>2, <2>2, <2>4, <3>1, <3>2, <3>3 DEF Task, Moved
  <2> QED
    BY <2>3, <2>4
<1> QED
  BY <1>1, <1>2

\* Who waits for a refresh without a token gives up.
Remains(t) == IF task[t].at = "refresh" THEN NoTask ELSE task[t]

LEMMA GivenUpIs ==
  ASSUME Inv, NEW s \in Swaps, Pending(s)
  PROVE  /\ GivenUp(s) = [t \in Tasks |-> Remains(t)]
         /\ Waiters(s) = {t \in Tasks : task[t].at = "refresh"}
         /\ GivenUp(s) \in [Tasks -> Task]
<1>1. \A t \in Tasks : task[t].at = "refresh" => task[t].swap = s
  BY DEF Inv, SwapOK, WaitOK
<1>2. Waiters(s) = {t \in Tasks : task[t].at = "refresh"}
  BY <1>1 DEF Waiters
<1> QED
  BY <1>2, NoWaiters DEF GivenUp, Remains, Inv

LEMMA RefusedTasks ==
  ASSUME Inv, NEW s \in Swaps, SwapRefused(s), NEW t \in Tasks
  PROVE  Marked(Remains(t), task'[t])
<1>1. Pending(s)
  BY DEF SwapRefused, Pending
<1>2. PICK G : G = GivenUp(s)
  OBVIOUS
<1>3. G \in [Tasks -> Task] /\ G[t] = Remains(t)
  BY <1>1, <1>2, GivenUpIs
<1>4. task' = Stale(G)
  BY <1>2 DEF SwapRefused
<1>5. Marked(G[t], Stale(G)[t])
  BY <1>3, MarkedByStale
<1> QED
  BY <1>3, <1>4, <1>5

LEMMA SwapThrowsTasks ==
  ASSUME Inv, NEW s \in Swaps, SwapThrows(s), NEW t \in Tasks
  PROVE  task'[t] = Remains(t)
BY GivenUpIs DEF SwapThrows

LEMMA SignInTask ==
  ASSUME Inv, SignIn
  PROVE  task["signin"].doing = "nothing" /\ task'["signin"] = Entering /\ Others("signin")
BY PutTask, SomeTasks DEF SignIn, MayStart, Idle

LEMMA EnterTask ==
  ASSUME Inv, NEW u \in Users, Enter(u)
  PROVE  /\ Moved(task["signin"], task'["signin"]) /\ Others("signin")
         /\ task'["signin"].token = task["signin"].token
         /\ task["signin"].doing = "enter" /\ task'["signin"].at = "acted"
<1>1. PICK f \in SignIns :
        /\ task["signin"].doing = "enter"
        /\ task' = [task EXCEPT !["signin"].at = "acted",
                                !["signin"].cookie = [signin |-> f, token |-> nextToken]]
  BY DEF Enter
<1>2. PICK c : c = [signin |-> f, token |-> nextToken]
  OBVIOUS
<1>3. PICK w : w = [task["signin"] EXCEPT !.at = "acted", !.cookie = c]
  OBVIOUS
<1>4. task' = [task EXCEPT !["signin"] = w]
  BY <1>1, <1>2, <1>3, Zenon
<1>5. task["signin"] \in Task
  BY SomeTasks DEF Inv, TaskOK
<1>6. w.at = "acted" /\ w.token = task["signin"].token /\ Moved(task["signin"], w)
  BY <1>3, <1>5 DEF Moved, Task
<1> QED
  BY <1>1, <1>4, <1>6, PutTask, SomeTasks, ZenonT(40)

LEMMA EnteredTasks ==
  ASSUME Inv, Entered
  PROVE  /\ task["signin"].doing = "enter"
         /\ task'["signin"].doing = "me" /\ task'["signin"].token = access'
         /\ task'["signin"].as = Nobody /\ task'["signin"].stale = FALSE
         /\ \A t \in Tasks : t # "signin" => Marked(task[t], task'[t])
<1>1. PICK w : w = [NoTask EXCEPT !.doing = "me", !.token = access']
  OBVIOUS
<1>2. w.doing = "me" /\ w.token = access' /\ w.as = Nobody /\ w.stale = FALSE
  BY <1>1 DEF NoTask
<1>3. PICK X : X = Stale(task)
  OBVIOUS
<1>4. X \in [Tasks -> Task] /\ \A t \in Tasks : Marked(task[t], X[t])
  BY <1>3, StaleTypes, MarkedByStale DEF Inv, TaskOK
<1>5. task' = [X EXCEPT !["signin"] = w]
  BY <1>1, <1>3 DEF Entered
<1>6. task'["signin"] = w /\ \A t \in Tasks : t # "signin" => task'[t] = X[t]
  BY <1>4, <1>5, SomeTasks
<1> QED
  BY <1>2, <1>4, <1>6 DEF Entered

LEMMA AskTask ==
  ASSUME Inv, NEW w \in Work, NEW doing \in {"work", "erase"},
         task' = [task EXCEPT ![w] = FetchAsShown(doing)]
  PROVE  /\ task'[w].doing = doing /\ task'[w].token = access /\ task'[w].as = user
         /\ task'[w].stale = ("half in" \in odd) /\ Others(w)
<1>1. PICK h : h = ("half in" \in odd)
  OBVIOUS
<1>2. PICK g : g = [NoTask EXCEPT !.doing = doing, !.token = access, !.as = user]
  OBVIOUS
<1>3. PICK x : x = [g EXCEPT !.stale = h]
  OBVIOUS
<1>4. x.doing = doing /\ x.token = access /\ x.as = user /\ x.stale = h
  BY <1>2, <1>3 DEF NoTask
<1>5. task' = [task EXCEPT ![w] = x]
  BY <1>1, <1>2, <1>3, Zenon DEF FetchAsShown, Fetch
<1> QED
  BY <1>1, <1>4, <1>5, PutTask, SomeTasks

LEMMA LogOutTask ==
  ASSUME Inv, LogOut
  PROVE  /\ task'["logout"].doing = "leave" /\ task'["logout"].token = Nobody
         /\ task'["logout"].as = Nobody /\ task'["logout"].at = "sent" /\ Others("logout")
         /\ task["logout"].doing = "nothing"
<1>1. PICK w : w = [NoTask EXCEPT !.doing = "leave", !.cookie = cookie]
  OBVIOUS
<1>2. w.doing = "leave" /\ w.token = Nobody /\ w.as = Nobody /\ w.at = "sent"
  BY <1>1 DEF NoTask
<1>3. task' = [task EXCEPT !["logout"] = w]
  BY <1>1, Zenon DEF LogOut
<1> QED
  BY <1>2, <1>3, PutTask, SomeTasks, ZenonT(40) DEF LogOut, MayStart, Idle

LEMMA DeleteTask ==
  ASSUME Inv, NEW w \in Work, Delete(w)
  PROVE  /\ Moved(task[w], task'[w]) /\ Others(w)
         /\ task[w].doing = "erase" /\ task[w].at # "acted"
         /\ task'[w].at = "acted" /\ task'[w].token = Nobody
<1>1. PICK x : x = [task[w] EXCEPT !.at = "acted", !.token = Nobody]
  OBVIOUS
<1>2. task' = [task EXCEPT ![w] = x]
  BY <1>1, Zenon DEF Delete
<1>3. task[w] \in Task
  BY SomeTasks DEF Inv, TaskOK
<1>4. x.at = "acted" /\ x.token = Nobody /\ Moved(task[w], x)
  BY <1>1, <1>3 DEF Task, Moved
<1> QED
  BY <1>2, <1>4, PutTask, SomeTasks, ZenonT(40) DEF Delete

LEMMA ErasedTasks ==
  ASSUME Inv, NEW w \in Work, Erased(w)
  PROVE  /\ task[w].doing = "erase" /\ task["logout"].doing = "nothing"
         /\ task'[w] = NoTask
         /\ task'["logout"].doing = "leave" /\ task'["logout"].token = Nobody
         /\ task'["logout"].as = task[w].as /\ task'["logout"].stale = task[w].stale
         /\ task'["logout"].at = "sent"
         /\ \A t \in Tasks : t \notin {w, "logout"} => task'[t] = task[t]
<1>1. PICK x : x = Departing(w)
  OBVIOUS
<1>2. /\ x.doing = "leave" /\ x.token = Nobody /\ x.at = "sent"
      /\ x.as = task[w].as /\ x.stale = task[w].stale
  BY <1>1 DEF Departing, NoTask
<1>3. PICK X : X = [task EXCEPT ![w] = NoTask]
  OBVIOUS
<1>4. task' = [X EXCEPT !["logout"] = x]
  BY <1>1, <1>3, Zenon DEF Erased
<1>5. w # "logout" /\ w \in Tasks
  BY SomeTasks
<1>6. /\ task'[w] = NoTask /\ task'["logout"] = x
      /\ \A t \in Tasks : t \notin {w, "logout"} => task'[t] = task[t]
  BY <1>3, <1>4, <1>5, SomeTasks DEF Inv, TaskOK
<1> QED
  BY <1>2, <1>6 DEF Erased, Idle

LEMMA LeaveTask ==
  ASSUME Inv, Leave
  PROVE  /\ Moved(task["logout"], task'["logout"]) /\ Others("logout")
         /\ task["logout"].doing = "leave" /\ task'["logout"].at = "acted"
         /\ task'["logout"].token = task["logout"].token
<1>1. PICK w : w = [task["logout"] EXCEPT !.at = "acted", !.cookie = NoCookie]
  OBVIOUS
<1>2. task' = [task EXCEPT !["logout"] = w]
  BY <1>1, Zenon DEF Leave
<1>3. task["logout"] \in Task
  BY SomeTasks DEF Inv, TaskOK
<1>4. w.token = task["logout"].token /\ w.at = "acted" /\ Moved(task["logout"], w)
  BY <1>1, <1>3 DEF Task, Moved
<1> QED
  BY <1>2, <1>4, PutTask, SomeTasks, ZenonT(40) DEF Leave

LEMMA LeftTasks ==
  ASSUME Inv, Left
  PROVE  /\ task["logout"].doing = "leave" /\ task'["logout"] = NoTask
         /\ \A t \in Tasks : t # "logout" => Marked(task[t], task'[t])
<1>1. PICK X : X = Stale(task)
  OBVIOUS
<1>2. X \in [Tasks -> Task] /\ \A t \in Tasks : Marked(task[t], X[t])
  BY <1>1, StaleTypes, MarkedByStale DEF Inv, TaskOK
<1>3. task' = [X EXCEPT !["logout"] = NoTask]
  BY <1>1 DEF Left
<1> QED
  BY <1>2, <1>3, SomeTasks DEF Left

LEMMA LeaveThrowsTask ==
  ASSUME Inv, LeaveThrows
  PROVE  /\ task["logout"].doing = "leave" /\ task'["logout"] = NoTask /\ Others("logout")
BY PutTask, SomeTasks DEF LeaveThrows

LEMMA StartedTasks ==
  ASSUME NEW magic \in BOOLEAN, NEW t \in Tasks
  PROVE  /\ Started(magic)[t].token = Nobody /\ Started(magic)[t].as = Nobody
         /\ Started(magic)[t].stale = FALSE
         /\ Started(magic)[t].doing =
              IF t = "boot" THEN "boot" ELSE IF t = "signin" /\ magic THEN "enter" ELSE "nothing"
         /\ t # "boot" => Started(magic)[t].at = "sent"
<1>1. PICK b : b = [NoTask EXCEPT !.doing = "boot", !.at = "refresh", !.swap = 1]
  OBVIOUS
<1>2. b.doing = "boot" /\ b.token = Nobody /\ b.as = Nobody /\ b.stale = FALSE
  BY <1>1 DEF NoTask
<1>3. Started(magic)[t] = IF t = "boot" THEN b
                          ELSE IF t = "signin" /\ magic THEN Entering ELSE NoTask
  BY <1>1 DEF Started
<1> QED
  BY <1>2, <1>3, NoTaskIs

-----------------------------------------------------------------------------
\* Each task does what it is for.
Kind(t) == CASE t = "boot"   -> {"nothing", "boot", "me"}
             [] t = "signin" -> {"nothing", "enter", "me"}
             [] t = "logout" -> {"nothing", "leave"}
             [] OTHER        -> {"nothing", "work", "erase"}

Kinds == \A t \in Tasks : task[t].doing \in Kind(t)

LEMMA KindIs ==
  /\ Kind("boot") = {"nothing", "boot", "me"} /\ Kind("signin") = {"nothing", "enter", "me"}
  /\ Kind("logout") = {"nothing", "leave"}
  /\ \A w \in Work : Kind(w) = {"nothing", "work", "erase"}
  /\ \A t : "nothing" \in Kind(t)
  /\ \A t : "boot" \in Kind(t) => "me" \in Kind(t)
BY SomeTasks DEF Kind

LEMMA StartedKinds ==
  ASSUME NEW magic \in BOOLEAN, NEW t \in Tasks
  PROVE  Started(magic)[t].doing \in Kind(t)
<1>1. CASE t = "boot"
  BY <1>1, StartedTasks, KindIs
<1>2. CASE t = "signin"
  BY <1>2, StartedTasks, KindIs
<1>3. CASE t # "boot" /\ t # "signin"
  <2>1. Started(magic)[t].doing = "nothing"
    BY <1>3, StartedTasks
  <2> QED
    BY <2>1, KindIs
<1> QED
  BY <1>1, <1>2, <1>3

LEMMA StepKinds ==
  ASSUME Inv, Kinds, [Next]_vars
  PROVE  Kinds'
<1>1. ASSUME NEW t \in Tasks, task'[t].doing \in Kind(t), Others(t)
      PROVE  Kinds'
  BY <1>1 DEF Kinds, Others
<1>2. ASSUME NEW t \in Tasks, task'[t] = NoTask \/ Moved(task[t], task'[t]), Others(t)
      PROVE  Kinds'
  BY <1>1, <1>2, KindIs, NoTaskIs DEF Kinds, Moved
<1>3. CASE UNCHANGED task
  BY <1>3 DEF Kinds
<1>4. ASSUME NEW s \in Swaps, SwapStep(s)
      PROVE  Kinds'
  <2>1. \A t \in Tasks : Remains(t).doing \in Kind(t)
    BY KindIs, NoTaskIs DEF Remains, Kinds
  <2>2. CASE SwapGranted(s)
    BY <2>2, GrantedTasks, KindIs DEF Kinds, Moved
  <2>3. CASE SwapRefused(s)
    BY <2>1, <2>3, RefusedTasks DEF Kinds, Marked
  <2>4. CASE SwapThrows(s)
    BY <2>1, <2>4, SwapThrowsTasks DEF Kinds
  <2> QED
    BY <1>3, <1>4, <2>2, <2>3, <2>4 DEF SwapStep, Rotate, Refuse
<1>5. ASSUME NEW t \in Tasks, MeStep(t) \/ Done(t)
      PROVE  Kinds'
  BY <1>2, <1>5, EndsTask, DeniedTask DEF MeStep
<1>6. CASE SignIn
  BY <1>1, <1>6, SignInTask, SomeTasks, KindIs, NoTaskIs
<1>7. ASSUME NEW u \in Users, Enter(u)
      PROVE  Kinds'
  BY <1>2, <1>7, EnterTask, SomeTasks
<1>8. CASE Entered
  BY <1>8, EnteredTasks, KindIs DEF Kinds, Marked
<1>9. ASSUME NEW w \in Work, NEW doing \in {"work", "erase"},
             task' = [task EXCEPT ![w] = FetchAsShown(doing)]
      PROVE  Kinds'
  BY <1>1, <1>9, AskTask, KindIs, SomeTasks, ZenonT(40)
<1>10. ASSUME NEW w \in Work, Ask(w) \/ Erase(w)
       PROVE  Kinds'
  BY <1>9, <1>10 DEF Ask, Erase
<1>11. ASSUME NEW w \in Work, Delete(w)
       PROVE  Kinds'
  BY <1>2, <1>11, DeleteTask, SomeTasks
<1>12. ASSUME NEW w \in Work, Erased(w)
       PROVE  Kinds'
  BY <1>12, ErasedTasks, KindIs, NoTaskIs DEF Kinds
<1>13. CASE LogOut \/ Leave \/ LeaveThrows
  BY <1>1, <1>2, <1>13, LogOutTask, LeaveTask, LeaveThrowsTask, SomeTasks, KindIs
<1>14. CASE Left
  BY <1>14, LeftTasks, KindIs, NoTaskIs DEF Kinds, Marked
<1>15. ASSUME NEW magic \in BOOLEAN, Load(magic)
       PROVE  Kinds'
  BY <1>15, StartedKinds DEF Load, Kinds
<1> QED
  BY <1>3, <1>4, <1>5, <1>6, <1>7, <1>8, <1>10, <1>11, <1>12, <1>13, <1>14, <1>15, SomeTasks
     DEF Next, vars, SignInStep, MeStep, Redirect, ToLogin, ToApp, BackToSignIn

LEMMA InitKinds == Init => Kinds
<1> SUFFICES ASSUME Init PROVE Kinds
  OBVIOUS
<1>1. PICK magic \in BOOLEAN : task = Started(magic)
  BY DEF Init
<1> QED
  BY <1>1, StartedKinds DEF Kinds

-----------------------------------------------------------------------------
(***************************************************************************)
(* Deletions.  The account the statement deletes is the one that was typed *)
(* in, whatever the token is, so the first theorem needs the types only.   *)
(***************************************************************************)
LEMMA OnlyDelete ==
  ASSUME [Next]_vars, gone' # gone
  PROVE  \E w \in Work : Delete(w)
BY DEF Next, vars, SwapStep, Rotate, Refuse, SwapGranted, SwapRefused, SwapThrows, MeStep, Me,
       Denied, Throws, SignInStep, Enter, Entered, Ask, Done, Erase, Erased, SignIn, Redirect,
       ToLogin, ToApp, BackToSignIn, LogOut, Leave, Left, LeaveThrows, Load, server

LEMMA DeletedWas ==
  ASSUME NEW w \in Work, Delete(w)
  PROVE  task[w].doing = "erase" /\ gone' = gone \cup {task[w].as} /\ task[w].as \notin gone
BY DEF Delete, Confirmed

(***************************************************************************)
(* onDelete with authFetch and the api's Delete: an account goes only by a *)
(* request in which its own address was typed, whatever token the request  *)
(* or its retry after a refresh carries.                                   *)
(***************************************************************************)
THEOREM DeletesAsTyped == Spec => DeletesTyped
<1>1. ASSUME [Next]_vars
      PROVE  [\A u \in gone' \ gone :
                \E w \in Work : task[w].doing = "erase" /\ task[w].as = u]_gone
  BY <1>1, OnlyDelete, DeletedWas
<1> QED
  BY <1>1, PTL DEF Spec, DeletesTyped

\* What excuses that a deleted account is shown.
Excused == odd \cap {"kept", "half in", "lost", "crossed"} # {}

\* The deletion is acted upon, and its answer or the log-out is to come.
Deleting(u) ==
  \/ \E w \in Work : task[w].doing = "erase" /\ task[w].at = "acted" /\ task[w].as = u
  \/ task["logout"].as = u

\* A log-out has no account when there is none, and does not wait for a refresh.
LogOutOK ==
  /\ Idle("logout") => task["logout"].as = Nobody
  /\ task["logout"].at # "refresh"

OutInv ==
  LogOutOK /\ \A u \in gone : status = "authed" /\ user = u => Deleting(u) \/ Excused

LEMMA OutIsOut == OutInv => DeletedIsOut
BY DEF OutInv, DeletedIsOut, Deleting, Excused

\* Its excuses are kept, or something tells more.
LEMMA NotedExcuses ==
  \A o : o \cap {"kept", "half in", "lost", "crossed"} # {} =>
           Noted(o) \cap {"kept", "half in", "lost", "crossed"} # {}
BY DEF Noted

LEMMA ExcusedMore ==
  ASSUME NEW o, odd' = Noted(o), \E x \in {"kept", "half in", "lost", "crossed"} : x \in o
  PROVE  Excused'
BY NotedExcuses DEF Excused

LEMMA StepLogOut ==
  ASSUME Inv, Kinds, LogOutOK, [Next]_vars
  PROVE  LogOutOK'
<1> DEFINE x == task["logout"]
<1>1. CASE x' = x \/ x' = NoTask
  BY <1>1, NoTaskIs DEF LogOutOK, Idle
<1>2. ASSUME NEW t \in Tasks, Others(t), t # "logout"
      PROVE  LogOutOK'
  BY <1>1, <1>2, SomeTasks DEF Others
<1>3. ASSUME Marked(x, x')
      PROVE  LogOutOK'
  BY <1>3 DEF Marked, LogOutOK, Idle
<1>4. ASSUME NEW s \in Swaps, SwapStep(s)
      PROVE  LogOutOK'
  <2>1. Remains("logout") = x
    BY DEF Remains, LogOutOK
  <2>2. CASE SwapRefused(s)
    BY <1>3, <2>1, <2>2, RefusedTasks, SomeTasks
  <2>3. CASE SwapThrows(s)
    BY <1>1, <2>1, <2>3, SwapThrowsTasks, SomeTasks
  <2>4. CASE SwapGranted(s)
    BY <1>1, <2>4, GrantedTasks, SomeTasks DEF LogOutOK
  <2> QED
    BY <1>1, <1>4, <2>2, <2>3, <2>4 DEF SwapStep, Rotate, Refuse
<1>5. ASSUME NEW t \in Tasks, MeStep(t) \/ Done(t)
      PROVE  LogOutOK'
  <2>1. CASE Denied(t)
    BY <1>2, <2>1, DeniedTask, KindIs DEF Kinds, Denied, Fetching
  <2>2. CASE Me(t) \/ Throws(t) \/ Done(t)
    BY <1>1, <1>2, <2>2, EndsTask
  <2> QED
    BY <1>5, <2>1, <2>2 DEF MeStep
<1>6. CASE LogOut
  BY <1>6, LogOutTask DEF LogOutOK, Idle
<1>7. CASE Leave
  BY <1>7, LeaveTask DEF LogOutOK, Idle, Moved
<1>8. ASSUME NEW w \in Work, Ask(w) \/ Erase(w) \/ Delete(w) \/ Erased(w)
      PROVE  LogOutOK'
  <2>1. CASE Erased(w)
    BY <2>1, ErasedTasks DEF LogOutOK, Idle
  <2>2. CASE Delete(w)
    BY <1>2, <2>2, DeleteTask, SomeTasks
  <2>3. CASE Ask(w) \/ Erase(w)
    BY <1>2, <2>3, AskTask, SomeTasks DEF Ask, Erase
  <2> QED
    BY <1>8, <2>1, <2>2, <2>3
<1>9. ASSUME NEW u \in Users, Enter(u)
      PROVE  LogOutOK'
  BY <1>2, <1>9, EnterTask, SomeTasks
<1>10. ASSUME NEW magic \in BOOLEAN, Load(magic)
       PROVE  LogOutOK'
  BY <1>10, StartedTasks, SomeTasks DEF Load, LogOutOK
<1>11. CASE Entered
  BY <1>3, <1>11, EnteredTasks, SomeTasks
<1>12. CASE SignIn
  BY <1>2, <1>12, SignInTask, SomeTasks
<1>13. CASE Left \/ LeaveThrows
  BY <1>1, <1>13, LeftTasks, LeaveThrowsTask
<1> QED
  BY <1>1, <1>4, <1>5, <1>6, <1>7, <1>8, <1>9, <1>10, <1>11, <1>12, <1>13, SomeTasks
     DEF Next, vars, SignInStep, MeStep, Redirect, ToLogin, ToApp, BackToSignIn

\* A step that shows no account that was not shown, deletes none and drops
\* no excuse keeps it if it keeps what is waited for.
LEMMA KeepsOut ==
  ASSUME Inv, OutInv, LogOutOK', UNCHANGED <<gone, user>>,
         status' = "authed" => status = "authed", Excused => Excused',
         \A u \in Users : Deleting(u) => Deleting(u)' \/ Excused'
  PROVE  OutInv'
BY DEF OutInv, Inv, ServerOK

LEMMA SignedOutIsOut ==
  ASSUME Inv, LogOutOK', UNCHANGED gone, user' = Nobody
  PROVE  OutInv'
BY WebSessionAssumption DEF OutInv, Inv, ServerOK

LEMMA StepOut ==
  ASSUME Inv, Kinds, OutInv, [Next]_vars
  PROVE  OutInv'
<1> USE SomeTasks
<1>1. LogOutOK'
  BY StepLogOut DEF OutInv
<1>2. CASE UNCHANGED <<gone, shown, task, odd>>
  BY <1>1, <1>2 DEF OutInv, Deleting, Excused, shown
\* What is acted or logs out stays.
<1>3. ASSUME UNCHANGED gone, UNCHANGED user, status' = "authed" => status = "authed",
             Excused => Excused', task'["logout"].as = task["logout"].as,
             \A w \in Work : task[w].at = "acted" => Moved(task[w], task'[w]) /\ task'[w].at = "acted"
      PROVE  OutInv'
  <2>1. \A u \in Users : Deleting(u) => Deleting(u)'
    BY <1>3 DEF Deleting, Moved
  <2> QED
    BY <1>1, <1>3, <2>1, KeepsOut
<1>4. ASSUME NEW t \in Tasks, Others(t), UNCHANGED <<gone, shown, odd>>, t # "logout",
             t \in Work => task[t].at # "acted" \/ task[t].doing # "erase"
      PROVE  OutInv'
  <2>1. \A u \in Users : Deleting(u) => Deleting(u)'
    BY <1>4 DEF Deleting, Others
  <2> QED
    BY <1>1, <1>4, <2>1, KeepsOut DEF shown, Excused
<1>5. ASSUME NEW s \in Swaps, SwapGranted(s)
      PROVE  OutInv'
  <2>1. Excused => Excused'
    <3>1. PICK o : o = (odd \ {"half out"}) \cup IF swap[s].stale THEN {"crossed"} ELSE {}
      OBVIOUS
    <3>2. odd' = Noted(o)
      BY <1>5, <3>1 DEF SwapGranted
    <3> QED
      BY <3>1, <3>2, ExcusedMore DEF Excused
  <2>2. \A w \in Work : task[w].at = "acted" => Moved(task[w], task'[w]) /\ task'[w].at = "acted"
    BY <1>5, GrantedTasks DEF Moved
  <2>3. task'["logout"].as = task["logout"].as
    BY <1>5, GrantedTasks DEF OutInv, LogOutOK
  <2> QED
    BY <1>3, <1>5, <2>1, <2>2, <2>3 DEF SwapGranted, server, shown
<1>6. ASSUME NEW s \in Swaps, SwapRefused(s)
      PROVE  OutInv'
  BY <1>1, <1>6, SignedOutIsOut DEF SwapRefused, SignedOut, server
<1>7. ASSUME NEW s \in Swaps, SwapThrows(s)
      PROVE  OutInv'
  <2>1. Excused => Excused'
    <3>1. PICK o : o = odd \cup (IF swap[s].at = "granted" THEN {"lost"} ELSE {})
                       \cup (IF BootWaits(s) /\ task["boot"].stale THEN {"crossed"} ELSE {})
      OBVIOUS
    <3>2. odd' = Noted(o)
      BY <1>7, <3>1 DEF SwapThrows
    <3> QED
      BY <3>1, <3>2, ExcusedMore DEF Excused
  <2>2. \A t \in Tasks : task[t].at # "refresh" => task'[t] = task[t]
    BY <1>7, SwapThrowsTasks DEF Remains
  <2>3. status' = "authed" => status = "authed"
    BY <1>7 DEF SwapThrows, Thrown, BootCaught
  <2> QED
    BY <1>3, <1>7, <2>1, <2>2, <2>3 DEF SwapThrows, server, OutInv, LogOutOK, Moved
<1>8. ASSUME NEW t \in Tasks, Throws(t)
      PROVE  OutInv'
  <2>1. PICK o : o = odd \cup (IF task[t].at = "acted" THEN {"lost"} ELSE {})
                     \cup (IF t = "boot" /\ task[t].stale THEN {"crossed"} ELSE {})
    OBVIOUS
  <2>2. odd' = Noted(o)
    BY <1>8, <2>1 DEF Throws
  <2>3. Excused => Excused'
    BY <2>1, <2>2, ExcusedMore DEF Excused
  <2>4. task[t].at = "acted" => Excused'
    BY <2>1, <2>2, ExcusedMore
  <2>5. Others(t) /\ t # "logout"
    BY <1>8, EndsTask, KindIs DEF Throws, Fetching, Kinds
  <2>6. \A u \in Users : Deleting(u) => Deleting(u)' \/ Excused'
    BY <2>4, <2>5 DEF Deleting, Others
  <2>7. status' = "authed" => status = "authed"
    BY <1>8 DEF Throws, Thrown
  <2> QED
    BY <1>1, <1>8, <2>3, <2>6, <2>7, KeepsOut DEF Throws, server
<1>9. ASSUME NEW t \in Tasks, Me(t)
      PROVE  OutInv'
  BY <1>1, <1>9 DEF Me, SetUser, OutInv, server
<1>10. ASSUME NEW t \in Tasks, Denied(t) \/ Done(t)
       PROVE  OutInv'
  <2>1. t # "logout"
    BY <1>10, KindIs DEF Denied, Done, Fetching, Kinds
  <2>2. Others(t)
    BY <1>10, DeniedTask, EndsTask
  <2> QED
    BY <1>4, <1>10, <2>1, <2>2 DEF Denied, Done, server
<1>11. CASE SignIn \/ \E u \in Users : Enter(u)
  <2>1. Others("signin")
    BY <1>11, SignInTask, EnterTask
  <2> QED
    BY <1>4, <1>11, <2>1 DEF SignIn, Enter, server
<1>12. CASE Entered
  <2>1. Excused'
    <3>1. PICK o : o = (odd \ {"left", "half out"}) \cup {"half in"}
      OBVIOUS
    <3> QED
      BY <1>12, <3>1, ExcusedMore DEF Entered
  <2> QED
    BY <1>1, <2>1 DEF OutInv
<1>13. ASSUME NEW w \in Work, Ask(w) \/ Erase(w)
       PROVE  OutInv'
  <2>1. Others(w) /\ task[w].doing = "nothing"
    BY <1>13, AskTask DEF Ask, Erase, MayStart, Idle
  <2> QED
    BY <1>4, <1>13, <2>1 DEF Ask, Erase, server
<1>14. ASSUME NEW w \in Work, Delete(w)
       PROVE  OutInv'
  <2>1. Moved(task[w], task'[w]) /\ task'[w].at = "acted" /\ task[w].doing = "erase" /\ Others(w)
    BY <1>14, DeleteTask
  <2>2. \A u \in Users : Deleting(u) => Deleting(u)'
    BY <2>1 DEF Deleting, Others, Moved
  <2>3. \A u : u = task[w].as => Deleting(u)'
    BY <2>1 DEF Deleting, Moved
  <2>4. gone' = gone \cup {task[w].as} /\ UNCHANGED <<user, status, odd>>
    BY <1>14, DeletedWas DEF Delete, shown
  <2>5. ASSUME NEW u \in gone', status' = "authed", user' = u
        PROVE  Deleting(u)' \/ Excused'
    <3>1. CASE u = task[w].as
      BY <2>3, <3>1
    <3>2. CASE u \in gone
      <4>1. Deleting(u) \/ Excused
        BY <2>4, <2>5, <3>2 DEF OutInv
      <4>2. u \in Users
        BY <3>2 DEF Inv, ServerOK
      <4>3. Deleting(u) => Deleting(u)'
        BY <2>2, <4>2
      <4>4. Excused => Excused'
        BY <2>4 DEF Excused
      <4> QED
        BY <4>1, <4>3, <4>4
    <3> QED
      BY <2>4, <3>1, <3>2
  <2> QED
    BY <1>1, <2>5 DEF OutInv
<1>15. ASSUME NEW w \in Work, Erased(w)
       PROVE  OutInv'
  <2>1. task["logout"].as = Nobody
    BY <1>15, ErasedTasks DEF OutInv, LogOutOK, Idle
  <2>2. \A u \in Users : Deleting(u) => Deleting(u)'
    BY <1>15, <2>1, ErasedTasks, WebSessionAssumption DEF Deleting
  <2> QED
    BY <1>1, <1>15, <2>2, KeepsOut DEF Erased, server, shown, Excused
<1>16. CASE LogOut \/ Leave
  <2>1. Others("logout") /\ (task["logout"].as = Nobody \/ task'["logout"].as = task["logout"].as)
    BY <1>16, LogOutTask, LeaveTask DEF OutInv, LogOutOK, Idle, Moved
  <2>2. \A u \in Users : Deleting(u) => Deleting(u)'
    BY <2>1, WebSessionAssumption DEF Deleting, Others
  <2> QED
    BY <1>1, <1>16, <2>2, KeepsOut DEF LogOut, Leave, server, shown, Excused
<1>17. CASE Left
  BY <1>1, <1>17, SignedOutIsOut DEF Left, server
<1>18. CASE LeaveThrows
  <2>1. PICK o : o = odd \cup {"half out"} \cup IF task["logout"].as # Nobody THEN {"kept"} ELSE {}
    OBVIOUS
  <2>2. odd' = Noted(o)
    BY <1>18, <2>1 DEF LeaveThrows
  <2>3. (Excused => Excused') /\ (task["logout"].as # Nobody => Excused')
    BY <2>1, <2>2, ExcusedMore DEF Excused
  <2>4. \A u \in Users : Deleting(u) => Deleting(u)' \/ Excused'
    BY <1>18, <2>3, LeaveThrowsTask, WebSessionAssumption DEF Deleting, Others
  <2> QED
    BY <1>1, <1>18, <2>3, <2>4, KeepsOut DEF LeaveThrows, server, shown
<1>19. ASSUME NEW magic \in BOOLEAN, Load(magic)
       PROVE  OutInv'
  BY <1>1, <1>19, SignedOutIsOut DEF Load, server
<1>20. CASE Redirect \/ BackToSignIn
  BY <1>2, <1>20 DEF Redirect, ToLogin, ToApp, BackToSignIn, server
<1>21. ASSUME NEW s \in Swaps, Rotate(s) \/ Refuse(s)
       PROVE  OutInv'
  <2>1. UNCHANGED <<gone, shown, task>>
    BY <1>21 DEF Rotate, Refuse
  <2>2. Excused => Excused'
    <3>1. CASE Rotate(s)
      BY <3>1 DEF Rotate, Excused
    <3>2. CASE Refuse(s)
      <4>1. PICK o : odd' = Noted(odd \cup o)
        BY <3>2 DEF Refuse
      <4>2. PICK p : p = odd \cup o
        OBVIOUS
      <4> QED
        BY <4>1, <4>2, ExcusedMore DEF Excused
    <3> QED
      BY <1>21, <3>1, <3>2
  <2>3. \A u \in Users : Deleting(u) => Deleting(u)'
    BY <2>1 DEF Deleting
  <2> QED
    BY <1>1, <2>1, <2>2, <2>3, KeepsOut DEF shown
<1>22. CASE UNCHANGED vars
  BY <1>2, <1>22 DEF vars, shown
<1> QED
  <2>1. ASSUME NEW s \in Swaps, SwapStep(s)
        PROVE  OutInv'
    BY <1>5, <1>6, <1>7, <1>21, <2>1 DEF SwapStep
  <2>2. ASSUME NEW t \in Tasks, MeStep(t)
        PROVE  OutInv'
    BY <1>8, <1>9, <1>10, <2>2 DEF MeStep
  <2>3. CASE SignInStep
    BY <1>11, <1>12, <2>2, <2>3 DEF SignInStep
  <2> QED
    BY <1>8, <1>10, <1>11, <1>13, <1>14, <1>15, <1>16, <1>17, <1>18, <1>19, <1>20, <1>22,
       <2>1, <2>2, <2>3 DEF Next

(***************************************************************************)
(* A tab does not go on showing the account it has deleted: whichever      *)
(* requests and answers come in between, the answer or the log-out that    *)
(* signs it out is still to come, or its loss is noted.                    *)
(***************************************************************************)
THEOREM DeletedIsGone == Spec => []DeletedIsOut
<1>1. Init => Inv /\ Kinds /\ OutInv
  <2>1. Init => OutInv
    <3> SUFFICES ASSUME Init PROVE OutInv
      OBVIOUS
    <3>1. PICK magic \in BOOLEAN : task = Started(magic)
      BY DEF Init
    <3> QED
      BY <3>1, StartedTasks, SomeTasks DEF Init, OutInv, LogOutOK
  <2> QED
    BY <2>1, InitInv, InitKinds
<1>2. Inv /\ Kinds /\ OutInv /\ [Next]_vars => (Inv /\ Kinds /\ OutInv)'
  BY StepInv, StepKinds, StepOut
<1>3. Spec => [](Inv /\ Kinds /\ OutInv)
  BY <1>1, <1>2, PTL DEF Spec
<1> QED
  BY <1>3, OutIsOut, PTL

-----------------------------------------------------------------------------
(***************************************************************************)
(* The button and the page of a link.  A button that waits is on a sign-in *)
(* page or on its way from one, and once the sign-in has set the session,  *)
(* every log-out and deletion that is under way is an older one's.         *)
(***************************************************************************)
AllStale == \A t \in Tasks : task[t].doing \in {"erase", "leave"} => task[t].stale

ButtonInv ==
  /\ google = "loading" => page \in {"login", "to app"}
  /\ google = "loading" /\ task["signin"].doing # "enter" => AllStale
  /\ SignInOffered

LEMMA NotedLate ==
  \A o : \A x \in {"late", "crossed"} : x \in Noted(o) <=> x \in o
BY DEF Noted

\* Only a load forgets a log-out that came late, and answers that crossed.
LEMMA LateKept ==
  ASSUME [Next]_vars, ~ \E magic \in BOOLEAN : Load(magic),
         NEW x \in {"late", "crossed"}, x \in odd
  PROVE  x \in odd'
<1>1. ASSUME NEW s \in Swaps, SwapGranted(s) \/ SwapRefused(s)
      PROVE  x \in odd'
  <2>1. PICK o, p : odd' = Noted((odd \ {o}) \cup p) /\ o \in {"half in", "half out"}
    BY <1>1 DEF SwapGranted, SwapRefused
  <2> QED
    BY <2>1, NotedLate
<1>2. ASSUME NEW s \in Swaps, SwapThrows(s)
      PROVE  x \in odd'
  BY <1>2, NotedLate DEF SwapThrows
<1>3. ASSUME NEW s \in Swaps, Refuse(s)
      PROVE  x \in odd'
  BY <1>3, NotedLate DEF Refuse
<1>4. ASSUME NEW t \in Tasks, Throws(t)
      PROVE  x \in odd'
  BY <1>4, NotedLate DEF Throws
<1>5. ASSUME NEW t \in Tasks, Me(t)
      PROVE  x \in odd'
  <2>1. PICK p : odd' = Noted((IF t = "signin" THEN odd \ {"half in"} ELSE odd) \cup p)
    BY <1>5 DEF Me
  <2> QED
    BY <2>1, NotedLate
<1>6. CASE Entered
  BY <1>6, NotedLate DEF Entered
<1>7. CASE Left
  BY <1>7, NotedLate, ZenonT(40) DEF Left
<1>8. CASE LeaveThrows
  BY <1>8, NotedLate DEF LeaveThrows
<1> QED
  BY <1>1, <1>2, <1>3, <1>4, <1>5, <1>6, <1>7, <1>8, SomeTasks
     DEF Next, vars, SwapStep, Rotate, MeStep, Denied, SignInStep, Enter, Ask, Done, Erase,
         Delete, Erased, SignIn, Redirect, ToLogin, ToApp, BackToSignIn, LogOut, Leave

\* A log-out or a deletion that is not stale is begun on the pages of the app.
LEMMA AllStaleKept ==
  ASSUME Inv, Kinds, AllStale, [Next]_vars, ~ InApp
  PROVE  AllStale'
<1> USE SomeTasks
<1>1. ASSUME NEW t \in Tasks, Others(t), task'[t] = NoTask \/ task'[t].doing = "enter"
                                         \/ Moved(task[t], task'[t])
      PROVE  AllStale'
  BY <1>1, NoTaskIs DEF AllStale, Others, Moved
<1>2. CASE UNCHANGED task
  BY <1>2 DEF AllStale
<1>3. \A t \in Tasks : Remains(t).doing \in {"erase", "leave"} => Remains(t).stale
  BY NoTaskIs DEF AllStale, Remains
<1>4. ASSUME NEW s \in Swaps, SwapStep(s)
      PROVE  AllStale'
  <2>1. CASE SwapGranted(s)
    BY <2>1, GrantedTasks DEF AllStale, Moved
  <2>2. CASE SwapRefused(s)
    BY <1>3, <2>2, RefusedTasks DEF AllStale, Marked
  <2>3. CASE SwapThrows(s)
    BY <1>3, <2>3, SwapThrowsTasks DEF AllStale
  <2> QED
    BY <1>2, <1>4, <2>1, <2>2, <2>3 DEF SwapStep, Rotate, Refuse
<1>5. ASSUME NEW t \in Tasks, MeStep(t) \/ Done(t)
      PROVE  AllStale'
  BY <1>1, <1>5, EndsTask, DeniedTask DEF MeStep
<1>6. CASE SignIn \/ (\E u \in Users : Enter(u)) \/ Leave \/ LeaveThrows
  BY <1>1, <1>6, SignInTask, EnterTask, LeaveTask, LeaveThrowsTask, NoTaskIs
<1>7. CASE Entered
  BY <1>7, EnteredTasks DEF AllStale, Marked
<1>8. ASSUME NEW w \in Work, Delete(w)
      PROVE  AllStale'
  BY <1>1, <1>8, DeleteTask
<1>9. ASSUME NEW w \in Work, Erased(w)
      PROVE  AllStale'
  BY <1>9, ErasedTasks, NoTaskIs DEF AllStale
<1>10. CASE Left
  BY <1>10, LeftTasks, NoTaskIs DEF AllStale, Marked
<1>11. ASSUME NEW magic \in BOOLEAN, Load(magic)
       PROVE  AllStale'
  BY <1>11, StartedTasks DEF Load, AllStale
<1> QED
  <2>1. ASSUME NEW w \in Work, Ask(w) \/ Erase(w) \/ LogOut
        PROVE  FALSE
    BY <2>1 DEF Ask, Erase, LogOut
  <2>2. ~ LogOut
    BY DEF LogOut
  <2>3. CASE Redirect \/ BackToSignIn \/ UNCHANGED vars
    BY <1>2, <2>3 DEF Redirect, ToLogin, ToApp, BackToSignIn, vars
  <2>4. CASE SignInStep \/ MeStep("boot")
    BY <1>5, <1>6, <1>7, <2>4 DEF SignInStep
  <2>5. ASSUME NEW w \in Work, Denied(w) \/ Throws(w)
        PROVE  AllStale'
    BY <1>5, <2>5 DEF MeStep
  <2> QED
    BY <1>4, <1>5, <1>6, <1>8, <1>9, <1>10, <1>11, <2>1, <2>2, <2>3, <2>4, <2>5 DEF Next

\* The page and the button stay, and the sign-in goes on or begins.
LEMMA KeepsButton ==
  ASSUME ButtonInv, UNCHANGED <<page, google>>, "late" \in odd => "late" \in odd',
         task'["signin"].doing = task["signin"].doing, InApp \/ (AllStale => AllStale')
  PROVE  ButtonInv'
BY DEF ButtonInv, SignInOffered, InApp

\* A sign-in that throws enables its button and leaves no link's page.
LEMMA ThrownButton ==
  ASSUME ButtonInv, NEW tasks, NEW st, Thrown(tasks, st), "late" \in odd => "late" \in odd',
         "signin" \notin tasks => task'["signin"].doing = task["signin"].doing,
         InApp \/ (AllStale => AllStale')
  PROVE  ButtonInv'
<1>1. CASE "signin" \in tasks
  <2>1. google' # "loading"
    BY <1>1 DEF Thrown, GoogleAfter
  <2>2. page' # "magic"
    BY <1>1 DEF Thrown, PageAfter, Guarded
  <2> QED
    BY <2>1, <2>2 DEF ButtonInv, SignInOffered
<1>2. CASE "signin" \notin tasks
  <2>1. google' = google /\ page' = Guarded(page, st)
    BY <1>2 DEF Thrown, GoogleAfter, PageAfter
  <2>2. /\ page' \in {"login", "magic"} => page' = page
        /\ page \in {"login", "to app"} => page' \in {"login", "to app"}
    BY <2>1 DEF Guarded
  <2>3. google = "loading" => ~ InApp
    BY DEF ButtonInv, InApp
  <2> QED
    BY <1>2, <2>1, <2>2, <2>3 DEF ButtonInv, SignInOffered
<1> QED
  BY <1>1, <1>2

LEMMA StepButton ==
  ASSUME Inv, Kinds, ButtonInv, [Next]_vars
  PROVE  ButtonInv'
<1> USE SomeTasks
<1>1. ASSUME NEW magic \in BOOLEAN, Load(magic)
      PROVE  ButtonInv'
  <2>1. task'["signin"].doing = IF magic THEN "enter" ELSE "nothing"
    BY <1>1, StartedTasks DEF Load
  <2>2. google' # "loading" /\ page' \in Opened(magic)
    BY <1>1 DEF Load, Button
  <2> QED
    BY <2>1, <2>2 DEF ButtonInv, SignInOffered, Opened
<1>2. SUFFICES ASSUME ~ \E magic \in BOOLEAN : Load(magic) PROVE ButtonInv'
  BY <1>1
<1>3. "late" \in odd => "late" \in odd'
  BY <1>2, LateKept
<1>4. InApp \/ (AllStale => AllStale')
  BY AllStaleKept
<1>5. ASSUME UNCHANGED <<page, google>>, task'["signin"].doing = task["signin"].doing
      PROVE  ButtonInv'
  BY <1>3, <1>4, <1>5, KeepsButton
<1>6. ASSUME NEW t \in Tasks, Others(t), t # "signin", UNCHANGED pages
      PROVE  ButtonInv'
  BY <1>5, <1>6 DEF Others, pages
<1>7. ASSUME NEW s \in Swaps, SwapStep(s)
      PROVE  ButtonInv'
  <2>1. CASE Rotate(s) \/ Refuse(s)
    BY <1>5, <2>1 DEF Rotate, Refuse, pages
  <2>2. CASE SwapGranted(s)
    BY <1>5, <2>2, GrantedTasks, KindIs DEF SwapGranted, pages, Kinds, Moved
  <2>3. CASE SwapRefused(s) \/ SwapThrows(s)
    <3>1. PICK W : W = Waiters(s)
      OBVIOUS
    <3>2. PICK st : Thrown(W, st)
      BY <2>3, <3>1 DEF SwapRefused, SignedOut, SwapThrows
    <3>3. "signin" \notin W => Remains("signin") = task["signin"]
      <4>1. Pending(s)
        BY <2>3 DEF SwapRefused, SwapThrows, Pending
      <4> QED
        BY <3>1, <4>1, GivenUpIs DEF Remains
    <3>4. task'["signin"].doing = Remains("signin").doing
      BY <2>3, RefusedTasks, SwapThrowsTasks DEF Marked
    <3> QED
      BY <1>3, <1>4, <3>2, <3>3, <3>4, ThrownButton
  <2> QED
    BY <1>7, <2>1, <2>2, <2>3 DEF SwapStep
<1>8. ASSUME NEW t \in Tasks, Denied(t)
      PROVE  ButtonInv'
  <2>1. task'["signin"].doing = task["signin"].doing
    BY <1>8, DeniedTask DEF Others, Moved
  <2> QED
    BY <1>5, <1>8, <2>1 DEF Denied, pages
<1>9. ASSUME NEW t \in Tasks, Throws(t)
      PROVE  ButtonInv'
  <2>1. "signin" \notin {t} => task'["signin"].doing = task["signin"].doing
    BY <1>9, EndsTask DEF Others
  <2>2. PICK st, W : Thrown(W, st) /\ W = {t}
    BY <1>9 DEF Throws
  <2> QED
    BY <1>3, <1>4, <2>1, <2>2, ThrownButton
<1>10. ASSUME NEW t \in Tasks, Me(t)
       PROVE  ButtonInv'
  <2>1. PICK p : /\ p = IF t = "signin" /\ page = "magic" THEN "app" ELSE page
                 /\ page' = Guarded(p, "authed")
    BY <1>10 DEF Me
  <2>2. /\ page' # "login" /\ (page' = "magic" => page = "magic" /\ t # "signin")
        /\ page \in {"login", "to app"} => page' = "to app"
    BY <2>1 DEF Guarded
  <2>3. t # "signin" => task'["signin"] = task["signin"]
    BY <1>10, EndsTask DEF Others
  <2>4. google' = google
    BY <1>10 DEF Me
  <2>5. t = "signin" => task["signin"].doing # "enter"
    BY <1>10 DEF Me
  <2>6. google = "loading" => ~ InApp
    BY DEF ButtonInv, InApp
  <2> QED
    BY <1>4, <2>2, <2>3, <2>4, <2>5, <2>6 DEF ButtonInv, SignInOffered
<1>11. CASE SignIn
  BY <1>11, SignInTask, NoTaskIs DEF SignIn, ButtonInv, SignInOffered
<1>12. ASSUME NEW u \in Users, Enter(u)
       PROVE  ButtonInv'
  BY <1>5, <1>12, EnterTask DEF Enter, pages, Moved
<1>13. CASE Entered
  <2>1. AllStale'
    BY <1>13, EnteredTasks DEF AllStale, Marked
  <2> QED
    BY <1>13, <2>1, EnteredTasks DEF Entered, pages, ButtonInv, SignInOffered
<1>14. ASSUME NEW w \in Work, Ask(w) \/ Erase(w) \/ Done(w) \/ Delete(w)
       PROVE  ButtonInv'
  <2>1. Others(w)
    BY <1>14, AskTask, EndsTask, DeleteTask DEF Ask, Erase
  <2> QED
    BY <1>5, <1>14, <2>1 DEF Others, Ask, Erase, Done, Delete, pages
<1>15. ASSUME NEW w \in Work, Erased(w)
       PROVE  ButtonInv'
  <2>1. w # "signin"
    OBVIOUS
  <2>2. task'["signin"] = task["signin"]
    BY <1>15, <2>1, ErasedTasks
  <2> QED
    BY <1>5, <1>15, <2>2 DEF Erased
<1>16. CASE LogOut \/ Leave \/ LeaveThrows
  <2>1. Others("logout")
    BY <1>16, LogOutTask, LeaveTask, LeaveThrowsTask
  <2> QED
    BY <1>6, <1>16, <2>1 DEF LogOut, Leave, LeaveThrows
<1>17. CASE Left
  <2>1. AllStale'
    BY <1>17, LeftTasks, NoTaskIs DEF AllStale, Marked
  <2>2. task'["signin"].doing = task["signin"].doing /\ task["logout"].doing = "leave"
    BY <1>17, LeftTasks DEF Marked
  <2>3. PICK p : /\ p = IF task["logout"].as # Nobody THEN "login" ELSE page
                 /\ page' = Guarded(p, "anon")
    BY <1>17 DEF Left
  <2>4. /\ page \in {"login", "to app"} => page' \in {"login", "to app"}
        /\ page' = "magic" => page = "magic"
    BY <2>3 DEF Guarded
  <2>5. google' = "loading" => google = "loading"
    BY <1>17 DEF Left
  <2>6. task["logout"].stale => "late" \in odd'
    <3>1. PICK o : o = (odd \ {"half in", "half out"}) \cup {"left"}
                         \cup IF task["logout"].stale THEN {"late"} ELSE {}
      OBVIOUS
    <3> QED
      BY <1>17, <3>1, NotedLate DEF Left
  <2> QED
    BY <2>1, <2>2, <2>4, <2>5, <2>6 DEF ButtonInv, SignInOffered, AllStale
<1>18. CASE Redirect \/ BackToSignIn
  <2>1. google' = "idle" /\ page' # "magic"
    BY <1>18 DEF Redirect, ToLogin, ToApp, BackToSignIn, Guarded
  <2> QED
    BY <2>1 DEF ButtonInv, SignInOffered
<1>19. CASE UNCHANGED vars
  BY <1>5, <1>19 DEF vars
<1> QED
  <2>1. CASE SignInStep \/ MeStep("boot")
    BY <1>8, <1>9, <1>10, <1>12, <1>13, <2>1 DEF SignInStep, MeStep
  <2> QED
    BY <1>2, <1>7, <1>8, <1>9, <1>11, <1>14, <1>15, <1>16, <1>17, <1>18, <1>19, <2>1 DEF Next

(***************************************************************************)
(* LoginPage and the page of a magic link: whatever signs the tab out or   *)
(* in meanwhile, the button is disabled and the link's page waits only     *)
(* while a sign-in is under way, until a log-out is answered that a later  *)
(* sign-in has overtaken.                                                  *)
(***************************************************************************)
THEOREM SignInIsOffered == Spec => []SignInOffered
<1>1. Init => Inv /\ Kinds /\ ButtonInv
  <2>1. Init => ButtonInv
    <3> SUFFICES ASSUME Init PROVE ButtonInv
      OBVIOUS
    <3>1. PICK magic \in BOOLEAN : task = Started(magic) /\ page \in Opened(magic)
      BY DEF Init
    <3>2. google # "loading"
      BY DEF Init, Button
    <3>3. task["signin"].doing = IF magic THEN "enter" ELSE "nothing"
      BY <3>1, StartedTasks, SomeTasks
    <3> QED
      BY <3>1, <3>2, <3>3 DEF ButtonInv, SignInOffered, Opened
  <2> QED
    BY <2>1, InitInv, InitKinds
<1>2. Inv /\ Kinds /\ ButtonInv /\ [Next]_vars => (Inv /\ Kinds /\ ButtonInv)'
  BY StepInv, StepKinds, StepButton
<1>3. Spec => [](Inv /\ Kinds /\ ButtonInv)
  BY <1>1, <1>2, PTL DEF Spec
<1>4. ButtonInv => SignInOffered
  BY DEF ButtonInv
<1> QED
  BY <1>3, <1>4, PTL

-----------------------------------------------------------------------------
(* Where the accounts of cookies and refreshes come from. *)

\* A sign-in keeps its account.
LEMMA UsersStay ==
  ASSUME Inv, [Next]_vars, NEW f \in SignIns, session[f].user # Nobody
  PROVE  session'[f].user = session[f].user
<1>1. ASSUME NEW g, NEW n, session' = [session EXCEPT ![g].token = n]
      PROVE  session'[f].user = session[f].user
  BY <1>1 DEF Inv, ServerOK
<1>2. ASSUME NEW s \in Swaps, Rotate(s) \/ Refuse(s)
      PROVE  session'[f].user = session[f].user
  <2>1. PICK g : g = swap[s].sent.signin
    OBVIOUS
  <2>2. CASE UNCHANGED session
    BY <2>2
  <2>3. CASE \E n : session' = [session EXCEPT ![g].token = n]
    BY <1>1, <2>3
  <2> QED
    BY <1>2, <2>1, <2>2, <2>3 DEF Rotate, Refuse
<1>3. ASSUME NEW u \in Users, Enter(u)
      PROVE  session'[f].user = session[f].user
  <2>1. PICK g \in SignIns : /\ session[g].user = Nobody
                             /\ session' = [session EXCEPT ![g] = [user |-> u, token |-> nextToken]]
    BY <1>3 DEF Enter
  <2>2. g # f
    BY <2>1
  <2> QED
    BY <2>1, <2>2 DEF Inv, ServerOK
<1>4. CASE Leave
  <2>1. PICK c : c = task["logout"].cookie
    OBVIOUS
  <2>2. PICK g : g = c.signin
    OBVIOUS
  <2>3. session' = session \/ session' = [session EXCEPT ![g].token = 0]
    BY <1>4, <2>1, <2>2 DEF Leave
  <2> QED
    BY <1>1, <2>3
<1>5. ASSUME NEW w \in Work, Delete(w)
      PROVE  session'[f].user = session[f].user
  BY <1>5 DEF Delete, Inv, ServerOK
<1> QED
  BY <1>2, <1>3, <1>4, <1>5
     DEF Next, vars, SwapStep, SwapGranted, SwapRefused, SwapThrows, MeStep, Me, Denied, Throws,
         SignInStep, Entered, Ask, Done, Erase, Erased, SignIn, Redirect, ToLogin, ToApp,
         BackToSignIn, LogOut, Left, LeaveThrows, Load, server

\* What a refresh has it had before; or it has the browser's cookie, or the
\* successor of the one it was sent with.
SentFrom(s) ==
  \/ swap[s].at = "sent" /\ swap'[s].sent = swap[s].sent
  \/ swap[s].at = "idle" /\ swap'[s].sent = cookie

GrantedFrom(s) ==
  \/ swap[s].at = "granted" /\ swap'[s].got = swap[s].got /\ swap'[s].user = swap[s].user
  \/ LET f == swap[s].sent.signin
     IN  /\ swap[s].at = "sent" /\ f \in SignIns
         /\ swap'[s].got.signin = f /\ swap'[s].user = session[f].user

SwapFrom(s) ==
  /\ swap'[s].at = "sent" => SentFrom(s)
  /\ swap'[s].at = "granted" => GrantedFrom(s)
  /\ "crossed" \notin odd /\ swap[s].at # "idle" /\ ~ swap'[s].stale /\ swap'[s].at # "idle"
       => ~ swap[s].stale

LEMMA SwapEnded ==
  ASSUME Inv, NEW s \in Swaps, SwapGranted(s) \/ SwapRefused(s) \/ SwapThrows(s)
  PROVE  \A x \in Swaps : swap'[x].at = "idle"
<1>1. Pending(s)
  BY DEF SwapGranted, SwapRefused, SwapThrows, Pending
<1>2. Inv'
  BY GrantedKeeps, RefusedKeeps, SwapThrowsKeeps
<1>3. refreshing' = 0
  BY <1>1 DEF SwapGranted, SwapRefused, SwapThrows, DropPromise, Inv, SwapOK
<1> QED
  BY <1>2, <1>3, FirstSwap DEF Inv, SwapOK, Pending

LEMMA SwapFlow ==
  ASSUME Inv, [Next]_vars, ~ \E magic \in BOOLEAN : Load(magic), NEW x \in Swaps
  PROVE  SwapFrom(x)
<1>1. CASE UNCHANGED swap
  BY <1>1 DEF SwapFrom, SentFrom, GrantedFrom
<1>2. ASSUME NEW s \in Swaps, Rotate(s)
      PROVE  SwapFrom(x)
  <2>1. CASE x # s
    BY <1>2, <2>1 DEF Rotate, SwapFrom, SentFrom, GrantedFrom, Inv, SwapOK
  <2>2. CASE x = s
    <3>1. PICK f : f = swap[s].sent.signin
      OBVIOUS
    <3>2. f \in SignIns
      BY <1>2, <3>1 DEF Inv, SwapOK, Swap, Rotate, Cookie, NoCookie
    <3>3. PICK c : c = [signin |-> f, token |-> nextToken]
      OBVIOUS
    <3>4. PICK u : u = session[f].user
      OBVIOUS
    <3>5. PICK w : w = [swap[s] EXCEPT !.at = "granted", !.sent = NoCookie, !.user = u, !.got = c]
      OBVIOUS
    <3>6. w.at = "granted" /\ w.user = u /\ w.got.signin = f /\ w.stale = swap[s].stale
      BY <3>3, <3>5 DEF Inv, SwapOK, Swap
    <3>7. swap'[s] = w
      <4>1. swap' = [swap EXCEPT ![s] = w]
        BY <1>2, <3>1, <3>3, <3>4, <3>5, Zenon DEF Rotate, Minted
      <4> QED
        BY <4>1 DEF Inv, SwapOK
    <3>8. swap[s].at = "sent"
      BY <1>2 DEF Rotate
    <3> QED
      BY <2>2, <3>1, <3>2, <3>4, <3>6, <3>7, <3>8 DEF SwapFrom, GrantedFrom
  <2> QED
    BY <2>1, <2>2
<1>3. ASSUME NEW s \in Swaps, Refuse(s)
      PROVE  SwapFrom(x)
  <2>1. PICK w : w = [swap[s] EXCEPT !.at = "refused", !.sent = NoCookie]
    OBVIOUS
  <2>2. swap' = [swap EXCEPT ![s] = w]
    BY <1>3, <2>1, Zenon DEF Refuse
  <2>3. w.at = "refused" /\ w.stale = swap[s].stale
    BY <2>1 DEF Inv, SwapOK, Swap
  <2> QED
    BY <2>2, <2>3 DEF SwapFrom, SentFrom, GrantedFrom, Inv, SwapOK
<1>4. ASSUME NEW s \in Swaps, SwapGranted(s) \/ SwapRefused(s) \/ SwapThrows(s)
      PROVE  SwapFrom(x)
  BY <1>4, SwapEnded DEF SwapFrom
<1>5. ASSUME NEW t \in Tasks, Denied(t)
      PROVE  SwapFrom(x)
  <2>1. CASE refreshing # 0
    <3>1. swap' = swap
      BY <1>5, <2>1, RefreshShared DEF Denied, Inv
    <3> QED
      BY <1>1, <3>1
  <2>2. CASE refreshing = 0
    <3>1. PICK w : w = [IdleSwap EXCEPT !.at = "sent", !.sent = cookie]
      OBVIOUS
    <3>2. w.at = "sent" /\ w.sent = cookie
      BY <3>1 DEF IdleSwap
    <3>3. refreshing' \in Swaps /\ swap' = [swap EXCEPT ![refreshing'] = w]
      BY <1>5, <2>2, <3>1, RefreshShared DEF Denied, Inv
    <3>4. \A s \in Swaps : swap[s].at = "idle"
      BY <1>5, <2>2, RefreshShared DEF Denied, Inv
    <3> QED
      BY <3>2, <3>3, <3>4 DEF SwapFrom, SentFrom, Inv, SwapOK
  <2> QED
    BY <2>1, <2>2
<1>6. CASE Entered \/ Left
  <2>1. PICK X : X = StaleSwaps
    OBVIOUS
  <2>2. swap' = X
    BY <1>6, <2>1 DEF Entered, Left
  <2>3. /\ X[x].at = swap[x].at /\ X[x].sent = swap[x].sent /\ X[x].got = swap[x].got
        /\ X[x].user = swap[x].user
    BY <2>1, StaleSwapsTypes DEF Inv
  <2>4. X[x].stale = (Pending(x) /\ "crossed" \notin odd)
    BY <2>1 DEF StaleSwaps, Inv, SwapOK, Swap
  <2> QED
    BY <2>2, <2>3, <2>4 DEF SwapFrom, SentFrom, GrantedFrom, Pending
<1> QED
  BY <1>1, <1>2, <1>3, <1>4, <1>5, <1>6, SomeTasks
     DEF Next, vars, SwapStep, MeStep, Me, Throws, SignInStep, Enter, Ask, Done, Erase,
         Delete, Erased, SignIn, Redirect, ToLogin, ToApp, BackToSignIn, LogOut, Leave,
         LeaveThrows

\* A cookie is one that an answer brings, or is taken away.
LEMMA CookieFlow ==
  ASSUME [Next]_vars, ~ \E magic \in BOOLEAN : Load(magic)
  PROVE  \/ cookie' \in {cookie, NoCookie}
         \/ \E s \in Swaps : SwapGranted(s) /\ cookie' = swap[s].got
         \/ Entered /\ cookie' = task["signin"].cookie
BY DEF Next, vars, SwapStep, Rotate, Refuse, SwapGranted, SwapRefused, SwapThrows, MeStep, Me,
       Denied, Throws, SignInStep, Enter, Entered, Ask, Done, Erase, Delete, Erased, SignIn,
       Redirect, ToLogin, ToApp, BackToSignIn, LogOut, Leave, Left, LeaveThrows, server

LEMMA BegunKept ==
  ASSUME Inv, [Next]_vars, NEW c \in SomeCookie, Begun(c)
  PROVE  Begun(c)'
BY CookieType, UsersStay DEF Begun

LEMMA StepBegun ==
  ASSUME Inv, Kinds, AllBegun, [Next]_vars
  PROVE  AllBegun'
<1>1. /\ cookie \in SomeCookie
      /\ \A s \in Swaps : swap[s].sent \in SomeCookie /\ swap[s].got \in SomeCookie
      /\ Entry => task["signin"].cookie \in SomeCookie
  BY SomeTasks DEF Inv, ClientOK, SwapOK, Swap, TaskOK, Entry, SomeCookie
<1>2. ASSUME NEW magic \in BOOLEAN, Load(magic)
      PROVE  AllBegun'
  <2>1. PICK c \in Cookies : cookie' = c /\ swap' = Booting(c) /\ task' = Started(magic)
    BY <1>2 DEF Load
  <2>2. c \in SomeCookie
    BY CookiesType
  <2>3. \A t \in Tasks : task[t].doing = "enter" => t = "signin"
    <3>1. TAKE t \in Tasks
    <3> QED
      BY DEF Kinds, Kind
  <2>4. Begun(c)
    <3>1. CASE c = cookie \/ c = NoCookie
      BY <3>1, Constants DEF AllBegun, Begun
    <3>2. CASE \E s \in Swaps : swap[s].at = "granted" /\ c = swap[s].got
      BY <3>2 DEF AllBegun
    <3>3. CASE Entry /\ c = task["signin"].cookie
      BY <3>3 DEF AllBegun
    <3> QED
      BY <2>1, <2>3, <3>1, <3>2, <3>3 DEF Cookies, Entry
  <2>5. Begun(c)'
    BY <2>2, <2>4, BegunKept
  <2>6. \A s \in Swaps : swap'[s].at # "granted" /\ (swap'[s].at = "sent" => swap'[s].sent = c)
    BY <2>1, <2>2, LoadedOK
  <2>7. ~ Entry'
    BY <2>1, <2>2, LoadedOK, SomeTasks DEF Entry
  <2> QED
    BY <2>1, <2>5, <2>6, <2>7 DEF AllBegun, Begun
<1>3. SUFFICES ASSUME ~ \E magic \in BOOLEAN : Load(magic) PROVE AllBegun'
  BY <1>2
<1>4. \A c \in SomeCookie : Begun(c) => Begun(c)'
  BY BegunKept
<1>5. Begun(cookie)'
  <2>1. PICK d : d = cookie'
    OBVIOUS
  <2>2. d \in SomeCookie /\ Begun(d)
    <3>1. CASE cookie' \in {cookie, NoCookie}
      BY <1>1, <2>1, <3>1, Constants DEF AllBegun, Begun
    <3>2. CASE \E s \in Swaps : SwapGranted(s) /\ cookie' = swap[s].got
      BY <1>1, <2>1, <3>2 DEF AllBegun, SwapGranted
    <3>3. CASE Entered /\ cookie' = task["signin"].cookie
      BY <1>1, <2>1, <3>3 DEF AllBegun, Entered, Entry
    <3> QED
      BY <1>3, <3>1, <3>2, <3>3, CookieFlow
  <2>3. Begun(d)'
    BY <1>4, <2>2
  <2> QED
    BY <2>1, <2>3 DEF Begun
<1>6. ASSUME NEW s \in Swaps
      PROVE  /\ swap'[s].at = "sent" => Begun(swap[s].sent)'
             /\ swap'[s].at = "granted" => Begun(swap[s].got)'
  <2>1. CASE swap'[s].at = "sent"
    <3>1. SentFrom(s)
      BY <1>3, <2>1, SwapFlow DEF SwapFrom
    <3>2. PICK d \in SomeCookie : Begun(d) /\ swap'[s].sent = d
      BY <1>1, <3>1 DEF SentFrom, AllBegun
    <3>3. Begun(d)'
      BY <1>4, <3>2
    <3> QED
      BY <2>1, <3>2, <3>3 DEF Begun
  <2>2. CASE swap'[s].at = "granted"
    <3>1. GrantedFrom(s)
      BY <1>3, <2>2, SwapFlow DEF SwapFrom
    <3>2. PICK d \in SomeCookie : Begun(d) /\ swap'[s].got.signin = d.signin
      BY <1>1, <3>1 DEF GrantedFrom, AllBegun
    <3>3. Begun(d)'
      BY <1>4, <3>2
    <3> QED
      BY <2>2, <3>2, <3>3 DEF Begun
  <2> QED
    BY <2>1, <2>2
<1>7. Entry' => Begun(task["signin"].cookie)'
  <2>1. CASE ~ \E u \in Users : Enter(u)
    <3>1. SUFFICES ASSUME Entry, task'["signin"].cookie = task["signin"].cookie
                   PROVE  Begun(task["signin"].cookie)'
      BY <2>1, EntryKept
    <3>2. PICK d : d = task["signin"].cookie
      OBVIOUS
    <3>3. Begun(d)'
      BY <1>1, <1>4, <3>1, <3>2 DEF AllBegun
    <3> QED
      BY <3>1, <3>2, <3>3 DEF Begun
  <2>2. ASSUME NEW u \in Users, Enter(u)
        PROVE  Begun(task["signin"].cookie)'
    <3>1. PICK f \in SignIns :
            /\ session' = [session EXCEPT ![f] = [user |-> u, token |-> nextToken]]
            /\ task' = [task EXCEPT !["signin"].at = "acted",
                                    !["signin"].cookie = [signin |-> f, token |-> nextToken]]
      BY <2>2 DEF Enter
    <3>2. PICK c : c = [signin |-> f, token |-> nextToken]
      OBVIOUS
    <3>3. PICK w : w = [task["signin"] EXCEPT !.at = "acted", !.cookie = c]
      OBVIOUS
    <3>4. task' = [task EXCEPT !["signin"] = w]
      BY <3>1, <3>2, <3>3, Zenon
    <3>5. task["signin"] \in Task
      BY SomeTasks DEF Inv, TaskOK
    <3>6. w.cookie = c
      BY <3>3, <3>5 DEF Task
    <3>7. task'["signin"].cookie.signin = f
      <4>1. task'["signin"] = w
        BY <3>4, PutTask, SomeTasks
      <4> QED
        BY <3>2, <3>6, <4>1
    <3>8. session'[f].user = u /\ u # Nobody
      BY <3>1, WebSessionAssumption DEF Inv, ServerOK
    <3> QED
      BY <3>7, <3>8 DEF Begun
  <2> QED
    BY <2>1, <2>2
<1> QED
  <2>1. \A s \in Swaps : /\ swap'[s].at = "sent" => Begun(swap[s].sent)'
                         /\ swap'[s].at = "granted" => Begun(swap[s].got)'
    BY <1>6
  <2> QED
    BY <1>5, <1>7, <2>1 DEF AllBegun, Begun

-----------------------------------------------------------------------------
(***************************************************************************)
(* Whose tab it is.  As long as no answer has crossed, one account a holds *)
(* the tab: the token, the cookie, and every refresh and request of which  *)
(* the account has not changed since are a's, or nobody's; and what is     *)
(* shown is a, with a's token, unless a log-out that failed has dropped it.*)
(* After a log-out a is Nobody.  A sign-in hands the tab to another        *)
(* account, by marking as stale whatever is under way.                     *)
(***************************************************************************)
Of(a, c) == c.signin # 0 => session[c.signin].user = a

Ready(a) == access = a \/ "half out" \in odd

SwapOf(a, s) ==
  ~ swap[s].stale =>
    /\ swap[s].at = "sent" => Of(a, swap[s].sent)
    /\ swap[s].at = "granted" => swap[s].user = a /\ Of(a, swap[s].got)

\* The account of a sign-in is shown as soon as me has answered.
TaskOf(a, t) ==
  ~ Idle(t) /\ ~ task[t].stale =>
    /\ task[t].token \in {a, Nobody}
    /\ t \in Work => task[t].as = a
    /\ task[t].doing = "me" /\ task[t].token # Nobody => Ready(a)

HeldBy(a) ==
  /\ access \in {a, Nobody} /\ Of(a, cookie)
  /\ \A s \in Swaps : SwapOf(a, s)
  /\ \A t \in Tasks : TaskOf(a, t)
  /\ status = "authed" /\ "half in" \notin odd => user = a /\ Ready(a)
  /\ "left" \in odd => a = Nobody

Held == "crossed" \in odd \/ \E a \in Anyone : HeldBy(a)

LEMMA HeldActs == Inv /\ Held => TokenIsUsers /\ ActsAsShown
<1> SUFFICES ASSUME Inv, Held, "crossed" \notin odd PROVE TokenIsUsers /\ ActsAsShown
  BY DEF TokenIsUsers, ActsAsShown
<1>1. PICK a \in Anyone : HeldBy(a)
  BY DEF Held
<1>2. TokenIsUsers
  BY <1>1 DEF TokenIsUsers, HeldBy, Ready
<1>3. ActsAsShown
  BY <1>1, SomeTasks DEF ActsAsShown, HeldBy, TaskOf
<1> QED
  BY <1>2, <1>3

LEMMA NotedSame == \A o : "crossed" \notin Noted(o) => Noted(o) = o
BY DEF Noted

LEMMA OfKept ==
  ASSUME Inv, [Next]_vars, NEW c \in SomeCookie, Begun(c), NEW a, Of(a, c)
  PROVE  Of(a, c)'
BY CookieType, UsersStay DEF Begun, Of

\* Refreshes stay a's when nothing changes the account.
LEMMA SwapsStay ==
  ASSUME Inv, AllBegun, [Next]_vars, ~ \E magic \in BOOLEAN : Load(magic),
         "crossed" \notin odd, NEW a, HeldBy(a), NEW s \in Swaps
  PROVE  SwapOf(a, s)'
<1>1. /\ cookie \in SomeCookie /\ Begun(cookie) /\ Of(a, cookie)
      /\ swap[s].sent \in SomeCookie /\ swap[s].got \in SomeCookie
  BY DEF Inv, ClientOK, SwapOK, Swap, SomeCookie, AllBegun, HeldBy
<1>2. SwapFrom(s)
  BY SwapFlow
<1>3. SUFFICES ASSUME ~ swap'[s].stale
               PROVE  /\ swap'[s].at = "sent" => Of(a, swap[s].sent)'
                      /\ swap'[s].at = "granted" => swap'[s].user = a /\ Of(a, swap[s].got)'
  BY DEF SwapOf
<1>4. SwapOf(a, s)
  BY DEF HeldBy
<1>5. CASE swap'[s].at = "sent"
  <2>1. PICK d \in SomeCookie : Begun(d) /\ Of(a, d) /\ swap'[s].sent = d
    <3>1. CASE swap[s].at = "sent" /\ swap'[s].sent = swap[s].sent
      BY <1>1, <1>2, <1>3, <1>4, <1>5, <3>1 DEF SwapFrom, SwapOf, AllBegun
    <3>2. CASE swap[s].at = "idle" /\ swap'[s].sent = cookie
      BY <1>1, <3>2
    <3> QED
      BY <1>2, <1>5, <3>1, <3>2 DEF SwapFrom, SentFrom
  <2>2. Of(a, d)'
    BY <2>1, OfKept
  <2> QED
    BY <1>5, <2>1, <2>2 DEF Of
<1>6. CASE swap'[s].at = "granted"
  <2>1. PICK d \in SomeCookie : /\ Begun(d) /\ Of(a, d) /\ swap'[s].got.signin = d.signin
                                /\ swap'[s].user = a
    <3>1. CASE swap[s].at = "granted" /\ swap'[s].got = swap[s].got /\ swap'[s].user = swap[s].user
      BY <1>1, <1>2, <1>3, <1>4, <1>6, <3>1 DEF SwapFrom, SwapOf, AllBegun
    <3>2. CASE LET f == swap[s].sent.signin
               IN  /\ swap[s].at = "sent" /\ f \in SignIns
                   /\ swap'[s].got.signin = f /\ swap'[s].user = session[f].user
      <4>1. swap[s].sent.signin # 0
        BY <3>2, FirstSwap DEF SignIns
      <4>2. Begun(swap[s].sent) /\ Of(a, swap[s].sent)
        BY <1>2, <1>3, <1>4, <1>6, <3>2 DEF SwapFrom, SwapOf, AllBegun
      <4> QED
        BY <1>1, <3>2, <4>1, <4>2 DEF Of
    <3> QED
      BY <1>2, <1>6, <3>1, <3>2 DEF SwapFrom, GrantedFrom
  <2>2. Of(a, d)'
    BY <2>1, OfKept
  <2> QED
    BY <1>6, <2>1, <2>2 DEF Of
<1> QED
  BY <1>5, <1>6

\* A step that leaves the tab to a.
LEMMA HeldStays ==
  ASSUME Inv, AllBegun, [Next]_vars, ~ \E magic \in BOOLEAN : Load(magic),
         "crossed" \notin odd, NEW a \in Anyone, HeldBy(a),
         access' \in {a, Nobody}, cookie' \in {cookie, NoCookie} \/ Of(a, cookie)',
         \A t \in Tasks : TaskOf(a, t)',
         status' = "authed" /\ "half in" \notin odd' =>
           Ready(a)' /\ (user' = a \/ (status = "authed" /\ "half in" \notin odd /\ user' = user)),
         "left" \in odd' => "left" \in odd
  PROVE  Held'
<1>1. Of(a, cookie)'
  <2>1. cookie \in SomeCookie /\ Begun(cookie) /\ Of(a, cookie)
    BY DEF Inv, ClientOK, AllBegun, HeldBy
  <2>2. CASE cookie' = NoCookie
    BY <2>2, Constants DEF Of
  <2>3. CASE cookie' = cookie
    <3>1. PICK d : d = cookie
      OBVIOUS
    <3>2. Of(a, d)'
      BY <2>1, <3>1, OfKept
    <3> QED
      BY <2>3, <3>1, <3>2 DEF Of
  <2> QED
    BY <2>2, <2>3
<1>2. \A s \in Swaps : SwapOf(a, s)'
  BY SwapsStay
<1>3. a \in Anyone' /\ ("left" \in odd' => a = Nobody)
  BY DEF HeldBy, Anyone
<1>4. status' = "authed" /\ "half in" \notin odd' => user' = a /\ Ready(a)'
  BY DEF HeldBy
<1>5. HeldBy(a)'
  BY <1>1, <1>2, <1>3, <1>4 DEF HeldBy
<1> QED
  BY <1>3, <1>5 DEF Held

LEMMA TaskStays ==
  ASSUME NEW a, NEW t \in Tasks, TaskOf(a, t), Ready(a) => Ready(a)',
         \/ task'[t].doing = "nothing" \/ task'[t] = task[t]
         \/ Moved(task[t], task'[t]) /\ task'[t].token \in {task[t].token, Nobody}
  PROVE  TaskOf(a, t)'
BY DEF TaskOf, Moved, Idle

\* A step that hands the tab to b: what was under way before it is stale.
LEMMA HeldAnew ==
  ASSUME Inv, "crossed" \notin odd, NEW b \in Anyone, access' \in {b, Nobody}, Of(b, cookie)',
         \A s \in Swaps : swap'[s].at = "idle" \/ swap'[s].stale,
         \A t \in Tasks : TaskOf(b, t)',
         status' = "anon" \/ "half in" \in odd', "left" \in odd' => b = Nobody
  PROVE  Held'
<1>1. \A s \in Swaps : SwapOf(b, s)'
  BY DEF SwapOf
<1>2. HeldBy(b)'
  BY <1>1 DEF HeldBy
<1> QED
  BY <1>2 DEF Held, Anyone

LEMMA RefusedHeld ==
  ASSUME Inv, AllBegun, "crossed" \notin odd, NEW a \in Anyone, HeldBy(a),
         NEW s \in Swaps, SwapRefused(s), "crossed" \notin odd'
  PROVE  Held'
<1>1. ASSUME NEW t \in Tasks
      PROVE  TaskOf(a, t)'
  BY <1>1, RefusedTasks DEF Marked, TaskOf, Idle
<1>2. \A x \in Swaps : swap'[x].at = "idle"
  BY SwapEnded
<1>3. "left" \in odd' => a = Nobody
  <2>1. PICK p : odd' = Noted((odd \ {"half in"}) \cup p) /\ p \in {{"crossed"}, {}}
    BY DEF SwapRefused
  <2> QED
    BY <2>1, NotedSame DEF HeldBy
<1>4. Of(a, cookie)'
  BY DEF SwapRefused, server, HeldBy, Of
<1>5. access' = Nobody /\ status' = "anon"
  BY DEF SwapRefused, SignedOut, Thrown
<1> QED
  BY <1>1, <1>2, <1>3, <1>4, <1>5, HeldAnew

LEMMA StaleSwapsAre ==
  ASSUME Inv, "crossed" \notin odd, swap' = StaleSwaps, NEW s \in Swaps
  PROVE  swap'[s].at = "idle" \/ swap'[s].stale
<1>1. StaleSwaps[s].at = swap[s].at
  BY StaleSwapsTypes DEF Inv
<1>2. StaleSwaps[s].stale = (Pending(s) /\ "crossed" \notin odd)
  BY DEF StaleSwaps, Inv, SwapOK, Swap
<1> QED
  BY <1>1, <1>2 DEF Pending

LEMMA LeftHeld ==
  ASSUME Inv, "crossed" \notin odd, Left
  PROVE  Held'
<1>1. ASSUME NEW t \in Tasks
      PROVE  TaskOf(Nobody, t)'
  BY LeftTasks, NoTaskIs DEF Marked, TaskOf, Idle
<1>2. \A s \in Swaps : swap'[s].at = "idle" \/ swap'[s].stale
  BY StaleSwapsAre DEF Left
<1>3. Of(Nobody, cookie)'
  BY Constants DEF Left, Of
<1>4. access' = Nobody /\ status' = "anon"
  BY DEF Left, ClearSession
<1> QED
  BY <1>1, <1>2, <1>3, <1>4, HeldAnew, Constants

LEMMA EnteredHeld ==
  ASSUME Inv, AllBegun, "crossed" \notin odd, Entered, "crossed" \notin odd'
  PROVE  Held'
<1>1. PICK c : c = task["signin"].cookie
  OBVIOUS
<1>2. c \in Cookie /\ c.signin \in SignIns
  BY <1>1, SomeTasks DEF Inv, TaskOK, Entered, Cookie
<1>3. PICK b : b = session[c.signin].user
  OBVIOUS
<1>4. b \in Anyone
  BY <1>2, <1>3 DEF Inv, ServerOK
<1>5. access' = b /\ cookie' = c /\ session' = session
  BY <1>1, <1>3 DEF Entered, SetSession, server
<1>6. odd' = (odd \ {"left", "half out"}) \cup {"half in"}
  <2>1. PICK o : o = (odd \ {"left", "half out"}) \cup {"half in"}
    OBVIOUS
  <2> QED
    BY <2>1, NotedSame DEF Entered
<1>7. ASSUME NEW t \in Tasks
      PROVE  TaskOf(b, t)'
  <2>1. CASE t = "signin"
    BY <1>5, <2>1, EnteredTasks, SomeTasks DEF TaskOf, Ready
  <2>2. CASE t # "signin"
    BY <2>2, EnteredTasks DEF Marked, TaskOf, Idle
  <2> QED
    BY <2>1, <2>2
<1>8. \A s \in Swaps : swap'[s].at = "idle" \/ swap'[s].stale
  BY StaleSwapsAre DEF Entered
<1>9. Of(b, cookie)'
  BY <1>3, <1>5 DEF Of
<1> QED
  BY <1>4, <1>5, <1>6, <1>7, <1>8, <1>9, HeldAnew

\* A page that boots is whose cookie the browser has.
LEMMA LoadedHeld ==
  ASSUME Inv, NEW c \in SomeCookie, NEW magic \in BOOLEAN, cookie = c, swap = Booting(c),
         task = Started(magic), access = Nobody, status = "loading", "left" \notin odd
  PROVE  Held
<1>1. PICK b \in Anyone : Of(b, c)
  BY CookieType, Constants DEF Of, Inv, ServerOK
<1>2. \A s \in Swaps : SwapOf(b, s)
  <2>1. \A s \in Swaps : swap[s].at # "granted" /\ (swap[s].at = "sent" => swap[s].sent = c)
    BY LoadedOK
  <2> QED
    BY <1>1, <2>1 DEF SwapOf
<1>3. \A t \in Tasks : TaskOf(b, t)
  <2>1. TAKE t \in Tasks
  <2>2. task[t].token = Nobody /\ (t \in Work => task[t].doing = "nothing")
    BY StartedTasks, SomeTasks
  <2> QED
    BY <2>2 DEF TaskOf, Idle
<1> QED
  BY <1>1, <1>2, <1>3 DEF HeldBy, Held

LEMMA LoadHeld ==
  ASSUME Inv, NEW magic \in BOOLEAN, Load(magic)
  PROVE  Held'
<1>1. PICK c \in Cookies :
        /\ cookie' = c /\ swap' = Booting(c)
        /\ odd' = Noted((odd \cap {"lost", "reused"}) \cup IF Cookies = {c} THEN {} ELSE {"lost"})
  BY DEF Load
<1>2. c \in SomeCookie
  BY CookiesType
<1>3. "left" \notin odd'
  BY <1>1 DEF Noted
<1>4. task' = Started(magic) /\ access' = Nobody /\ status' = "loading" /\ session' = session
  BY DEF Load, server
<1>5. PICK b \in Anyone : Of(b, c)'
  BY <1>2, <1>4, CookieType, Constants DEF Of, Inv, ServerOK
<1>6. \A s \in Swaps : SwapOf(b, s)'
  <2>1. \A s \in Swaps : swap'[s].at # "granted" /\ (swap'[s].at = "sent" => swap'[s].sent = c)
    BY <1>1, <1>2, LoadedOK
  <2> QED
    BY <1>5, <2>1 DEF SwapOf, Of
<1>7. \A t \in Tasks : TaskOf(b, t)'
  <2>1. TAKE t \in Tasks
  <2>2. task'[t].token = Nobody /\ (t \in Work => task'[t].doing = "nothing")
    BY <1>4, StartedTasks, SomeTasks
  <2> QED
    BY <2>2 DEF TaskOf, Idle
<1>8. HeldBy(b)'
  BY <1>1, <1>3, <1>4, <1>5, <1>6, <1>7 DEF HeldBy, Of
<1> QED
  BY <1>8 DEF Held, Anyone

LEMMA GrantedHeld ==
  ASSUME Inv, Kinds, AllBegun, [Next]_vars, ~ \E magic \in BOOLEAN : Load(magic),
         "crossed" \notin odd, NEW a \in Anyone, HeldBy(a),
         NEW s \in Swaps, SwapGranted(s), "crossed" \notin odd'
  PROVE  Held'
<1>1. ~ swap[s].stale /\ odd' = odd \ {"half out"}
  <2>1. PICK o : o = (odd \ {"half out"}) \cup IF swap[s].stale THEN {"crossed"} ELSE {}
    OBVIOUS
  <2> QED
    BY <2>1, NotedSame DEF SwapGranted
<1>2. swap[s].user = a /\ Of(a, swap[s].got) /\ Begun(swap[s].got) /\ swap[s].got \in SomeCookie
  BY <1>1 DEF HeldBy, SwapOf, SwapGranted, AllBegun, Inv, SwapOK, Swap, SomeCookie
<1>3. Of(a, cookie)'
  <2>1. PICK d : d = swap[s].got
    OBVIOUS
  <2>2. Of(a, d)'
    BY <1>2, <2>1, OfKept
  <2> QED
    BY <2>1, <2>2 DEF SwapGranted, Of
<1>4. access' = a /\ Ready(a)'
  BY <1>2 DEF SwapGranted, Ready
<1>5. ASSUME NEW t \in Tasks
      PROVE  TaskOf(a, t)'
  <2>1. TaskOf(a, t)
    BY DEF HeldBy
  <2>2. CASE task[t].at # "refresh"
    BY <1>4, <2>1, <2>2, GrantedTasks, TaskStays
  <2>3. CASE task[t].at = "refresh" /\ task[t].doing = "boot"
    <3>1. t \notin Work
      BY <2>3, KindIs DEF Kinds
    <3> QED
      BY <1>2, <1>4, <2>3, <3>1, GrantedTasks DEF TaskOf
  <2>4. CASE task[t].at = "refresh" /\ task[t].doing # "boot"
    BY <1>2, <1>4, <2>1, <2>4, GrantedTasks DEF TaskOf, Moved, Idle
  <2> QED
    BY <2>2, <2>3, <2>4
<1> QED
  BY <1>1, <1>3, <1>4, <1>5, HeldStays DEF SwapGranted, shown

LEMMA MeHeld ==
  ASSUME Inv, AllBegun, [Next]_vars, ~ \E magic \in BOOLEAN : Load(magic),
         "crossed" \notin odd, NEW a \in Anyone, HeldBy(a),
         NEW t \in Tasks, Me(t), "crossed" \notin odd'
  PROVE  Held'
<1>1. ~ task[t].stale /\ odd' = IF t = "signin" THEN odd \ {"half in"} ELSE odd
  <2>1. PICK p : p = IF t = "signin" THEN odd \ {"half in"} ELSE odd
    OBVIOUS
  <2>2. PICK o : o = p \cup IF task[t].stale THEN {"crossed"} ELSE {}
    OBVIOUS
  <2>3. odd' = Noted(o)
    BY <2>1, <2>2 DEF Me
  <2> QED
    BY <2>1, <2>2, <2>3, NotedSame
<1>2. task[t].token = a /\ Ready(a)
  BY <1>1 DEF HeldBy, TaskOf, Me, Idle
<1>3. user' = a /\ Ready(a)' /\ UNCHANGED <<access, cookie>>
  BY <1>1, <1>2 DEF Me, SetUser, Ready
<1>4. ASSUME NEW x \in Tasks
      PROVE  TaskOf(a, x)'
  BY <1>3, EndsTask, NoTaskIs, TaskStays DEF HeldBy, Others
<1>5. access' \in {a, Nobody} /\ ("left" \in odd' => "left" \in odd)
  BY <1>1, <1>3 DEF HeldBy
<1>6. \A x \in Tasks : TaskOf(a, x)'
  BY <1>4
<1>7. cookie' \in {cookie, NoCookie}
  BY <1>3
<1> QED
  BY <1>3, <1>5, <1>6, <1>7, HeldStays

LEMMA AskedIsOf ==
  ASSUME Inv, NEW w \in Work, Ask(w) \/ Erase(w), NEW a, HeldBy(a)
  PROVE  TaskOf(a, w)' /\ Others(w)
<1>1. PICK doing \in {"work", "erase"} : task' = [task EXCEPT ![w] = FetchAsShown(doing)]
  BY DEF Ask, Erase
<1>2. "half in" \notin odd => user = a
  BY DEF Ask, Erase, InApp, HeldBy
<1> QED
  BY <1>1, <1>2, AskTask, SomeTasks DEF TaskOf, HeldBy

LEMMA StepHeld ==
  ASSUME Inv, Kinds, AllBegun, Held, [Next]_vars
  PROVE  Held'
<1> USE SomeTasks
<1>1. SUFFICES ASSUME "crossed" \notin odd', ~ \E magic \in BOOLEAN : Load(magic) PROVE Held'
  BY LoadHeld DEF Held
<1>2. "crossed" \notin odd
  BY <1>1, LateKept
<1>3. PICK a \in Anyone : HeldBy(a)
  BY <1>2 DEF Held
<1>4. \A t \in Tasks : TaskOf(a, t)
  BY <1>3 DEF HeldBy
\* The notes that matter and the tab's token stay.
<1>5. ASSUME UNCHANGED <<access, user>>, cookie' \in {cookie, NoCookie},
             status' = "authed" => status = "authed",
             \A x \in {"half in", "half out", "left"} : x \in odd' <=> x \in odd,
             \A t \in Tasks : TaskOf(a, t)'
      PROVE  Held'
  <2>1. Ready(a) => Ready(a)'
    BY <1>5 DEF Ready
  <2> QED
    BY <1>1, <1>2, <1>3, <1>5, <2>1, HeldStays DEF HeldBy
<1>6. ASSUME UNCHANGED <<cookie, access, shown, odd>>, \A t \in Tasks : TaskOf(a, t)'
      PROVE  Held'
  BY <1>5, <1>6 DEF shown
<1>7. ASSUME NEW t \in Tasks, UNCHANGED <<cookie, access, shown, odd>>, Others(t), TaskOf(a, t)'
      PROVE  Held'
  <2>1. Ready(a) => Ready(a)'
    BY <1>7 DEF Ready
  <2>2. \A x \in Tasks : TaskOf(a, x)'
    BY <1>4, <1>7, <2>1, TaskStays DEF Others
  <2> QED
    BY <1>6, <1>7, <2>2
<1>8. ASSUME UNCHANGED <<cookie, access, shown, odd, task>>
      PROVE  Held'
  <2>1. Ready(a) => Ready(a)'
    BY <1>8 DEF Ready
  <2>2. \A x \in Tasks : TaskOf(a, x)'
    BY <1>4, <1>8, <2>1, TaskStays
  <2> QED
    BY <1>6, <1>8, <2>2
<1>9. ASSUME NEW t \in Tasks, UNCHANGED <<cookie, access, shown, odd>>, Others(t),
             \/ task'[t].doing = "nothing"
             \/ Moved(task[t], task'[t]) /\ task'[t].token \in {task[t].token, Nobody}
      PROVE  Held'
  <2>1. Ready(a) => Ready(a)'
    BY <1>9 DEF Ready
  <2>2. TaskOf(a, t)'
    BY <1>4, <1>9, <2>1, TaskStays
  <2> QED
    BY <1>7, <1>9, <2>2
<1>10. ASSUME NEW s \in Swaps, SwapStep(s)
       PROVE  Held'
  <2>1. CASE Rotate(s)
    BY <1>8, <2>1 DEF Rotate
  <2>2. CASE Refuse(s)
    <3>1. PICK p : odd' = Noted(odd \cup p) /\ p \in {{"reused"}, {}}
      BY <2>2 DEF Refuse
    <3>2. odd' = odd \cup p
      BY <1>1, <3>1, NotedSame
    <3>3. Ready(a) => Ready(a)'
      BY <2>2, <3>2 DEF Ready, Refuse
    <3>4. \A t \in Tasks : TaskOf(a, t)'
      BY <1>4, <2>2, <3>3, TaskStays DEF Refuse
    <3> QED
      BY <1>5, <2>2, <3>1, <3>2, <3>4 DEF Refuse, shown
  <2>3. CASE SwapThrows(s)
    <3>1. PICK q, r : /\ q = (IF swap[s].at = "granted" THEN {"lost"} ELSE {})
                      /\ r = (IF BootWaits(s) /\ task["boot"].stale THEN {"crossed"} ELSE {})
      OBVIOUS
    <3>2. odd' = odd \cup q \cup r
      <4>1. odd' = Noted(odd \cup q \cup r)
        BY <2>3, <3>1 DEF SwapThrows
      <4> QED
        BY <1>1, <4>1, NotedSame
    <3>3. Ready(a) => Ready(a)'
      BY <2>3, <3>2 DEF Ready, SwapThrows
    <3>4. \A t \in Tasks : TaskOf(a, t)'
      BY <1>4, <2>3, <3>3, TaskStays, SwapThrowsTasks, NoTaskIs DEF Remains
    <3>5. status' = "authed" => status = "authed"
      BY <2>3 DEF SwapThrows, Thrown, BootCaught
    <3> QED
      BY <1>5, <2>3, <3>1, <3>2, <3>4, <3>5 DEF SwapThrows
  <2> QED
    BY <1>1, <1>2, <1>3, <1>10, <2>1, <2>2, <2>3, GrantedHeld, RefusedHeld DEF SwapStep
<1>11. ASSUME NEW t \in Tasks, Throws(t)
       PROVE  Held'
  <2>1. PICK q, r : /\ q = (IF task[t].at = "acted" THEN {"lost"} ELSE {})
                    /\ r = (IF t = "boot" /\ task[t].stale THEN {"crossed"} ELSE {})
    OBVIOUS
  <2>2. odd' = odd \cup q \cup r
    <3>1. odd' = Noted(odd \cup q \cup r)
      BY <1>11, <2>1 DEF Throws
    <3> QED
      BY <1>1, <3>1, NotedSame
  <2>3. Ready(a) => Ready(a)'
    BY <1>11, <2>2 DEF Ready, Throws
  <2>4. \A x \in Tasks : TaskOf(a, x)'
    BY <1>4, <1>11, <2>3, TaskStays, EndsTask, NoTaskIs DEF Others
  <2>5. status' = "authed" => status = "authed"
    BY <1>11 DEF Throws, Thrown
  <2> QED
    BY <1>5, <1>11, <2>1, <2>2, <2>4, <2>5 DEF Throws
<1>12. ASSUME NEW t \in Tasks, Denied(t) \/ Done(t)
       PROVE  Held'
  BY <1>9, <1>12, DeniedTask, EndsTask, NoTaskIs DEF Denied, Done
<1>13. ASSUME NEW t \in Tasks, Me(t)
       PROVE  Held'
  BY <1>1, <1>2, <1>3, <1>13, MeHeld
<1>14. CASE SignIn
  <2>1. TaskOf(a, "signin")'
    BY <1>14, SignInTask, NoTaskIs DEF TaskOf
  <2> QED
    BY <1>7, <1>14, <2>1, SignInTask DEF SignIn
<1>15. ASSUME NEW u \in Users, Enter(u)
       PROVE  Held'
  BY <1>9, <1>15, EnterTask DEF Enter
<1>16. CASE Entered
  BY <1>1, <1>2, <1>16, EnteredHeld
<1>17. ASSUME NEW w \in Work, Ask(w) \/ Erase(w)
       PROVE  Held'
  BY <1>3, <1>7, <1>17, AskedIsOf DEF Ask, Erase
<1>18. ASSUME NEW w \in Work, Delete(w)
       PROVE  Held'
  BY <1>9, <1>18, DeleteTask DEF Delete
<1>19. ASSUME NEW w \in Work, Erased(w)
       PROVE  Held'
  <2>1. Ready(a) => Ready(a)'
    BY <1>19 DEF Ready, Erased
  <2>2. \A t \in Tasks : t # "logout" => TaskOf(a, t)'
    BY <1>4, <1>19, <2>1, TaskStays, ErasedTasks, NoTaskIs
  <2>3. TaskOf(a, "logout")'
    BY <1>19, ErasedTasks DEF TaskOf
  <2> QED
    BY <1>5, <1>19, <2>2, <2>3 DEF Erased, shown
<1>20. CASE LogOut
  <2>1. TaskOf(a, "logout")'
    BY <1>20, LogOutTask DEF TaskOf
  <2> QED
    BY <1>7, <1>20, <2>1, LogOutTask DEF LogOut
<1>21. CASE Leave
  BY <1>9, <1>21, LeaveTask DEF Leave
<1>22. CASE Left
  BY <1>2, <1>22, LeftHeld
<1>23. CASE LeaveThrows
  <2>1. PICK p : p = IF task["logout"].as # Nobody THEN {"kept"} ELSE {}
    OBVIOUS
  <2>2. odd' = odd \cup {"half out"} \cup p
    <3>1. odd' = Noted(odd \cup {"half out"} \cup p)
      BY <1>23, <2>1 DEF LeaveThrows
    <3> QED
      BY <1>1, <3>1, NotedSame
  <2>3. Ready(a)'
    BY <2>2 DEF Ready
  <2>4. \A t \in Tasks : TaskOf(a, t)'
    BY <1>4, <1>23, <2>3, TaskStays, LeaveThrowsTask, NoTaskIs DEF Others
  <2>5. access' = Nobody /\ UNCHANGED <<cookie, user, status>>
    BY <1>23 DEF LeaveThrows, shown
  <2> QED
    BY <1>1, <1>2, <1>3, <2>1, <2>2, <2>3, <2>4, <2>5, HeldStays DEF HeldBy
<1>24. CASE Redirect \/ BackToSignIn \/ UNCHANGED vars
  BY <1>8, <1>24 DEF Redirect, ToLogin, ToApp, BackToSignIn, vars, shown
<1> QED
  <2>1. CASE SignInStep \/ MeStep("boot")
    BY <1>11, <1>12, <1>13, <1>15, <1>16, <2>1 DEF SignInStep, MeStep
  <2> QED
    BY <1>1, <1>10, <1>11, <1>12, <1>14, <1>17, <1>18, <1>19, <1>20, <1>21, <1>22, <1>23,
       <1>24, <2>1 DEF Next

LEMMA InitHeld == Init => AllBegun /\ Held
<1> SUFFICES ASSUME Init PROVE AllBegun /\ Held
  OBVIOUS
<1>1. AllBegun
  <2>1. FreshInv /\ odd = {}
    BY InitFresh DEF Init
  <2> QED
    BY <2>1 DEF FreshInv, Fresh
<1>2. Inv
  BY InitInv
<1>3. \E magic \in BOOLEAN : swap = Booting(cookie) /\ task = Started(magic)
  <2>1. PICK u \in Known \cup {Nobody}, magic \in BOOLEAN :
          LET c == IF u = Nobody THEN NoCookie ELSE [signin |-> 1, token |-> 1]
          IN  cookie = c /\ swap = Booting(c) /\ task = Started(magic)
    BY DEF Init
  <2> QED
    BY <2>1
<1>4. cookie \in SomeCookie
  BY <1>2 DEF Inv, ClientOK
<1>5. access = Nobody /\ status = "loading" /\ odd = {}
  BY DEF Init
<1> QED
  BY <1>1, <1>2, <1>3, <1>4, <1>5, LoadedHeld

LEMMA TabIsHeld == Spec => [](Inv /\ Held)
<1>1. Init => Inv /\ Kinds /\ AllBegun /\ Held
  BY InitInv, InitKinds, InitHeld
<1>2. Inv /\ Kinds /\ AllBegun /\ Held /\ [Next]_vars => (Inv /\ Kinds /\ AllBegun /\ Held)'
  BY StepInv, StepKinds, StepBegun, StepHeld
<1>3. Spec => [](Inv /\ Kinds /\ AllBegun /\ Held)
  BY <1>1, <1>2, PTL DEF Spec
<1> QED
  BY <1>3, PTL

(***************************************************************************)
(* setSession, doRefresh and the two clears: until an answer is applied    *)
(* that was asked for before the account changed, a tab that shows an      *)
(* account holds that account's token, and a tab that has logged out none. *)
(***************************************************************************)
THEOREM TokenIsShown == Spec => []TokenIsUsers
BY TabIsHeld, HeldActs, PTL

(***************************************************************************)
(* authFetch and its retry: a request goes out with a token of the account *)
(* that was shown when it was made, also after a refresh that others share.*)
(***************************************************************************)
THEOREM RequestsAsShown == Spec => []ActsAsShown
BY TabIsHeld, HeldActs, PTL

=============================================================================
