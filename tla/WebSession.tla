----------------------------- MODULE WebSession -----------------------------
(***************************************************************************)
(* One tab's session: the access token api.ts holds, the account and the   *)
(* status that AuthProvider shows, and the fetches that change them in     *)
(* whatever order they are answered: the boot, a sign-in, requests with    *)
(* their retry after a 401, the refresh they share, the log-out and the    *)
(* deletion of the account; and the pages that guard themselves by the     *)
(* status and whose buttons wait for those fetches.                        *)
(*                                                                         *)
(* The api keeps one live refresh token for each sign-in (Sessions).  An   *)
(* access token is the account it was minted for; it may have expired at   *)
(* any time.  An address that signs up again is another account.           *)
(* Abstracted: other tabs, texts, what the pages show besides (Chat and    *)
(* MessagesStore), and the request for a link, which is Sessions'.         *)
(***************************************************************************)
EXTENDS Integers, FiniteSets

CONSTANTS
  Users,
  Known,       \* those whose session the browser may come with
  Nobody,
  Work,        \* requests of the pages that may be under way together
  Faulty,      \* fetches may fail and handlers may report an error
  MaxAtOnce,   \* bound: fetches under way when one more starts
  MaxSignIns,  \* bound: sessions the api creates
  MaxTokens,   \* bound: refresh tokens it mints
  MaxLoads     \* bound: loads of the page after the first

ASSUME WebSessionAssumption ==
  /\ Nobody \notin Users /\ Known \subseteq Users
  /\ Work \cap {"boot", "signin", "logout"} = {}
  /\ IsFiniteSet(Work)
  /\ Faulty \in BOOLEAN
  /\ MaxAtOnce \in Nat /\ MaxLoads \in Nat
  /\ MaxSignIns \in Nat \ {0} /\ MaxTokens \in Nat \ {0}

VARIABLES
  session,     \* session[f]: account and live refresh token of a sign-in
  nextToken,
  cookie,      \* the browser's refresh token and the sign-in it belongs to
  access,      \* accessToken
  refreshing,  \* the refresh that is shared, 0 if none
  swap,        \* the refreshes under way
  task,        \* what the tab is waiting for
  user,
  status,
  page,
  google,      \* the sign-in button, none before its page was there
  erasing,     \* the dialog to delete the account
  gone,        \* accounts deleted
  loads,
  odd          \* history: what excuses a difference, see the properties

server == <<session, nextToken, gone>>
shown  == <<user, status>>
pages  == <<page, google, erasing>>
vars   == <<session, nextToken, cookie, access, refreshing, swap, task, user,
            status, page, google, erasing, gone, loads, odd>>

Tasks   == {"boot", "signin", "logout"} \cup Work
Swaps   == 1 .. Cardinality(Tasks)
SignIns == 1 .. MaxSignIns
Anyone  == Users \cup {Nobody}

Cookie   == [signin : SignIns, token : 1 .. MaxTokens]
NoCookie == [signin |-> 0, token |-> 0]

\* A refresh carries a cookie; the answer has another one and a token.
Swap == [at : {"idle", "sent", "granted", "refused"}, sent : Cookie \cup {NoCookie},
         got : Cookie \cup {NoCookie}, user : Anyone, stale : BOOLEAN]
IdleSwap == [at |-> "idle", sent |-> NoCookie, got |-> NoCookie, user |-> Nobody,
             stale |-> FALSE]

\* A task waits for a fetch (sent, or again after a refresh), for its answer
\* once the api has acted (acted), or for a refresh.  token is what its header
\* has, as the account that asked (for a log-out, the one deleted before it).
\* stale: the account has changed since.
Task == [doing : {"nothing", "boot", "enter", "me", "work", "erase", "leave"},
         at : {"sent", "again", "acted", "refresh"}, token : Anyone, as : Anyone,
         swap : {0} \cup Swaps, cookie : Cookie \cup {NoCookie}, stale : BOOLEAN]
NoTask == [doing |-> "nothing", at |-> "sent", token |-> Nobody, as |-> Nobody,
           swap |-> 0, cookie |-> NoCookie, stale |-> FALSE]

\* What is kept of the history.
Noted(o) == IF "crossed" \in o THEN o \ {"left", "half in", "half out", "kept"} ELSE o

Pending(s) == swap[s].at # "idle"

TypeOK ==
  /\ session \in [SignIns -> [user : Anyone, token : 0 .. MaxTokens]]
  /\ nextToken \in 1 .. MaxTokens + 1
  /\ cookie \in Cookie \cup {NoCookie}
  /\ access \in Anyone
  /\ refreshing \in {0} \cup Swaps
  /\ swap \in [Swaps -> Swap]
  /\ task \in [Tasks -> Task]
  /\ user \in Anyone
  /\ status \in {"loading", "authed", "anon"}
  \* magic waits for the link's sign-in, invalid shows that there is none.
  \* to app and to login: a redirect has begun from the other one.
  /\ page \in {"app", "login", "magic", "invalid", "to app", "to login"}
  /\ google \in {"none", "idle", "loading"}
  /\ erasing \in {"no", "asked", "leaving"}
  /\ gone \subseteq Users
  /\ loads \in 0 .. MaxLoads
  \* Nobody waits for a refresh that is over.
  /\ refreshing # 0 => Pending(refreshing)
  /\ \A t \in Tasks : task[t].at = "refresh" => Pending(task[t].swap)
  /\ odd \subseteq {"crossed", "left", "half in", "half out", "kept", "late",
                   "lost", "reused"}

-----------------------------------------------------------------------------
(* api.ts: the shared refresh and authFetch. *)

\* Slip: no single flight.
OwnSwap == CHOOSE s \in Swaps : ~ Pending(s)

\* refreshAccess: the refresh under way, or a new one.
SharedSwap ==
  IF refreshing # 0 THEN refreshing ELSE CHOOSE s \in Swaps : ~ Pending(s)

RefreshAccess ==
  /\ refreshing' = SharedSwap
  /\ swap' = IF Pending(SharedSwap) THEN swap
             ELSE [swap EXCEPT ![SharedSwap] = [IdleSwap EXCEPT !.at = "sent",
                                                                !.sent = cookie]]

\* A fetch of authFetch with the token there is now.
Fetch(doing, as) ==
  [NoTask EXCEPT !.doing = doing, !.token = access, !.as = as]

Fetching(t) == task[t].doing \in {"enter", "me", "work", "erase"}

\* A 401: refresh once and try again.
Denied(t) ==
  /\ Fetching(t)
  /\ task[t].at = "sent"
  /\ RefreshAccess
  /\ task' = [task EXCEPT ![t].at = "refresh", ![t].token = Nobody,
                          ![t].swap = SharedSwap]
  /\ UNCHANGED <<server, cookie, access, shown, pages, loads, odd>>

\* The effects of LoginPage and AppLayout: a redirect, which is not called back.
Guarded(p, st) == CASE p = "login" /\ st = "authed" -> "to app"
                    [] p = "app" /\ st = "anon" -> "to login"
                    [] OTHER -> p

\* Slip: a failed sign-in leaves its button as it is.
StayLoading(tasks) == google

\* The callers of a fetch that throws: the button is enabled again, ...
GoogleAfter(tasks) == IF "signin" \in tasks /\ google = "loading" THEN "idle" ELSE google

\* ... the page of a link shows its error, ...
PageAfter(tasks) == IF "signin" \in tasks /\ page = "magic" THEN "invalid" ELSE page

\* ... and so does the dialog, which is unmounted with a page signed out.
ErasingAfter(tasks, st) ==
  IF st # "authed" \/ (erasing = "asked" /\ \E t \in tasks : task[t].doing = "erase")
  THEN "no" ELSE erasing

Thrown(tasks, st) ==
  /\ status' = st
  /\ google' = GoogleAfter(tasks)
  /\ page' = Guarded(PageAfter(tasks), st)
  /\ erasing' = ErasingAfter(tasks, st)

\* The address typed is not that of the token's account, or it is gone.
Mismatch(t) ==
  /\ task[t].doing = "erase"
  /\ task[t].token \notin {Nobody, task[t].as} \/ task[t].token \in gone

\* A fetch that fails, an error status, or a second 401.  The boot shows the
\* sign-in page.
Throws(t) ==
  /\ Fetching(t)
  /\ \/ task[t].at = "again"
     \/ task[t].at = "sent" /\ Mismatch(t)
     \/ Faulty /\ task[t].at \in {"sent", "acted"}
  /\ task' = [task EXCEPT ![t] = NoTask]
  /\ Thrown({t}, IF t = "boot" THEN "anon" ELSE status)
  /\ odd' = Noted(odd \cup (IF task[t].at = "acted" THEN {"lost"} ELSE {})
                \cup (IF t = "boot" /\ task[t].stale THEN {"crossed"} ELSE {}))
  /\ UNCHANGED <<server, cookie, access, refreshing, swap, user, loads>>

\* The account of the tab changes: what was asked before is stale.  Nothing
\* tells more once answers have crossed.
Stale(tasks) ==
  [t \in Tasks |->
     [tasks[t] EXCEPT !.stale = \/ @ \/ tasks[t].doing \in {"erase", "leave"}
                                \/ tasks[t].doing # "nothing" /\ "crossed" \notin odd]]
StaleSwaps ==
  [s \in Swaps |-> [swap[s] EXCEPT !.stale = Pending(s) /\ "crossed" \notin odd]]

-----------------------------------------------------------------------------
(* doRefresh and its answer. *)

\* The access token of a session: the account it was minted for.
Minted(f) == session[f].user

\* The api rotates a live token.
Rotate(s) ==
  LET f == swap[s].sent.signin
  IN  /\ swap[s].at = "sent"
      /\ f # 0 /\ session[f].token = swap[s].sent.token
      /\ nextToken <= MaxTokens
      /\ session' = [session EXCEPT ![f].token = nextToken]
      /\ nextToken' = nextToken + 1
      /\ swap' = [swap EXCEPT ![s].at = "granted", ![s].sent = NoCookie, ![s].user = Minted(f),
                              ![s].got = [signin |-> f, token |-> nextToken]]
      /\ UNCHANGED <<gone, cookie, access, refreshing, task, shown, pages, loads, odd>>

\* No cookie, an expired token or an error; a rotated one ends its session.
Refuse(s) ==
  LET f == swap[s].sent.signin
      reused == f # 0 /\ session[f].token \notin {0, swap[s].sent.token}
  IN  /\ swap[s].at = "sent"
      /\ swap' = [swap EXCEPT ![s].at = "refused", ![s].sent = NoCookie]
      /\ \/ session' = IF f = 0 THEN session ELSE [session EXCEPT ![f].token = 0]
         \/ Faulty /\ ~ reused /\ UNCHANGED session
      /\ odd' = Noted(odd \cup IF reused THEN {"reused"} ELSE {})
      /\ UNCHANGED <<nextToken, gone, cookie, access, refreshing, task, shown, pages, loads>>

\* What the tasks that wait for s do with a token.
Resumed(s, token) ==
  [t \in Tasks |->
     IF task[t].at # "refresh" \/ task[t].swap # s THEN task[t]
     ELSE IF task[t].doing = "boot"
       THEN [NoTask EXCEPT !.doing = "me", !.token = token, !.stale = task[t].stale]
       ELSE [task[t] EXCEPT !.at = "again", !.swap = 0,
                          !.token = IF task[t].doing = "enter" THEN Nobody ELSE token]]

\* ... and without one: the boot is over, the others throw.
Waiters(s) == {t \in Tasks : task[t].at = "refresh" /\ task[t].swap = s}
GivenUp(s) == [t \in Tasks |-> IF t \in Waiters(s) THEN NoTask ELSE task[t]]

BootWaits(s) == "boot" \in Waiters(s)

\* The next caller starts a refresh of its own.
DropPromise(s) == refreshing' = IF refreshing = s THEN 0 ELSE refreshing

SwapGranted(s) ==
  /\ swap[s].at = "granted"
  /\ swap' = [swap EXCEPT ![s] = IdleSwap]
  /\ DropPromise(s)
  /\ cookie' = swap[s].got
  /\ access' = swap[s].user
  /\ task' = Resumed(s, swap[s].user)
  /\ odd' = Noted((odd \ {"half out"}) \cup IF swap[s].stale THEN {"crossed"} ELSE {})
  /\ UNCHANGED <<server, shown, pages, loads>>

\* Slip: the tab is not told that its session has ended.
StayShown(tasks) == UNCHANGED <<shown, google, page, erasing>>

\* onUnauthorized, and what the tasks that throw for it do.
SignedOut(tasks) == user' = Nobody /\ Thrown(tasks, "anon")

\* Any status but 200 ends the session of the tab.
SwapRefused(s) ==
  /\ swap[s].at = "refused"
  /\ swap' = [StaleSwaps EXCEPT ![s] = IdleSwap]
  /\ DropPromise(s)
  /\ access' = Nobody
  /\ SignedOut(Waiters(s))
  /\ task' = Stale(GivenUp(s))
  /\ odd' = Noted((odd \ {"half in"}) \cup IF swap[s].stale THEN {"crossed"} ELSE {})
  /\ UNCHANGED <<server, cookie, loads>>

\* Slip: the boot without its catch.
BootStays(s) == status

BootCaught(s) == IF BootWaits(s) THEN "anon" ELSE status

\* The fetch or the body fails: the session stays, the callers throw.
SwapThrows(s) ==
  /\ Faulty
  /\ Pending(s)
  /\ swap' = [swap EXCEPT ![s] = IdleSwap]
  /\ DropPromise(s)
  /\ task' = GivenUp(s)
  /\ Thrown(Waiters(s), BootCaught(s))
  /\ odd' = Noted(odd \cup (IF swap[s].at = "granted" THEN {"lost"} ELSE {})
                \cup (IF BootWaits(s) /\ task["boot"].stale THEN {"crossed"} ELSE {}))
  /\ UNCHANGED <<server, cookie, access, user, loads>>

-----------------------------------------------------------------------------
(* auth-context.tsx. *)

Idle(t) == task[t].doing = "nothing"

MayStart(t) == Idle(t) /\ Cardinality({x \in Tasks : ~ Idle(x)}) < MaxAtOnce

\* Who asks does not matter to it.
Entering == [NoTask EXCEPT !.doing = "enter"]

\* The code of the popup that the button opens.  It is open as long as the
\* user likes, also when the page has gone.
SignIn ==
  /\ google = "idle"
  /\ MayStart("signin")
  /\ google' = IF page \in {"login", "to app"} THEN "loading" ELSE "idle"
  /\ task' = [task EXCEPT !["signin"] = Entering]
  /\ UNCHANGED <<server, cookie, access, refreshing, swap, shown, page, erasing,
                 loads, odd>>

\* The api accepts the code or the link and starts a session for its account.
Enter(u) ==
  \E f \in SignIns :
    /\ task["signin"].doing = "enter" /\ task["signin"].at \in {"sent", "again"}
    /\ session[f].user = Nobody /\ \A g \in SignIns : g < f => session[g].user # Nobody
    /\ u \notin gone
    /\ nextToken <= MaxTokens
    /\ session' = [session EXCEPT ![f] = [user |-> u, token |-> nextToken]]
    /\ nextToken' = nextToken + 1
    /\ task' = [task EXCEPT !["signin"].at = "acted",
                            !["signin"].cookie = [signin |-> f, token |-> nextToken]]
    /\ UNCHANGED <<gone, cookie, access, refreshing, swap, shown, pages, loads, odd>>

SetSession(u) == access' = u

\* setSession, then me.
Entered ==
  LET c == task["signin"].cookie
      u == session[c.signin].user
  IN  /\ task["signin"].doing = "enter" /\ task["signin"].at = "acted"
      /\ cookie' = c
      /\ SetSession(u)
      /\ task' = [Stale(task) EXCEPT
                    !["signin"] = [NoTask EXCEPT !.doing = "me", !.token = access']]
      /\ swap' = StaleSwaps
      /\ odd' = Noted((odd \ {"left", "half out"}) \cup {"half in"})
      /\ UNCHANGED <<server, refreshing, shown, pages, loads>>

\* Slip: an account that is shown already stays.
FirstUser(t) == IF user = Nobody THEN task[t].token ELSE user

SetUser(t) == task[t].token

\* me answers with the account of the token, for the boot or a sign-in.
Me(t) ==
  /\ task[t].doing = "me" /\ task[t].at \in {"sent", "again"}
  /\ task[t].token \notin gone \cup {Nobody}
  /\ user' = SetUser(t)
  /\ status' = "authed"
  /\ page' = Guarded(IF t = "signin" /\ page = "magic" THEN "app" ELSE page, "authed")
  /\ task' = [task EXCEPT ![t] = NoTask]
  /\ odd' = Noted((IF t = "signin" THEN odd \ {"half in"} ELSE odd)
               \cup IF task[t].stale THEN {"crossed"} ELSE {})
  /\ UNCHANGED <<server, cookie, access, refreshing, swap, google, erasing, loads>>

\* The pages of the app are there.
InApp == page \in {"app", "to login"} /\ status = "authed"

FetchAsShown(doing) == [Fetch(doing, user) EXCEPT !.stale = "half in" \in odd]

Ask(w) ==
  /\ InApp /\ MayStart(w)
  /\ task' = [task EXCEPT ![w] = FetchAsShown("work")]
  /\ UNCHANGED <<server, cookie, access, refreshing, swap, shown, pages, loads, odd>>

Done(w) ==
  /\ task[w].doing = "work" /\ task[w].at \in {"sent", "again"}
  /\ task[w].token # Nobody
  /\ task' = [task EXCEPT ![w] = NoTask]
  /\ UNCHANGED <<server, cookie, access, refreshing, swap, shown, pages, loads, odd>>

LogOut ==
  /\ InApp /\ MayStart("logout")
  /\ task' = [task EXCEPT !["logout"] =
                 [NoTask EXCEPT !.doing = "leave", !.cookie = cookie]]
  /\ UNCHANGED <<server, cookie, access, refreshing, swap, shown, pages, loads, odd>>

\* onDelete of the dialog, with the address shown typed in.
Erase(w) ==
  /\ InApp /\ erasing = "no" /\ MayStart(w)
  /\ erasing' = "asked"
  /\ task' = [task EXCEPT ![w] = FetchAsShown("erase")]
  /\ UNCHANGED <<server, cookie, access, refreshing, swap, shown, page, google, loads, odd>>

\* Slip: the account of the token, whatever address was typed.
AnyAddress(w) == task[w].token

\* The account the statement deletes: the token's, by id and address.
Confirmed(w) == IF task[w].token = task[w].as THEN task[w].token ELSE Nobody

\* Its sessions go with it.
Delete(w) ==
  LET u == Confirmed(w)
  IN  /\ task[w].doing = "erase" /\ task[w].at \in {"sent", "again"}
      /\ u \notin gone \cup {Nobody}
      /\ gone' = gone \cup {u}
      /\ session' = [f \in SignIns |-> IF session[f].user = u
                       THEN [session[f] EXCEPT !.token = 0] ELSE session[f]]
      /\ task' = [task EXCEPT ![w].at = "acted", ![w].token = Nobody]
      /\ UNCHANGED <<nextToken, cookie, access, refreshing, swap, shown, pages, loads, odd>>

\* Slip: the dialog takes the deletion for a log-out.
JustErased(w) == NoTask

Departing(w) ==
  [NoTask EXCEPT !.doing = "leave", !.as = task[w].as, !.stale = task[w].stale]

\* The answer takes the cookie away, and the dialog goes on to log out.
Erased(w) ==
  /\ task[w].doing = "erase" /\ task[w].at = "acted"
  /\ Idle("logout")
  /\ cookie' = NoCookie
  /\ task' = [task EXCEPT ![w] = NoTask, !["logout"] = Departing(w)]
  /\ erasing' = IF erasing = "asked" THEN "leaving" ELSE erasing
  /\ UNCHANGED <<server, access, refreshing, swap, shown, page, google, loads, odd>>

\* The api deletes the token it is shown, which may be a rotated one.
Leave ==
  LET c == task["logout"].cookie
  IN  /\ task["logout"].doing = "leave" /\ task["logout"].at = "sent"
      /\ session' = IF c # NoCookie /\ session[c.signin].token = c.token
                      THEN [session EXCEPT ![c.signin].token = 0] ELSE session
      /\ task' = [task EXCEPT !["logout"].at = "acted", !["logout"].cookie = NoCookie]
      /\ UNCHANGED <<nextToken, gone, cookie, access, refreshing, swap, shown, pages, loads,
                     odd>>

ClearSession == access' = Nobody

Left ==
  /\ task["logout"].doing = "leave" /\ task["logout"].at = "acted"
  /\ cookie' = NoCookie
  /\ ClearSession
  /\ user' = Nobody /\ status' = "anon"
  /\ page' = Guarded(IF task["logout"].as # Nobody THEN "login" ELSE page, "anon")
  /\ erasing' = "no"
  /\ task' = [Stale(task) EXCEPT !["logout"] = NoTask]
  /\ swap' = StaleSwaps
  /\ odd' = Noted((odd \ {"half in", "half out"}) \cup {"left"}
               \cup IF task["logout"].stale THEN {"late"} ELSE {})
  /\ google' = IF page' = "login" /\ google = "none" THEN "idle" ELSE google
  /\ UNCHANGED <<server, refreshing, loads>>

\* The token is cleared all the same, the account stays on the screen.
LeaveThrows ==
  /\ Faulty
  /\ task["logout"].doing = "leave"
  /\ access' = Nobody
  /\ task' = [task EXCEPT !["logout"] = NoTask]
  /\ odd' = Noted(odd \cup {"half out"} \cup IF task["logout"].as # Nobody THEN {"kept"} ELSE {})
  /\ UNCHANGED <<server, cookie, refreshing, swap, shown, pages, loads>>

-----------------------------------------------------------------------------
(* The pages. *)

\* A new sign-in page has a button of its own.
ToLogin ==
  /\ page = "to login"
  /\ page' = Guarded("login", status)
  /\ google' = "idle"
  /\ UNCHANGED <<server, cookie, access, refreshing, swap, task, shown, erasing, loads, odd>>

ToApp ==
  /\ page = "to app"
  /\ page' = Guarded("app", status)
  /\ google' = "idle"
  /\ UNCHANGED <<server, cookie, access, refreshing, swap, task, shown, erasing, loads, odd>>

\* The link of a page that could not sign in.
BackToSignIn ==
  /\ page = "invalid"
  /\ page' = Guarded("login", status)
  /\ google' = "idle"
  /\ UNCHANGED <<server, cookie, access, refreshing, swap, task, shown, erasing, loads, odd>>

Redirect == ToLogin \/ ToApp

-----------------------------------------------------------------------------
(* A load of the page boots, and a magic link's page signs in besides. *)

Booting(c) ==
  [s \in Swaps |-> IF s = 1 THEN [IdleSwap EXCEPT !.at = "sent", !.sent = c]
                            ELSE IdleSwap]

Started(magic) ==
  [t \in Tasks |->
     IF t = "boot" THEN [NoTask EXCEPT !.doing = "boot", !.at = "refresh", !.swap = 1]
     ELSE IF t = "signin" /\ magic THEN Entering
     ELSE NoTask]

Opened(magic) == IF magic THEN {"magic"} ELSE {"app", "login", "invalid"}

Button(p) == IF p = "login" THEN "idle" ELSE "none"

\* The cookies in answers that are under way, which the browser may still take.
Cookies ==
  {cookie} \cup {swap[s].got : s \in {x \in Swaps : swap[x].at = "granted"}}
    \cup {task[t].cookie : t \in {x \in Tasks : task[x].at = "acted"
                                               /\ task[x].doing = "enter"}}
    \cup {NoCookie : t \in {x \in Tasks : task[x].at = "acted"
                                         /\ task[x].doing = "leave"}}

\* The browser may come with a session, which is live or not.
Init ==
  \E u \in Known \cup {Nobody}, live \in BOOLEAN, magic \in BOOLEAN :
    LET c == IF u = Nobody THEN NoCookie ELSE [signin |-> 1, token |-> 1]
    IN  /\ session = [f \in SignIns |->
             IF f = 1 THEN [user |-> u, token |-> IF live /\ u # Nobody THEN 1 ELSE 0]
                      ELSE [user |-> Nobody, token |-> 0]]
        /\ nextToken = 2
        /\ cookie = c
        /\ access = Nobody
        /\ refreshing = 1
        /\ swap = Booting(c)
        /\ task = Started(magic)
        /\ user = Nobody /\ status = "loading"
        /\ page \in Opened(magic) /\ google = Button(page) /\ erasing = "no"
        /\ gone = {}
        /\ loads = 0
        /\ odd = {}

Load(magic) ==
  /\ loads < MaxLoads
  /\ loads' = loads + 1
  /\ \E c \in Cookies :
       /\ cookie' = c
       /\ swap' = Booting(c)
       /\ odd' = Noted((odd \cap {"lost", "reused"}) \cup IF Cookies = {c} THEN {} ELSE {"lost"})
  /\ access' = Nobody
  /\ refreshing' = 1
  /\ task' = Started(magic)
  /\ user' = Nobody /\ status' = "loading"
  /\ page' \in Opened(magic) /\ google' = Button(page') /\ erasing' = "no"
  /\ UNCHANGED server

-----------------------------------------------------------------------------
SwapStep(s) ==
  Rotate(s) \/ Refuse(s) \/ SwapGranted(s) \/ SwapRefused(s) \/ SwapThrows(s)

MeStep(t) == Me(t) \/ Denied(t) \/ Throws(t)

SignInStep == (\E u \in Users : Enter(u)) \/ Entered \/ MeStep("signin")

Next ==
  \/ \E s \in Swaps : SwapStep(s)
  \/ MeStep("boot") \/ SignInStep
  \/ \E w \in Work :
       \/ Ask(w) \/ Done(w) \/ Denied(w) \/ Throws(w)
       \/ Erase(w) \/ Delete(w) \/ Erased(w)
  \/ SignIn \/ Redirect \/ BackToSignIn
  \/ LogOut \/ Leave \/ Left \/ LeaveThrows
  \/ \E magic \in BOOLEAN : Load(magic)

Spec == Init /\ [][Next]_vars

\* A fetch is answered, or fails, and an effect runs.
FairSpec ==
  /\ Spec
  /\ WF_vars(MeStep("boot")) /\ WF_vars(SignInStep)
  /\ WF_vars(Redirect)
  /\ \A s \in Swaps : WF_vars(SwapStep(s))

-----------------------------------------------------------------------------
(***************************************************************************)
(* A signed-in page acts as the account it shows: the tab's token is that  *)
(* account's; and after a log-out the tab has none until someone signs in. *)
(* Excused are a log-out that failed (the token has gone, the page stays), *)
(* a sign-in over a signed-in tab until me has answered, and an answer     *)
(* that was asked for before the account changed (crossed), which nothing  *)
(* in the code keeps from being applied.                                   *)
(***************************************************************************)
TokenIsUsers ==
  "crossed" \notin odd =>
    /\ status = "authed" /\ "half in" \notin odd =>
         access = user \/ ("half out" \in odd /\ access = Nobody)
    /\ "left" \in odd => access = Nobody

(***************************************************************************)
(* A request goes out as the account that was shown when it was made, the  *)
(* retry after a refresh too, unless the account has changed meanwhile.    *)
(***************************************************************************)
ActsAsShown ==
  \A w \in Work :
    ~ Idle(w) /\ ~ task[w].stale /\ "crossed" \notin odd =>
      task[w].token \in {task[w].as, Nobody}

(***************************************************************************)
(* A tab on its own never shows the api a token that it has rotated, which *)
(* would end the session as stolen: callers share one refresh, and the     *)
(* next starts when the cookie of the last is there.  Only a lost answer   *)
(* makes it happen.                                                        *)
(***************************************************************************)
NoOwnReuse == "reused" \in odd => "lost" \in odd

(***************************************************************************)
(* An account is deleted only if its own address was typed while it was    *)
(* shown: not when the token is another account's by the time the request, *)
(* or its retry, reaches the api, however answers have crossed.            *)
(***************************************************************************)
DeletesTyped ==
  [][\A u \in gone' \ gone :
       \E w \in Work : task[w].doing = "erase" /\ task[w].as = u]_gone

(***************************************************************************)
(* The tab that deleted an account shows it only until the answer and the  *)
(* log-out it starts have come.  Excused are an answer that was lost, a    *)
(* log-out that failed, a sign-in over it and answers that have crossed.   *)
(***************************************************************************)
DeletedIsOut ==
  \A u \in gone :
    status = "authed" /\ user = u =>
      \/ \E w \in Work : task[w].doing = "erase" /\ task[w].as = u
      \/ task["logout"].as = u
      \/ odd \cap {"kept", "half in", "lost", "crossed"} # {}

(***************************************************************************)
(* Who is not signed in can sign in: the button of the sign-in page is     *)
(* disabled, and the page of a magic link waits, only while a sign-in is   *)
(* under way, though refreshes sign the tab out at any time.  Excused is a *)
(* log-out that is answered after the next sign-in.                        *)
(***************************************************************************)
SignInOffered ==
  task["signin"].doing = "nothing" =>
    /\ page = "login" /\ google = "loading" => "late" \in odd
    /\ page # "magic"

(***************************************************************************)
(* A tab ends up on a page that agrees with its status: the app for who is *)
(* signed in, the sign-in page or the error of a link for who is not; it   *)
(* does not stay blank, whatever the session and the network do.           *)
(***************************************************************************)
PageSettles ==
  []<>(\/ InApp
       \/ page = "login" /\ status = "anon"
       \/ page = "invalid" /\ status # "loading")

=============================================================================
