# Verification of chat-lucek

TLA+ models of chat-lucek, model-checked with TLC on small instances, and theorems about them checked by TLAPS for
every value of the constants. The models are translated from the code of the repository; line numbers refer to it
(`api/` is the Go service, `agent/` the Python service, `web/` the Next.js client, `ops` the workflows and Terraform).

## 1. The system

A browser talks to the **api**, which keeps everything durable in Postgres and calls the **agent** for each message.
The agent runs a LangGraph loop with tools, subagents and rolling summarization, keeps nothing, and streams events.
The api passes the events on to the browser as SSE frames while it collects what it will store when the run is over.

```
 tab ──┐  cookie (shared by tabs)      ┌── Postgres: users, magic_links, refresh_tokens,
 tab ──┼── /api/auth/*   ──▶  api ─────┤   conversations, messages, usage_marks, …
 tab ──┘── /api/conversations/*        └── LangSmith (mirror of votes)
   ◀── SSE: node, delta, node_end,  ◀── SSE ── agent ──▶ models, web search
        error | done, title
```

### Components

| component | state | operations | what is hard | what makes it correct |
|---|---|---|---|---|
| conversation service (`api/chat.go`, `usage.go`, `account.go`) | rows of conversations, messages, usage marks; locals of each send | create, rename, delete, send, delete the account | a send is a dozen statements around a stream of minutes, without a transaction; other sends, deletes and disconnects come between any two | rows never orphaned, every write is the owner's, the summary stands for what its watermark hides, a run is charged if and only if its reply is stored, up to a failed charge |
| run budget (`api/usage.go`, `chat.go` 313-324) | marks of a usage key in a rolling window | admit, charge, expire | check and charge are far apart | overshoot is bounded; no way to get runs back |
| sessions and sign-in (`api/auth_handlers.go`, `magic_auth.go`, `google_auth.go`) | users, links, refresh tokens; the cookie of the browser | magic link, Google, refresh with rotation, logout, purge | rotation is several statements; a reused token revokes a family that may be rotating; tabs share a cookie; answers are lost | a family is a chain, an address is one account, a link is used once, a deleted account has no session |
| agent run (`agent/src/graphs`, `middleware/summarization.py`) | list of messages, search count | compact, model, tools | where to cut the history, several compactions in one run, summaries that fail | calls keep their results, no row is dropped, the context stays bounded, the run ends |
| run events and trace (`agent/src/events.py`, `server.py`, `api/agent.go`, `chat.go` 389-489, `web/…/run-log.ts`, `node-row.tsx`) | open tools, nodes; reply and summary so far; what is drawn of them | translate, fold, store, draw | parallel tools and subagents mix their events; two independent folds of one log, and a tree built from the second | a reload shows what was streamed, steps nest as they ran, a step pulses while it runs, the reply stored and the reply copied are the agent's own answer |
| message store and usage meter (`web/src/lib/messages-context.tsx`, `usage-context.tsx`, `api.ts` 292-347) | messages per conversation, loaded set, controllers; the shown count of runs | load, send, sendNew, stop, refresh the usage | answers arrive in any order, pages come and go, streams break | a live stream is shown and stoppable, no message twice, no shown reply disappears, the composer comes back, the meter catches up |
| feedback and its mirror (`api/chat.go` 491-587, `langsmith.go`, `web/…/message-actions.tsx`) | the bubble's vote, the cached one, the row; LangSmith's copy | vote, note, clear, mirror | votes are shown before they are stored and taken back by hand; mirror calls have no order and no retry | what is shown ends up stored, the mirror follows the row |
| auth context, api client and the pages they guard (`web/src/lib/auth-context.tsx`, `api.ts` 1-120, `app/(auth)`, `app/(app)/layout.tsx`, `settings-menu.tsx`) | access token of a tab, shared refresh, user and status; the page and its buttons | boot, sign in by Google or a link, request with retry after 401, refresh, log out, delete the account, redirect | answers of an earlier session arrive in a later one; a deletion is answered after the account has changed | the token is the shown account's, a refresh token is not spent twice, only the account whose address was typed is deleted, nobody waits on a disabled button, the page settles |
| conversation list (`web/src/lib/conversations-context.tsx`, `conversation-item.tsx`, `ui/menu.tsx`, `app/(app)/page.tsx`) | entries, their menus and title editors, the page | load, create, rename, delete, automatic title; open, dismiss, confirm, edit | the list is not optimistic, it awaits the api and then edits itself; its first load, titles and deletions are answered while the user goes on and opens the same menu again | the list ends up as what is stored, nobody stays on a deleted page, nothing is left waiting for an answer that has come |
| rate limiter (`api/ratelimit.go`) | bucket per key | allow, sweep, evict | eviction while requests come | not modelled, see section 7 |
| release workflows (`.github/workflows`) | revisions, traffic, tags | deploy, promote, rollback, kill | a failed promotion | not modelled, see section 7 |
| the rest | – | export, mail, headers, CORS, configuration, prompts, rendering, Terraform, evaluations | stateless or pure I/O | not modelled, see section 7 |

Interactions: the web calls the api by fetch, and a send's answer is a stream it reads until it is aborted or ends. The
api calls the agent with the request's context, so a client that leaves cancels the run and every later statement. The
agent reports its summary in a `node_end` frame; the api stores it with its watermark and sends it as the first message
of later runs, so that a mistake made in one run lasts in all later ones. The usage marks are keyed by a hash of the
canonical address and have no foreign key: they outlive the account. All tabs of a browser share the refresh cookie.

## 2. The modules

| module | what it is | composes |
|---|---|---|
| `RunBudget` | abstract: what the daily budget promises | – |
| `Chat` | the conversation service, one action per SQL statement | implements `RunBudget` (`ImplementsAdmission`) |
| `AgentRun` | one run of the agent's or the subagent's graph, one action per node | implements the stream of a `Chat` send (`ImplementsStream`) |
| `RunLog` | the run's events: agent, api and browser, the two channels between them, and what is drawn | – |
| `Sessions` | sign-in and refresh tokens, one action per statement, and the browsers' cookies | – |
| `MessagesStore` | the web's message store and usage meter with the api as their environment | – |
| `Feedback` | the thumbs of one reply: bubble, handlers and rows, mirror | – |
| `WebSession` | the session of one tab: access token, shared refresh, account and pages shown; the api's tokens and accounts as their environment | – |
| `ConversationList` | the conversation list of one tab, its menus and editors and the page, and the api's rows | – |
| `MCChat`, `MCSessions`, `MCConversationList` | values of constants and symmetry for TLC | |
| `ChatProofs`, `SessionsProofs`, `AgentRunProofs`, `RunLogProofs`, `MessagesStoreProofs`, `FeedbackProofs`, `WebSessionProofs`, `ConversationListProofs` | the theorems | |

Definitions marked "Slip" in the modules are not part of the models. Each is a plausible mistake in the definition that
follows it (a dropped guard, a swapped order); putting it in that definition's place makes a property fail, which shows
that the property depends on the code being as it is.

### Chat

`pc[h]` is the statement at which the goroutine of send `h` is, `req`, `msg`, `ctx`, `fold` its local variables. The
statements are `CheckOwner` (chat.go 286-304), `CheckBudget` (306-324), `InsertUser`/`CommitUser` (326-332),
`ReadSummary` (334-342), `ReadHistory` (344-387), the stream (`AgentReplies`, `AgentFails`, 389-439), `InsertReply`/
`CommitReply` (441-462), `StoreSummary` (466-470), `RecordMark` (472-477), `SendDone` (478) and `SetTitle` (481-488).
An insert is two actions, because Postgres draws the id of a `bigserial` before the row becomes visible; two inserts
may therefore become visible out of order. `Disconnect` cancels the request context, after which no statement of the
send succeeds; statements whose errors the code ignores go on without effect, the others end the send (`Abort`).
The one-statement handlers are one action each, with their cascades. The summary text is the set of message ids it was
written from: `covers`. `FoldAfterLoss` is what a run stores when its first summarization failed, which `AgentRun`
derives from `compact`.

### AgentRun

A message is its kind, size, number of calls and the rows its text stands for. `PassOn`, `Summarize` and `SummaryLost`
are the three ways through `compact` (summarization.py 50-65); `Newest`, `Cut`, `Folded`, `Kept` are `_split` (17-28).
`ModelCalls`/`ModelAnswers`, `Tools` are the other two nodes; `searching` chooses the subagent, whose `Tools` is
`web_search_node` with its cap. `Running` is LangGraph's recursion limit. What the model answers, how long it is and
whether a summarization succeeds is nondeterministic.
`Caller` is `Chat` with one send, which has read its history (`ReadBySend`) and waits for the stream: a run is seen from
the api as nothing until it reports, and then as `AgentReplies` or `AgentFails`.

### RunLog

`runs` and `graph` are LangGraph's side: which model and tool runs are open, in which scope (0 is the agent, a subagent
is the run of its tool). Each step of theirs that has an event emits the frames `Translator` makes of it. `toApi` and
`toWeb` are the two streams. `OnNode`, `OnDelta`, `OnNodeEnd` are the callbacks of `Send`, which also pass the frame
on; `Finish` stores the row. `Show` and `Reads` are the browser's handlers; `Roots`, `Children`, `Active`, `LatestPlan` and
`AnswerText` are what the page computes from the nodes (run-log.ts, node-row.tsx): the tree, the pulse of a label, the
plan docked above the composer and the text the copy button takes.

### Sessions

`Claim` (one update with a returning clause), `Lookup`, `RevokeFamily`, `Purge`, `Issue` and `Answer` are the statements
of Refresh; `ClaimLink`, `FindUser`, `CreateUser`, `Issue`, `Answer` those of sign-in. `Answer` is the moment the
browser stores the cookie; with `Lossy` the answer may be lost (`Lose`), and with `DBFaults` a statement may take effect
and still report an error. `Tabs` bounds the refreshes a browser has in flight: one for each tab, because
`refreshAccess` keeps one promise in a tab (api.ts 33-41), and nothing is shared between tabs.

### MessagesStore

`byId`, `loaded`, `controllers`, `tempId` are the refs and the state of the provider. A call of `send` has two ends: what
the client still reads (`live`) and where the api is (`api`). `Loaded` replaces what is shown, as the code does; `hasty`
remembers conversations in which a message was sent before that, and `broken` those whose stream broke. `used` is what
the api has charged, `meter` what is shown, `poll` the fetches of the usage: one when the page is mounted, one after each
stream that ends with `done`.

### Feedback

`Vote`, `SubmitNote` are the bubble's handlers (message-actions.tsx 105-145): `rating` changes first, and `Accepted`,
`Refused` and `Broken` are the three ways a request ends there. `CheckOwner`, `Upsert`, `Remove` are the statements of
the handlers (chat.go 491-587), `Fire` the start of the goroutines, whose calls `Deliver` and `Drop` take in any order.
`Remount` loses a bubble's state to the cached vote, `Reload` takes it from the row.

### WebSession

`access`, `refreshing` are the variables of api.ts, `user` and `status` the state of `AuthProvider`, `page`, `google` and
`erasing` the route, the sign-in button and the dialog that deletes the account. A task of the tab (`boot`, `signin`,
`logout` or a page's request, which may be that deletion) is a fetch, an answer or a wait for a refresh, with the token
its header has and the account it was made `as`. `SharedSwap` and `RefreshAccess` are the refresh that callers share,
`Fetch`, `Denied`, `Throws` a request with its one retry; `Guarded` is the redirect that follows a change of the status,
and a page that is being left is still there until it is carried out. `session` is the chain of tokens `Sessions`
models, with one live token for each sign-in; an address that signs up after its deletion is another account.

### ConversationList

A request of the list (`create`, `rename`, `remove`) is made by the api in one action and applied to the list in another;
the initial load is read in `ListRead` and replaces the list when it is answered. `run` follows the first run of a
conversation to its automatic title. `ui` is the menu or editor that is open and how far it is (one at a time, since a
press outside closes it); `draft` is what the title's editor starts from; `busy` is the creation that disables the page
for a new conversation. `page` is the route; a removal remembers the page it was asked on, because the code captures
`isOpen` before it awaits, and whether the menu it was asked in is still the one that is open.

In the three web modules the history variable `odd` (in `Feedback` `inStep` and `followed`) records the orders of events
in which the code lets two pieces of state drift apart. The properties say that there are no others. Each such order is
listed in section 6.

## 3. The runs

| run | instance | question | result |
|---|---|---|---|
| `chat_rows` | 2 accounts of one inbox, 1 conversation, 2 concurrent sends, budget 1, 3 messages, database faults, inserts commit in id order | ownership, orphans, charges, budget | hold |
| `chat_context` | 1 user (the owner), 2 conversations, 2 sends, 4 messages, no faults | does a stored summary stand for what its watermark hides, and is every run sent its whole conversation? | holds |
| `chat_lost_summary` | 1 send, 4 messages, `SummaryFaults` | does the watermark hide only what the summary stands for? | **violated**, section 6 |
| `session_rotation` | 1 address, 1 browser with 2 tabs, 2 requests, 3 tokens, 1 link, 2 user ids, Google sign-in, lost answers, faults | a family is a chain; reuse at rest ends it; deleted accounts have no session; a link opens one session; an address has one account | hold |
| `session_reuse` | 2 tabs, 4 tokens, nothing lost | does a reuse always end the family? | **violated**, section 6 |
| `agent_loop` | up to 3 rows, sizes 1 and 2, threshold 4, keep 2, 2 calls a turn, 9 nodes, 2 searches, lost summaries | calls and results, rows, context, the stream a send expects, termination | hold |
| `run_log` | 4 model and tool runs, 3 chunks, 2 calls a turn | reload, nesting, pulses, plan and copied text, stored reply and summary, last frame | hold |
| `store_sends` | 1 conversation, 2 sends, broken streams, hasty user | what is shown, sent and metered while streams, loads and fetches interleave | hold |
| `store_load_race` | 1 conversation, 1 send | is every stream that is read also shown? | **violated**, section 6 |
| `feedback` | 1 reply, 3 requests, 1 note, faults | does the shown vote end up as the stored one, and LangSmith's as well? | holds |
| `web_session` | 1 tab, 2 accounts, 2 sign-ins, 3 tokens, 1 request or deletion, 2 fetches at once, 1 reload, faults | whose token does the tab act with, is one spent twice, whose account is deleted, can one sign in, does the page settle? | hold |
| `conversation_list` | 2 conversations, 2 requests, 2 titles, faults | does the list end up as what is stored, and do menus, editors and pages follow it? | holds |

Why the bounds are enough for what is asked:

- *Chat.* Every hazard of `Chat` is one send against one other actor: another send, a delete, a disconnect. In
  `chat_rows` three messages let one send store both of its rows while the other stores one and fails; in `chat_context`
  four let both store both, and a fold needs two. `MaxMsg` stops the sequence, nothing else.
- *Tokens.* Three tokens are a session, its rotation and one more; the reuse violation needs a fourth. Two user ids are
  an account and the one signed up after its deletion.
- *Agent.* With threshold 4 and sizes up to 2, nine nodes are enough to compact two or three times, fold a summary of a
  summary, cut inside the results of a turn with two calls, and hit the recursion limit. `ImplementsStream` is checked
  against the definitions of `Chat` for `MaxMsg = Rows`.
- *Run log.* Four runs hold a model turn, a subagent and a parallel tool, and a model in the subagent or a search, or a
  turn before and after a tool. Three chunks are a summary, an answer and a second chunk of either. With `Ahead = 0`
  a reader is at most one frame behind; what it shows is a function of the frames it has read.
- *Store.* Two sends are a stopped or failed one and one after it; two streams of one conversation cannot be live
  together unless the first was sent hastily, which the run has. Conversations do not share state but for `page` and
  `tempId`; one conversation that may be new or old stands for the others.
- *Feedback.* Three requests are a vote, its opposite or its clear, and one that repeats or repairs.
- *Web session.* Three tokens are the session the page comes with, its rotation and a sign-in with another account, or
  a chain of three; one request besides boot, sign-in and log-out is enough for two callers to share a refresh.
  `MaxAtOnce` lets a fetch start while at most one other is under way; a third caller of a refresh is covered by the
  theorem about it.
- *List.* Every hazard is one request against the load, one other request, an automatic title or a change of the page.

Symmetry is declared for handlers and requests, which are interchangeable, and only in runs without liveness.
`CHECK_DEADLOCK FALSE` is in the runs of the store, the list and the web session: when all sends or requests are used, or
the tokens are, and nothing is under way, nothing more happens. Account
and conversation rows are used once in `Chat` (a deleted id is not drawn again); with all of them deleted, sends that
find nothing still go on, so there is no deadlock. The type invariants are theorems and in no run. So
are the safety properties of all runs, for every value of the bounds: what the instances above leave open is only
liveness.

## 4. Fairness

- `AgentRun` and `RunLog`: weak fairness of `Next`. A node that was started returns or raises, and frames that were
  written are read: both ends read in a loop that does nothing else but write on. For `AgentRun` this is an assumption
  about the model provider and the search, whose calls the code awaits; the api sets no limit on a whole run (agent.go
  175). No particular choice is promised; in particular a model may call tools for ever, and `Terminates` rests on the
  recursion limit alone.
- `MessagesStore!FairSpec`: weak fairness of the api's answer to each send. This is `EndsWithFrame` of `RunLog`: the api
  always ends with `done` or `error`. The user, loads and broken streams are not fair.
- `WebSession!FairSpec`: weak fairness of the boot's `me`, of the sign-in's steps once it is under way, of each refresh
  and of the redirect: a fetch is answered or fails, and an effect that was scheduled runs. Requests, the log-out, the
  deletion and the user are not fair. `PageSettles` therefore says that the page waits for nothing else.
- `Chat`, `Sessions`, `Feedback` and `ConversationList` are checked for safety only. Nothing in the code makes a client
  refresh or come back, retries a mirror call or reloads the list.

## 5. What is proved

Every safety invariant and every action property of the passing runs is a theorem, for every value of the constants that
satisfies the assumptions named in the modules (any number of accounts, conversations, sends, requests, frames, tokens).
The proof modules have one theorem for the types and one for each property. Each has an inductive invariant, because
none of the properties is inductive as it stands:

- **ChatProofs** – `TypeCorrect`. `OrphanFree` and `OwnershipHolds` from one invariant (a live conversation has a live
  owner, a message a live conversation, a handler past its check has the owner's conversation as long as it is live; an
  owner never changes). `RepliesStored`: that invariant and the property itself suffice; only the commit of a reply
  takes a handler past it, and only deletions, which take the conversation along, remove rows. `Implements`: under the
  refinement mapping `used = marks`, `running = sends between admission and charge`, every step of `Chat` is a step or a
  stutter of `RunBudget`. `Overshoot`: charges and running sends of a key never exceed `RunsBudget - 1 + |Handlers|`;
  a step of the admission control sees fewer charges than the budget, or moves one send, or removes one. None of these
  assumes anything on faults or on the order of commits.
  `WatermarkSound` (with `CommitInOrder` and without `SummaryFaults`) and `ContextSound` (and without `DBFaults`): the
  inductive invariant `ContextInv` says of each conversation that its summary is *sound* for its rows (covers what its
  watermark hides, and the watermark is a row), and of each handler what it holds at each statement: an id above all
  visible ones while inserting, then a sound summary, a tail that continues it without a gap, and a sound fold.
  `WatermarkCovered` alone is not inductive: a row that becomes visible below a stored watermark breaks it, which the
  clause on ids excludes. Two sends may overwrite each other's summaries and move the watermark back; each of them is
  sound, so the result is.
- **SessionsProofs** – `TypeCorrect`; `Chain` (one live token or one rotation for each family); `ReuseSettles` (a reuse
  seen while no rotation is under way ends the family for good); `SessionsOwned`. The invariant adds to `OneLiveToken`
  that a family's number is a token drawn before and that a request holds the family it claimed. `AddressIsAccount`: of
  the sign-ins of one address that all found no account, the unique constraint lets one insert. `LinkOpensOne`: the link
  that signed a request in is gone, and any other request that carries it still has to claim it.
- **AgentRunProofs** – `TypeCorrect`; `HistoryHolds`, `PairsHold`, `ContextHolds` and `Implements`. The cut exists and
  lies behind the message it starts from, by the least element of a set of positions; the first two use nothing else of
  the sizes. `Shape` says of a run's messages that a row stands for itself and is newer than the stored summary, that
  only the first message can stand for more, and that it stands for what the stored summary did unless that was lost.
  `PairsInv` is `CallsPaired` at every node, not only where the model is called. `ContextHolds` needs what `Size` is:
  it is a fold over the positions, in an order that a `CHOOSE` picks, and the lemmas show that the order does not
  matter (of two subsets of positions on which two folds differ, a smallest one leads to a contradiction), so that a
  suffix weighs its first message and the rest. The cut is then the first position behind which at most `Keep` is left,
  pushed on past the results of a call. `Implements` is the refinement into the stream of a send of `Chat`: with
  `ReportInv` (a report covers everything up to its watermark, or, after a lost summary, what follows some row) each
  step is a stutter, `AgentReplies` or `AgentFails`.
- **RunLogProofs** – `TypeCorrect`; `ReloadIsStream`, `StepsAreNested`, `StoredIsSaid`, `StepsPulse`, `CopiedIsStored`,
  all from one invariant. It says that there are a `log` of the node frames written so far, the list `N[p]` that folding
  the first `p - 1` of them gives, and the number `d[p]` of chunks among them, such that the agent stands at the end of the
  log (`AgentInv`), the api has read `a` of its frames and the browser `w <= a` (`Passed`): the api's nodes are
  `N[a + 1]`, the browser's `N[w + 1]`, the two channels hold what lies between, and then the frames that end the
  stream, break it or follow the stored row. So api and browser agree because they fold the same log, although they
  never hold the same part of it until the end. What remains is about one list (`ListOK`: ids once, a tool's row before
  what it ran, tools and answers in the order of their runs, the text of a node being the chunks streamed to it) and is
  shown for each frame that fits it. The answer in reply and copy are equal because text is only added to the last
  answer of a list. `FlattenSeq` and `LatestPlan` are recursive functions: the lemmas `Least`, `UpTo` and `Recurs` find
  them along the numbers up to the length of a list.
- **MessagesStoreProofs** – `TypeCorrect`, for which rows and charges are counted against the sends made. `MeterKeepsUp`:
  when the meter is wrong, a fetch that will put it right is under way or a send has yet to be told of its charge.
  `RepliesAreKept`, `StreamsAreShown` and `ComposerFollows` from `StoreInv`: temporary ids fall and rows rise, so that
  an id names one bubble; a reply is shown as its bubble or as its row, never as both; before the rows are there, only a
  hasty user sees a message; without one, a stream that is read has its bubble, `sending` and the controller, and as long
  as none broke, nothing shows `sending` or a streaming bubble without a stream.
- **FeedbackProofs** – `TypeCorrect`, for which the ids drawn are counted against the requests made; `MirrorKeepsUp`
  (once its calls are done and in step, LangSmith has the row's score and note under the row's id, and nothing else)
  and `BubbleShowsRow`. Their invariants say how far each request may lead the row: for the mirror, that every key is
  as wanted, has a call on its way, or has a written request that will start one; for the bubble, that a lone request
  shows what it asked and caches what the row had.
- **WebSessionProofs** – `TypeCorrect`, together with the single flight: one refresh is under way at most, and who waits
  waits for that one. `SpentOnce`: until an answer is lost, the cookie in the browser, the one a refresh was sent with
  and the one on its way back are all the live token of their sign-in, so that no number of requests refused together
  spends a token twice. `TokenIsShown` and `RequestsAsShown` from `Held`: unless answers have crossed, one account
  holds the tab: the token, the cookie, and every refresh and request begun since the account last changed are its own
  or nobody's, and it is the one shown, with its token unless a log-out failed. `DeletesAsTyped` is an action property: of all steps only the api's
  deletion removes an account, and it acts for the account that was confirmed, whatever token a retry carries.
  `DeletedIsGone`: while a deleted account is shown, the deletion's answer or the log-out it starts is to come.
  `SignInIsOffered`: a button that waits is on a sign-in page or on its way from one, and every log-out still under way
  then is older than the sign-in that has set the session.
- **ConversationListProofs** – `TypeCorrect` and `NothingWaits`, which is inductive with the types. `NobodyStays` from
  `PageInv`: a conversation that was born has one creation; what the list had before its creation was answered is marked
  so; a removal asked for on the page will leave it; and of a deleted conversation, what is still listed or open has a
  removal whose answer is on its way. `ListIsAsStored` from `Tracked`: while nothing was lost or crossed, at most one
  change of a title is on its way, the row has it already, and what the list shows, or the load will make it show, is
  the row but for that one change. `DraftFollowsTitle`: the draft of an open editor is the title, or the one rename under
  way started from that title.

The liveness properties (`Terminates`, `EndsWithFrame`, `SendingEnds`, `PageSettles`) are only model-checked: liveness
under fairness is out of the prover's reach. So is induction over data by the library's theorems, which take an operator
as a parameter; where a proof needs it, on recursive functions over the positions of a list and on folds over sets of
positions, it is made by a least counterexample instead. The violation runs are no theorems; they are traces.

The assumption `CommitInOrder` is not enforced by the database; see the deviations below. It is a constant so that the
theorems say exactly what depends on it.

## 6. What was found

Violation runs, each of a statement the repository makes:

1. `chat_lost_summary` – **a failed summarization followed by a successful one loses history for good.** `compact`
   (summarization.py 59-65) replaces what it folds by a placeholder when `_summarize` fails. The next compaction of the
   same run summarizes the placeholder and reports a watermark over the rows the placeholder stood for; the api stores it
   and no later run is sent those rows or a summary of them. `agent/README.md` (49-50) calls the watermark "the newest
   folded message id, which the caller can store with the summary as a watermark".
2. `session_reuse` – **a reuse seen during a rotation does not end the family.** Refresh claims the token, then stores
   its successor by another statement; a family revocation between the two revokes all but the successor, which stays
   usable. `docs/security.md` (30): "reusing a revoked token revokes the whole family as suspected theft".
3. `store_load_race` – **a message sent while the conversation is still loading vanishes from the page** when the load's
   answer replaces what is shown; the stream goes on without a bubble, cannot be stopped, and the composer is open. The
   comment at messages-context.tsx 188 names the hazard ("so a later /c/[id] mount won't refetch over the live stream")
   for the one path that is protected, and a test (messages-context.test.tsx 210) says that a send "keeps streaming into
   the store".

Deviations met while modelling that have no run of their own:

- The run budget is checked before a run and charged after it, so that concurrent sends exceed it; `BudgetOvershoot` says
  by how much.
- Ids are drawn before rows become visible. A row with a smaller id that commits late can end up below a stored
  watermark, and no run sees it (`CommitInOrder = FALSE` shows it).
- The history loop (chat.go 357) does not look at `rows.Err()`: a connection lost on the way cuts the history silently.
- A conversation is named after its first message only if that send goes through; after a failed first send the history
  has two rows and the name stays empty.
- A logout and a refresh in flight: whichever answer arrives last decides the cookie, so that a refresh that arrives late
  signs the browser in again.
- A stream that breaks without a last frame calls no handler: the conversation keeps `sending` until it is stopped
  (`SendingEnds` excepts it).
- Usage meter: of two fetches the older count may come last, and a run charged after its client left is not fetched
  until the next run ends.
- Feedback: a clear that LangSmith hears of before the vote it clears, a mirror call that fails, and the deletion of a
  conversation leave copies there that no row stands for; the documentation calls the mirror best-effort. Votes that
  overlap, or an answer that is lost, can leave the bubble different from the row until the next vote or reload.
- Session of a tab: the boot's refused refresh, arriving late, signs out a tab that a magic link has signed in
  meanwhile; a refresh answered after a log-out brings a token back; `me` failing after a sign-in over a signed-in tab
  leaves the old account shown with the new token; a failed log-out drops the token and keeps the account on the page;
  any answer of the refresh but 200 (429 and 500 too) signs the tab out. A deleted account stays on the page when the
  log-out that follows the deletion fails. The sign-in button stays "loading" when the answer to a log-out comes
  between a later sign-in and the redirect that follows it. These are `odd`.
- Steps of a trace: a tool that raised has no `node_end` frame, so its label pulses until the reply ends; the comment at
  node-row.tsx 8-9 has it pulse while the step is running.
- Conversation list: the load answered late overwrites what was changed and answered since it was read, and can list a
  new conversation twice; a load that failed hides conversations created later, because its error is never cleared; the
  automatic title replaces a title the user gave during the first run, and is sent to the browser even if storing it
  failed (chat.go 484); an editor opens with a stale draft after an automatic title, an emptied field or an edit during a
  rename; after a deletion the user is taken to the start page from wherever they have gone, and who opens the
  conversation while it is being deleted stays on it. The answer to a rename or a removal is applied to
  the menu or editor of its entry even if that was closed and opened again meanwhile.

## 7. What is not modelled

- *Stateless or pure I/O*: mail, address checks, CORS, origin, logging, maintenance mode, configuration, migrations,
  prompts, tools' texts, layout, scrolling, keyboard handling, toasts, styles, Terraform, evaluations. The account export
  is two reads and a layout.
- *The rate limiter*: a token bucket for each key from a library, looked up, swept and evicted under one mutex. A
  bucket is evicted after ten idle minutes and is full again after one, so a sweep cannot be observed; what is left is
  the library's arithmetic.
- *The release workflows*: shell steps against a cloud provider, one at a time by the CI service's concurrency group; the
  state they change is the provider's.
- *Environment*: Postgres is a set of rows with atomic statements at read committed; LangGraph runs nodes in the order
  of its edges; a connection cut in the middle of a chunked body is an error to its reader, so `eof` follows `end`.
- *Time*: windows and expiries are actions that may happen at any moment.
- *Other tabs* in the web modules; `Sessions` has them as callers with one cookie.
- *One log-out at a time*: a second press while one is under way would send the same request again.
- *Data left out*: wording, token usage, `updated_at` and the order of the list it gives, inputs of tools, where a menu
  stands; what is shown of a reply while it streams is in `RunLog`, its place in the message store is not repeated in
  `MessagesStore`, nor are the cached ratings of `Feedback` there.

## 8. Plan

In this order:

1. A second tab in `WebSession`, with `Sessions` as the api it refreshes against: another tab's sign-in with another
   account makes this tab's retries go out as that account.
2. The cached ratings and the nodes under way in `MessagesStore`, composed with `Feedback` and `RunLog`.
3. The account export as reads between the writes of `Chat`.
4. Theorems about the lists that the properties leave out: how long a summary may make the context of the next run, and
   that the trace stored by `RunLog` is the one `MessagesStore` shows after a load.
