---------------------------- MODULE MessagesStore ----------------------------
(***************************************************************************)
(* The web client's store of conversations: what load, send, sendNew and   *)
(* stop do to the messages a tab shows, while the answers of the api       *)
(* arrive in their own time and the user moves between pages.              *)
(*                                                                         *)
(* The api is the environment: it stores the user's row, streams, stores   *)
(* the reply, charges the run and says so, or fails on the way.  The usage *)
(* meter is fetched again after each reply.  Abstracted: texts, the nodes  *)
(* of a reply under way, titles, ratings; marks that expire.               *)
(***************************************************************************)
EXTENDS Integers, Sequences, FiniteSets, Functions

CONSTANTS
  Convs,      \* conversations
  Nobody,     \* no conversation
  Hasty,      \* the user may send before the messages are there
  Breakable,  \* a stream may break without a last frame
  MaxSends    \* bound: calls of send

ASSUME StoreAssumption ==
  /\ Nobody \notin Convs
  /\ Hasty \in BOOLEAN /\ Breakable \in BOOLEAN
  /\ IsFiniteSet(Convs) /\ MaxSends \in Nat

VARIABLES
  rows,        \* rows[c]: the rows of c the api has stored, <<>> if c is new
  nextRow,
  byId,        \* byId[c]: what the tab shows of c
  loaded,      \* conversations that need no load
  controllers, \* controllers[c]: the call a Stop on c aborts, 0 if none
  tempId,
  page,        \* the conversation on the screen, Nobody for the home page
  get,         \* get[c]: the load of c that is under way
  call,        \* the calls of send, at the client and at the api
  used,        \* the runs the api has charged
  meter,       \* the count the tab shows, Unknown at first
  poll,        \* poll[s]: the fetch of the count after send s, 0 for the first
  hasty,       \* history: conversations sent to before their load answered
  broken,      \* history: conversations with a stream that broke
  behind       \* history: no fetch is due that would correct the meter

vars == <<rows, nextRow, byId, loaded, controllers, tempId, page, get, call,
          used, meter, poll, hasty, broken, behind>>

server  == <<rows, nextRow>>
history == <<hasty, broken>>
usage   == <<used, meter, poll, behind>>

\* A message in each old conversation, two for each call.
MaxRow == Cardinality(Convs) + 2 * MaxSends

Roles == {"user", "assistant"}
Row   == [id : 1 .. MaxRow, role : Roles]
Shown == [id : Int, role : Roles, streaming : BOOLEAN]

ConvState == [messages : Seq(Shown), loading : BOOLEAN,
              error : {"none", "load", "send"}, sending : BOOLEAN]

LOADING == [messages |-> <<>>, loading |-> TRUE, error |-> "none",
            sending |-> FALSE]
EMPTY == [LOADING EXCEPT !.loading = FALSE]

Get    == [at : {"none", "sent", "failed"}, rows : {<<>>}]
            \cup [at : {"read"}, rows : Seq(Row)]
NoGet  == [at |-> "none", rows |-> <<>>]

\* The client waits for frames or is done with the call; the api has the
\* request, has stored the user's row, has stored the reply, has tried to
\* charge the run, or has returned.
Call   == [conv : Convs, assistant : Int, live : BOOLEAN,
           api : {"request", "stream", "stored", "charged", "returned"},
           reply : 0 .. MaxRow]

Unknown == -1
Poll    == [at : {"none", "sent", "read"}, used : 0 .. MaxSends]
NoPoll  == [at |-> "none", used |-> 0]
NewPoll == [at |-> "sent", used |-> 0]

TypeOK ==
  /\ rows \in [Convs -> Seq(Row)]
  /\ nextRow \in 1 .. MaxRow + 1
  /\ byId \in [Convs -> ConvState]
  /\ loaded \subseteq Convs
  /\ controllers \in [Convs -> 0 .. MaxSends]
  /\ tempId \in Int /\ tempId <= 0
  /\ page \in Convs \cup {Nobody}
  /\ get \in [Convs -> Get]
  /\ call \in Seq(Call) /\ Len(call) <= MaxSends
  /\ used \in 0 .. MaxSends /\ meter \in {Unknown} \cup 0 .. used
  /\ poll \in [0 .. MaxSends -> Poll]
  /\ hasty \subseteq Convs /\ broken \subseteq Convs /\ behind \in BOOLEAN

\* Some conversations have a message already, the others are new.
Init ==
  /\ \E old \in SUBSET Convs : \E id \in Injection(old, 1 .. Cardinality(old)) :
       /\ rows = [c \in Convs |-> IF c \in old
                                    THEN <<[id |-> id[c], role |-> "user"]>>
                                    ELSE <<>>]
       /\ nextRow = Cardinality(old) + 1
  /\ byId = [c \in Convs |-> LOADING]
  /\ loaded = {}
  /\ controllers = [c \in Convs |-> 0]
  /\ tempId = 0
  /\ page = Nobody
  /\ get = [c \in Convs |-> NoGet]
  /\ call = <<>>
  /\ used = 0 /\ meter = Unknown
  /\ poll = [s \in 0 .. MaxSends |-> IF s = 0 THEN NewPoll ELSE NoPoll]
  /\ hasty = {} /\ broken = {} /\ behind = FALSE

Calls == DOMAIN call

\* filter: the messages at the places K, in their order.
Kept(ms, K) ==
  LET rank(k) == Cardinality({j \in K : j <= k})
  IN  [i \in 1 .. Cardinality(K) |-> ms[CHOOSE k \in K : rank(k) = i]]

Patch(c, state) == byId' = [byId EXCEPT ![c] = state]

-----------------------------------------------------------------------------
(* load. *)

Listed(c) == rows[c] # <<>> \/ \E s \in Calls : call[s].conv = c

Load(c) ==
  IF c \in loaded
    THEN UNCHANGED <<loaded, get>>
    ELSE /\ loaded' = loaded \cup {c}
         /\ get' = [get EXCEPT ![c] = [at |-> "sent", rows |-> <<>>]]

\* The page of c mounts and its effect calls load.
Visit(c) ==
  /\ Listed(c)
  /\ page # c
  /\ page' = c
  /\ Load(c)
  /\ UNCHANGED <<server, byId, controllers, tempId, call, history, usage>>

Home ==
  /\ page # Nobody
  /\ page' = Nobody
  /\ UNCHANGED <<server, byId, loaded, controllers, tempId, get, call, history, usage>>

ReadRows(c) ==
  /\ get[c].at = "sent"
  /\ \/ get' = [get EXCEPT ![c] = [at |-> "read", rows |-> rows[c]]]
     \/ get' = [get EXCEPT ![c].at = "failed"]
  /\ UNCHANGED <<server, byId, loaded, controllers, tempId, page, call, history, usage>>

\* Slip: the rows added to what is shown.
Merge(old, R) ==
  [EMPTY EXCEPT !.messages = old.messages \o
     [i \in 1 .. Len(R) |-> [id |-> R[i].id, role |-> R[i].role,
                             streaming |-> FALSE]]]

\* The rows replace whatever is shown.
Replace(old, R) ==
  [EMPTY EXCEPT !.messages =
     [i \in 1 .. Len(R) |-> [id |-> R[i].id, role |-> R[i].role,
                             streaming |-> FALSE]]]

Loaded(c) ==
  /\ get[c].at = "read"
  /\ Patch(c, Replace(byId[c], get[c].rows))
  /\ get' = [get EXCEPT ![c] = NoGet]
  /\ UNCHANGED <<server, loaded, controllers, tempId, page, call, history, usage>>

LoadFailed(c) ==
  /\ get[c].at = "failed"
  /\ loaded' = loaded \ {c}
  /\ Patch(c, [byId[c] EXCEPT !.loading = FALSE, !.error = "load"])
  /\ get' = [get EXCEPT ![c] = NoGet]
  /\ UNCHANGED <<server, controllers, tempId, page, call, history, usage>>

-----------------------------------------------------------------------------
(* send, sendNew and stop. *)

\* The two bubbles, and the request on its way.
Post(c, state) ==
  /\ Len(call) < MaxSends
  /\ tempId' = tempId - 2
  /\ Patch(c, [state EXCEPT
       !.error = "none", !.sending = TRUE,
       !.messages = @ \o
         <<[id |-> tempId - 1, role |-> "user", streaming |-> FALSE],
           [id |-> tempId - 2, role |-> "assistant", streaming |-> TRUE]>>])
  /\ controllers' = [controllers EXCEPT ![c] = Len(call) + 1]
  /\ call' = Append(call, [conv |-> c, assistant |-> tempId - 2, live |-> TRUE,
                           api |-> "request", reply |-> 0])

\* No load of c is under way, and the last one did not fail.
Answered(c) == get[c] = NoGet /\ c \in loaded

\* The composer is disabled while sending, not while loading.
ComposerOpen(c) == page = c /\ ~byId[c].sending

Send(c) ==
  /\ ComposerOpen(c)
  /\ hasty' = IF Answered(c) THEN hasty ELSE hasty \cup {c}
  /\ Hasty \/ Answered(c)
  /\ Post(c, byId[c])
  /\ UNCHANGED <<server, loaded, page, get, broken, usage>>

\* Slip: a new conversation not marked as loaded.
SendNewUnmarked(c) ==
  /\ page = Nobody
  /\ ~Listed(c)
  /\ page' = c
  /\ loaded' = loaded \cup {c}
  /\ get' = [get EXCEPT ![c] = [at |-> "sent", rows |-> <<>>]]
  /\ Post(c, EMPTY)
  /\ UNCHANGED <<server, history, usage>>

\* From the home page: the conversation has been created, needs no load, and
\* its page comes next.
SendNew(c) ==
  /\ page = Nobody
  /\ ~Listed(c)
  /\ page' = c
  /\ loaded' = loaded \cup {c}
  /\ Post(c, EMPTY)
  /\ UNCHANGED <<server, get, history, usage>>

Stop(c) ==
  /\ page = c
  /\ byId[c].sending
  /\ LET s == controllers[c] IN
       call' = IF s = 0 THEN call ELSE [call EXCEPT ![s].live = FALSE]
  /\ controllers' = [controllers EXCEPT ![c] = 0]
  /\ Patch(c, [byId[c] EXCEPT
       !.sending = FALSE,
       !.messages = Kept(@, {i \in DOMAIN @ : ~@[i].streaming})])
  /\ UNCHANGED <<server, loaded, tempId, page, get, history, usage>>

\* Slip: the meter is left as it is.
NotRefreshed(s) == poll

Refreshed(s) == [poll EXCEPT ![s] = NewPoll]

\* onDone, which also refreshes the usage.
Done(s) ==
  /\ call[s].live /\ call[s].api = "charged"
  /\ LET c == call[s].conv IN
       /\ Patch(c, [byId[c] EXCEPT
            !.sending = FALSE,
            !.messages = [i \in DOMAIN @ |->
               IF @[i].id = call[s].assistant
                 THEN [@[i] EXCEPT !.id = call[s].reply, !.streaming = FALSE]
                 ELSE @[i]]])
       /\ controllers' = [controllers EXCEPT ![c] = 0]
  /\ call' = [call EXCEPT ![s].live = FALSE, ![s].api = "returned"]
  /\ poll' = Refreshed(s)
  /\ UNCHANGED <<server, loaded, tempId, page, get, history, used, meter, behind>>

\* Slip: only the flag is cleared.
BubbleKept(s) ==
  LET c == call[s].conv IN
    /\ Patch(c, [byId[c] EXCEPT !.sending = FALSE, !.error = "send"])
    /\ controllers' = [controllers EXCEPT ![c] = 0]

\* Slip: only the bubble goes.
BubbleGoneOnly(s) ==
  LET c == call[s].conv IN
    /\ Patch(c, [byId[c] EXCEPT
         !.error = "send",
         !.messages = Kept(@, {i \in DOMAIN @ : @[i].id # call[s].assistant})])
    /\ controllers' = [controllers EXCEPT ![c] = 0]

\* onError.
BubbleGone(s) ==
  LET c == call[s].conv IN
    /\ Patch(c, [byId[c] EXCEPT
         !.sending = FALSE, !.error = "send",
         !.messages = Kept(@, {i \in DOMAIN @ : @[i].id # call[s].assistant})])
    /\ controllers' = [controllers EXCEPT ![c] = 0]

\* The api refuses the request, or its run fails with a frame that says so.
Refused(s) ==
  /\ call[s].live /\ call[s].api \in {"request", "stream"}
  /\ BubbleGone(s)
  /\ call' = [call EXCEPT ![s].live = FALSE, ![s].api = "returned"]
  /\ UNCHANGED <<server, loaded, tempId, page, get, history, usage>>

\* fetch or read throws, or the body ends: send returns or rejects, and no
\* handler is called.
Broken(s) ==
  /\ Breakable
  /\ call[s].live
  /\ call' = [call EXCEPT ![s].live = FALSE]
  /\ broken' = broken \cup {call[s].conv}
  /\ UNCHANGED <<server, byId, loaded, controllers, tempId, page, get, hasty, usage>>

-----------------------------------------------------------------------------
(* The api, which learns late or never that the client has gone. *)

Store(s, role) ==
  /\ rows' = [rows EXCEPT ![call[s].conv] =
                Append(@, [id |-> nextRow, role |-> role])]
  /\ nextRow' = nextRow + 1
  /\ UNCHANGED <<byId, loaded, controllers, tempId, page, get, history, usage>>

StoreUser(s) ==
  /\ call[s].api = "request"
  /\ call' = [call EXCEPT ![s].api = "stream"]
  /\ Store(s, "user")

StoreReply(s) ==
  /\ call[s].api = "stream"
  /\ call' = [call EXCEPT ![s].api = "stored", ![s].reply = nextRow]
  /\ Store(s, "assistant")

\* recordMark, whose error is logged.
Charge(s) ==
  /\ call[s].api = "stored"
  /\ call' = [call EXCEPT ![s].api = "charged"]
  /\ used' \in {used, used + 1}
  /\ UNCHANGED <<server, byId, loaded, controllers, tempId, page, get, history,
                 meter, poll, behind>>

\* The client has gone; a charge it is not told of is not fetched.
GiveUp(s) ==
  /\ ~call[s].live /\ call[s].api # "returned"
  /\ call' = [call EXCEPT ![s].api = "returned"]
  /\ behind' = (behind \/ call[s].api = "charged")
  /\ UNCHANGED <<server, byId, loaded, controllers, tempId, page, get, history,
                 used, meter, poll>>

-----------------------------------------------------------------------------
(* The usage meter. *)

ReadUsage(s) ==
  /\ poll[s].at = "sent"
  /\ poll' = [poll EXCEPT ![s] = [at |-> "read", used |-> used]]
  /\ UNCHANGED <<server, byId, loaded, controllers, tempId, page, get, call, history,
                 used, meter, behind>>

\* The answer that comes last is shown, be it the older one.
Metered(s) ==
  /\ poll[s].at = "read"
  /\ meter' = poll[s].used
  /\ poll' = [poll EXCEPT ![s] = NoPoll]
  /\ behind' = (poll[s].used # used /\ (behind \/ poll[s].used < meter))
  /\ UNCHANGED <<server, byId, loaded, controllers, tempId, page, get, call, history,
                 used>>

\* The last count stays.
NotMetered(s) ==
  /\ Breakable
  /\ poll[s].at # "none"
  /\ poll' = [poll EXCEPT ![s] = NoPoll]
  /\ behind' = TRUE
  /\ UNCHANGED <<server, byId, loaded, controllers, tempId, page, get, call, history,
                 used, meter>>

Next ==
  \/ Home
  \/ \E c \in Convs :
       \/ Visit(c) \/ ReadRows(c) \/ Loaded(c) \/ LoadFailed(c)
       \/ Send(c) \/ SendNew(c) \/ Stop(c)
  \/ \E s \in Calls :
       \/ Done(s) \/ Refused(s) \/ Broken(s)
       \/ StoreUser(s) \/ StoreReply(s) \/ Charge(s) \/ GiveUp(s)
  \/ \E s \in 0 .. MaxSends : ReadUsage(s) \/ Metered(s) \/ NotMetered(s)

Spec == Init /\ [][Next]_vars

\* The api answers: a run stores its rows and returns, and frames arrive.
Answers(s) == s \in Calls /\ (Done(s) \/ Refused(s) \/ StoreUser(s) \/ StoreReply(s) \/ Charge(s))

FairSpec == Spec /\ \A s \in 1 .. MaxSends : WF_vars(Answers(s))

-----------------------------------------------------------------------------
(* Properties.  Two ways out of them are the user's and the network's: to  *)
(* send before the load has answered, whose answer then replaces what was  *)
(* sent, and a stream that breaks, which reaches no handler.               *)

Live(c) == {s \in Calls : call[s].live /\ call[s].conv = c}

(***************************************************************************)
(* A stream that is still being read has its bubble in the store, whatever *)
(* page is open, and is the one that Stop would abort.                     *)
(***************************************************************************)
StreamShown ==
  \A s \in Calls :
    LET c == call[s].conv IN
      call[s].live /\ c \notin hasty =>
        /\ \E m \in Range(byId[c].messages) :
             m.id = call[s].assistant /\ m.streaming
        /\ controllers[c] = s

(***************************************************************************)
(* The same for every stream.                                              *)
(***************************************************************************)
EveryStreamShown ==
  \A s \in Calls :
    call[s].live =>
      \E m \in Range(byId[call[s].conv].messages) :
        m.id = call[s].assistant /\ m.streaming

(***************************************************************************)
(* A conversation is sending exactly while a stream of it is being read,   *)
(* so that the composer is neither locked for good nor open too early; and *)
(* no bubble waits for a stream that has ended.                            *)
(***************************************************************************)
SendingIsLive ==
  \A c \in Convs \ (hasty \cup broken) :
    /\ byId[c].sending <=> Live(c) # {}
    /\ \A m \in Range(byId[c].messages) :
         m.streaming => \E s \in Live(c) : m.id = call[s].assistant

(***************************************************************************)
(* A reply once shown stays, and is shown once: no step takes a stored     *)
(* message away again, and no load shows it beside the one that is there.  *)
(***************************************************************************)
RepliesStay ==
  [][\A c \in Convs : \A m \in Range(byId[c].messages) :
       m.id > 0 =>
         LET now == byId'[c].messages
             places == {i \in DOMAIN now : now[i] = m}
         IN  /\ Cardinality(places) <= 1
             /\ c \notin hasty => places # {}]_byId

(***************************************************************************)
(* The meter follows the charges: it shows them all when nothing is under  *)
(* way, unless a client left before it was told, a fetch failed or an      *)
(* older count came last; and the next answer in order puts that right.    *)
(***************************************************************************)
MeterFollows ==
  /\ \A s \in DOMAIN poll : poll[s] = NoPoll
  /\ \A s \in Calls : call[s].api # "charged"
  /\ ~behind
  => meter = used

(***************************************************************************)
(* The composer comes back: no conversation sends for ever, unless its     *)
(* stream broke.                                                           *)
(***************************************************************************)
SendingEnds ==
  \A c \in Convs : byId[c].sending ~> ~byId[c].sending \/ c \in broken
=============================================================================
