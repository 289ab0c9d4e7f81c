-------------------------------- MODULE Chat --------------------------------
(***************************************************************************)
(* The conversation service of the api: the rows of users, conversations,  *)
(* messages and usage_marks, and the handlers that work on them.  A Send   *)
(* is one goroutine that runs a statement at a time and keeps what it has  *)
(* read in local variables, so each statement is an action of its own and  *)
(* the other handlers run between any two of them.                         *)
(*                                                                         *)
(* Abstracted: message bodies, roles and SSE frames; the summary text,     *)
(* kept as the set of message ids it stands for; conversations.updated_at, *)
(* token_usage and the trace column, which no handler reads back.          *)
(***************************************************************************)
EXTENDS Integers, FiniteSets

CONSTANTS
  Users,          \* account rows, each address with its aliases being several
  Subjects,       \* usage keys: subjectHash of a canonical address
  SubjectOf,      \* SubjectOf[u]: the usage key of u
  Owners,         \* the accounts whose address is OWNER_EMAIL
  Convs,          \* conversation rows
  Handlers,       \* Send requests that can be in flight together
  RunsBudget,     \* RUNS_BUDGET_DAILY
  MaxMsg,         \* bound: message ids drawn from the sequence
  CommitInOrder,  \* inserts into a conversation commit in the order of ids
  DBFaults,       \* a statement may fail on a connected request too
  SummaryFaults   \* a run may compact again after a summarization failed

ASSUME ChatAssumption ==
  /\ Users # {} /\ Convs # {}
  /\ SubjectOf \in [Users -> Subjects]
  /\ Owners \subseteq Users
  /\ Handlers # {} /\ IsFiniteSet(Handlers)
  /\ RunsBudget \in Nat
  /\ MaxMsg \in Nat
  /\ CommitInOrder \in BOOLEAN
  /\ DBFaults \in BOOLEAN
  /\ SummaryFaults \in BOOLEAN

VARIABLES
  account,    \* account[u]: the users row of u
  conv,       \* conv[c]: the conversations row of c
  messages,   \* the committed messages rows
  nextId,     \* next value of the messages id sequence
  marks,      \* marks[s]: usage_marks rows of s inside the window
  pc,         \* pc[h]: the statement h is at
  req,        \* req[h]: the caller and the conversation of the request
  alive,      \* alive[h]: the client of h is still connected
  msg,        \* msg[h]: the id h's current or last insert drew
  ctx,        \* ctx[h]: what h has read of the conversation
  fold        \* fold[h]: the last durable compaction of the run

database == <<account, conv, messages, nextId, marks>>
local    == <<req, alive, msg, ctx, fold>>
vars     == <<account, conv, messages, nextId, marks,
              pc, req, alive, msg, ctx, fold>>

Ids == 1 .. MaxMsg

\* The stored summary: through is the watermark, 0 for null.
Summary   == [through : 0 .. MaxMsg, covers : SUBSET Ids]
NoSummary == [through |-> 0, covers |-> {}]

Absent  == "absent"
Live    == "live"
Deleted == "deleted"

ConvRow  == [status : {Absent, Live, Deleted}, owner : Users,
             title : {"none", "auto", "renamed"}, summary : Summary]
Context  == [summary : Summary, tail : SUBSET Ids, first : BOOLEAN]
NoContext == [summary |-> NoSummary, tail |-> {}, first |-> FALSE]

\* The statements of Send up to the stream, the stream, and those after it.
Before == {"own", "budget", "insertUser", "commitUser", "summary", "history"}
After  == {"insertReply", "commitReply", "storeSummary", "mark", "done", "title"}
PC     == {"idle", "stream"} \cup Before \cup After

Inserting(h) == pc[h] \in {"commitUser", "commitReply"}

TypeOK ==
  /\ account \in [Users -> {Absent, Live, Deleted}]
  /\ conv \in [Convs -> ConvRow]
  /\ messages \subseteq [id : Ids, conv : Convs]
  /\ nextId \in 1 .. MaxMsg + 1
  /\ marks \in [Subjects -> Nat]
  /\ pc \in [Handlers -> PC]
  /\ req \in [Handlers -> [user : Users, conv : Convs]]
  /\ alive \in [Handlers -> BOOLEAN]
  /\ msg \in [Handlers -> 0 .. MaxMsg]
  /\ ctx \in [Handlers -> Context]
  /\ fold \in [Handlers -> Summary]
  /\ \A h \in Handlers : Inserting(h) => msg[h] # 0

AnyRequest == CHOOSE r \in [user : Users, conv : Convs] : TRUE

Init ==
  /\ account = [u \in Users |-> Absent]
  /\ conv = [c \in Convs |-> [status |-> Absent, owner |-> AnyRequest.user,
                              title |-> "none", summary |-> NoSummary]]
  /\ messages = {}
  /\ nextId = 1
  /\ marks = [s \in Subjects |-> 0]
  /\ pc = [h \in Handlers |-> "idle"]
  /\ req = [h \in Handlers |-> AnyRequest]
  /\ alive = [h \in Handlers |-> TRUE]
  /\ msg = [h \in Handlers |-> 0]
  /\ ctx = [h \in Handlers |-> NoContext]
  /\ fold = [h \in Handlers |-> NoSummary]

-----------------------------------------------------------------------------
(* The handlers that are one statement. *)

SignUp(u) ==
  /\ account[u] = Absent
  /\ account' = [account EXCEPT ![u] = Live]
  /\ UNCHANGED <<conv, messages, nextId, marks, pc, local>>

\* Conversation rows deleted with the rows of D cascade to their messages.
DropConvs(D) ==
  /\ conv' = [c \in Convs |-> IF c \in D
                THEN [conv[c] EXCEPT !.status = Deleted, !.title = "none",
                                     !.summary = NoSummary]
                ELSE conv[c]]
  /\ messages' = {m \in messages : m.conv \notin D}

\* Slip: the ownership query without its user_id condition.
OwnedByAnyone(u) == {c \in Convs : conv[c].status = Live}

OwnedBy(u) == {c \in Convs : conv[c].status = Live /\ conv[c].owner = u}

DeleteAccount(u) ==
  /\ account[u] = Live
  /\ account' = [account EXCEPT ![u] = Deleted]
  /\ DropConvs(OwnedBy(u))
  /\ UNCHANGED <<nextId, marks, pc, local>>

CreateConv(u, c) ==
  /\ account[u] = Live
  /\ conv[c].status = Absent
  /\ conv' = [conv EXCEPT ![c] = [status |-> Live, owner |-> u,
                                  title |-> "none", summary |-> NoSummary]]
  /\ UNCHANGED <<account, messages, nextId, marks, pc, local>>

Rename(u, c) ==
  /\ c \in OwnedBy(u)
  /\ conv' = [conv EXCEPT ![c].title = "renamed"]
  /\ UNCHANGED <<account, messages, nextId, marks, pc, local>>

DeleteConv(u, c) ==
  /\ c \in OwnedBy(u)
  /\ DropConvs({c})
  /\ UNCHANGED <<account, nextId, marks, pc, local>>

\* A mark leaves the rolling window; the row itself is dropped later.
ExpireMark(s) ==
  /\ marks[s] > 0
  /\ marks' = [marks EXCEPT ![s] = @ - 1]
  /\ UNCHANGED <<account, conv, messages, nextId, pc, local>>

-----------------------------------------------------------------------------
(* Send, one action per statement. *)

Goto(h, label) == pc' = [pc EXCEPT ![h] = label]

\* The handler returns: its local variables are gone.
Return(h) ==
  /\ Goto(h, "idle")
  /\ req' = [req EXCEPT ![h] = AnyRequest]
  /\ alive' = [alive EXCEPT ![h] = TRUE]
  /\ msg' = [msg EXCEPT ![h] = 0]
  /\ ctx' = [ctx EXCEPT ![h] = NoContext]
  /\ fold' = [fold EXCEPT ![h] = NoSummary]

\* The access token names u even after the account has been deleted.
Receive(h, u, c) ==
  /\ pc[h] = "idle"
  /\ account[u] # Absent
  /\ Goto(h, "own")
  /\ req' = [req EXCEPT ![h] = [user |-> u, conv |-> c]]
  /\ UNCHANGED <<database, alive, msg, ctx, fold>>

\* The request context is cancelled: no later statement of h succeeds.
Disconnect(h) ==
  /\ pc[h] # "idle"
  /\ alive[h]
  /\ alive' = [alive EXCEPT ![h] = FALSE]
  /\ UNCHANGED <<database, pc, req, msg, ctx, fold>>

MayFail(h) == DBFaults \/ ~alive[h]

User(h)    == req[h].user
Conv(h)    == req[h].conv
Subject(h) == SubjectOf[User(h)]

\* A failed statement of these ends the handler (JSON error or SSE error).
Abort(h) ==
  /\ pc[h] \in Before \cup {"insertReply", "commitReply"}
  /\ MayFail(h)
  /\ Return(h)
  /\ UNCHANGED database

CheckOwner(h) ==
  /\ pc[h] = "own"
  /\ alive[h]
  /\ IF Conv(h) \in OwnedBy(User(h))
       THEN Goto(h, "budget") /\ UNCHANGED local
       ELSE Return(h)
  /\ UNCHANGED database

WithinBudget(h) ==
  \/ User(h) \in Owners
  \/ marks[Subject(h)] < RunsBudget

CheckBudget(h) ==
  /\ pc[h] = "budget"
  /\ alive[h]
  /\ IF account[User(h)] = Live /\ WithinBudget(h)
       THEN Goto(h, "insertUser") /\ UNCHANGED local
       ELSE Return(h)
  /\ UNCHANGED database

\* An insert draws its id first and becomes visible only when it commits.
DrawId(h, from, to) ==
  /\ pc[h] = from
  /\ alive[h]
  /\ nextId <= MaxMsg
  /\ msg' = [msg EXCEPT ![h] = nextId]
  /\ nextId' = nextId + 1
  /\ Goto(h, to)
  /\ UNCHANGED <<account, conv, messages, marks, req, alive, ctx, fold>>

MyTurn(h) ==
  CommitInOrder =>
    \A g \in Handlers :
      Inserting(g) /\ Conv(g) = Conv(h) => msg[h] <= msg[g]

\* Slip: no foreign key.
AcceptsAlways(h) == TRUE

\* The foreign key of messages fails the insert once the row is gone.
Accepts(h) == conv[Conv(h)].status = Live

Commit(h, from, to) ==
  /\ pc[h] = from
  /\ alive[h]
  /\ MyTurn(h)
  /\ IF Accepts(h)
       THEN /\ messages' = messages \cup {[id |-> msg[h], conv |-> Conv(h)]}
            /\ Goto(h, to)
            /\ UNCHANGED local
       ELSE Return(h) /\ UNCHANGED messages
  /\ UNCHANGED <<account, conv, nextId, marks>>

InsertUser(h) == DrawId(h, "insertUser", "commitUser")
CommitUser(h) == Commit(h, "commitUser", "summary")

ReadSummary(h) ==
  /\ pc[h] = "summary"
  /\ alive[h]
  /\ IF conv[Conv(h)].status = Live
       THEN /\ ctx' = [ctx EXCEPT ![h].summary = conv[Conv(h)].summary]
            /\ Goto(h, "history")
            /\ UNCHANGED <<req, alive, msg, fold>>
       ELSE Return(h)
  /\ UNCHANGED database

\* Slip: the watermark read again with the history.
TailAfterStored(h, c) ==
  {m.id : m \in {n \in messages : /\ n.conv = c
                                  /\ n.id > conv[c].summary.through}}

\* The rows of c after the watermark h read with its summary.
Tail(h, c) ==
  {m.id : m \in {n \in messages : /\ n.conv = c
                                  /\ n.id > ctx[h].summary.through}}

\* The row loop does not ask why it ended: a connection lost on the way
\* leaves the handler with the first rows.  (Lost to the client's own
\* disconnect, they go nowhere: the run fails at once, as Abort does.)
Readings(T) ==
  {T} \cup {S \in {{i \in T : i < n} : n \in T} : DBFaults}

ReadHistory(h) ==
  /\ pc[h] = "history"
  /\ alive[h]
  /\ \E tail \in Readings(Tail(h, Conv(h))) :
       ctx' = [ctx EXCEPT ![h] =
                 [summary |-> @.summary, tail |-> tail,
                  first |-> /\ @.summary.through = 0
                            /\ \E i \in Ids : tail = {i}]]
  /\ Goto(h, "stream")
  /\ UNCHANGED <<database, req, alive, msg, fold>>

\* Slip: the new summary written without the one it replaces.
FoldTailThrough(h, i) ==
  [through |-> i, covers |-> {j \in ctx[h].tail : j <= i}]

\* What the run hands back when it has folded the messages up to i.
FoldThrough(h, i) ==
  [through |-> i,
   covers  |-> ctx[h].summary.covers \cup {j \in ctx[h].tail : j <= i}]

\* After a failed summarization a placeholder stands in for the stored
\* summary and the rows up to k, and the next one summarizes the placeholder.
FoldAfterLoss(h, k, i) ==
  [through |-> i, covers |-> {j \in ctx[h].tail : k < j /\ j <= i}]

Folds(h) ==
  {FoldThrough(h, i) : i \in ctx[h].tail}
    \cup {S \in {FoldAfterLoss(h, k, i) : k \in {0} \cup ctx[h].tail,
                                          i \in ctx[h].tail} :
            SummaryFaults /\ S.covers # {}}

AgentReplies(h) ==
  /\ pc[h] = "stream"
  /\ alive[h]
  /\ \/ UNCHANGED fold
     \/ \E S \in Folds(h) : fold' = [fold EXCEPT ![h] = S]
  /\ Goto(h, "insertReply")
  /\ UNCHANGED <<database, req, alive, msg, ctx>>

\* An error frame, a broken stream or a cancelled request: no reply row.
AgentFails(h) ==
  /\ pc[h] = "stream"
  /\ Return(h)
  /\ UNCHANGED database

\* Slip: the answer marked and announced before the insert has committed.
InsertReplyUnawaited(h) == DrawId(h, "insertReply", "storeSummary")

InsertReply(h) == DrawId(h, "insertReply", "commitReply")
CommitReply(h) == Commit(h, "commitReply", "storeSummary")

\* The error of this statement is ignored; a deleted row matches nothing.
StoreSummary(h) ==
  /\ pc[h] = "storeSummary"
  /\ \/ /\ alive[h]
        /\ fold[h].through # 0
        /\ conv[Conv(h)].status = Live
        /\ conv' = [conv EXCEPT ![Conv(h)].summary = fold[h]]
     \/ /\ \/ fold[h].through = 0
           \/ conv[Conv(h)].status # Live
           \/ MayFail(h)
        /\ UNCHANGED conv
  /\ Goto(h, "mark")
  /\ UNCHANGED <<account, messages, nextId, marks, local>>

\* Slip: the mark retried after an error, which may have taken effect.
RecordMarkRetried(h) ==
  /\ pc[h] = "mark"
  /\ alive[h]
  /\ marks' = [marks EXCEPT ![Subject(h)] = @ + 1]
  /\ Goto(h, "done") \/ UNCHANGED pc
  /\ UNCHANGED <<account, conv, messages, nextId, local>>

\* The error of this one is only logged.
RecordMark(h) ==
  /\ pc[h] = "mark"
  /\ \/ /\ alive[h]
        /\ marks' = [marks EXCEPT ![Subject(h)] = @ + 1]
     \/ MayFail(h) /\ UNCHANGED marks
  /\ Goto(h, "done")
  /\ UNCHANGED <<account, conv, messages, nextId, local>>

SendDone(h) ==
  /\ pc[h] = "done"
  /\ IF ctx[h].first
       THEN Goto(h, "title") /\ UNCHANGED local
       ELSE Return(h)
  /\ UNCHANGED database

SetTitle(h) ==
  /\ pc[h] = "title"
  /\ \/ /\ alive[h]
        /\ conv[Conv(h)].status = Live
        /\ conv' = [conv EXCEPT ![Conv(h)].title = "auto"]
     \/ /\ conv[Conv(h)].status # Live \/ MayFail(h)
        /\ UNCHANGED conv
  /\ Return(h)
  /\ UNCHANGED <<account, messages, nextId, marks>>

Send(h) ==
  \/ CheckOwner(h)   \/ CheckBudget(h) \/ InsertUser(h)   \/ CommitUser(h)
  \/ ReadSummary(h)  \/ ReadHistory(h) \/ AgentReplies(h) \/ AgentFails(h)
  \/ InsertReply(h)  \/ CommitReply(h) \/ StoreSummary(h) \/ RecordMark(h)
  \/ SendDone(h)     \/ SetTitle(h)    \/ Abort(h)

Next ==
  \/ \E u \in Users : SignUp(u) \/ DeleteAccount(u)
  \/ \E u \in Users, c \in Convs :
       CreateConv(u, c) \/ Rename(u, c) \/ DeleteConv(u, c)
  \/ \E s \in Subjects : ExpireMark(s)
  \/ \E h \in Handlers :
       \/ \E u \in Users, c \in Convs : Receive(h, u, c)
       \/ Disconnect(h)
       \/ Send(h)

Spec == Init /\ [][Next]_vars

-----------------------------------------------------------------------------
(* Properties. *)

(***************************************************************************)
(* The ownership check is made once, before the body is read, and every    *)
(* later statement relies on it: a handler past the check that finds its   *)
(* conversation is working for the owner, whatever was deleted meanwhile.  *)
(***************************************************************************)
CheckedOwnership ==
  \A h \in Handlers :
    /\ pc[h] \notin {"idle", "own"}
    /\ conv[Conv(h)].status = Live
    => conv[Conv(h)].owner = User(h)

(***************************************************************************)
(* Deletes cascade and inserts are refused by the foreign keys: a reply    *)
(* that arrives after its conversation or account was deleted leaves no    *)
(* row behind, and no conversation outlives its account.                   *)
(***************************************************************************)
NoOrphans ==
  /\ \A m \in messages : conv[m.conv].status = Live
  /\ \A c \in Convs :
       conv[c].status = Live => account[conv[c].owner] = Live

(***************************************************************************)
(* What the stored watermark hides from later runs, the stored summary     *)
(* stands for: no committed message of a conversation is at or below the   *)
(* watermark without being one of those the summary was written from,      *)
(* however the reads and the overwrites of concurrent sends interleave.    *)
(***************************************************************************)
WatermarkCovered ==
  \A c \in Convs :
    conv[c].status = Live =>
      \A m \in messages :
        m.conv = c /\ m.id <= conv[c].summary.through
          => m.id \in conv[c].summary.covers

(***************************************************************************)
(* The summary and the history are read by two statements, between which   *)
(* another send may move the watermark.  What the agent is sent still      *)
(* stands for every message of the conversation up to the caller's own, as *)
(* long as the history is read to its end.                                 *)
(***************************************************************************)
ContextComplete ==
  \A h \in Handlers :
    pc[h] = "stream" =>
      \A m \in messages :
        m.conv = Conv(h) /\ m.id <= msg[h]
          => m.id \in ctx[h].summary.covers \cup ctx[h].tail

(***************************************************************************)
(* Marks, and so "done" and the title, come after the reply is durable:    *)
(* the id "done" carries is a row unless the conversation was deleted.     *)
(***************************************************************************)
ChargedRepliesStored ==
  \A h \in Handlers :
    /\ pc[h] \in {"storeSummary", "mark", "done", "title"}
    /\ conv[Conv(h)].status = Live
    => [id |-> msg[h], conv |-> Conv(h)] \in messages

Metered == {s \in Subjects : \A u \in Users : SubjectOf[u] = s => u \notin Owners}

Admitted == {"insertUser", "commitUser", "summary", "history", "stream",
             "insertReply", "commitReply", "storeSummary", "mark"}

InFlight(s) == {h \in Handlers : pc[h] \in Admitted /\ Subject(h) = s}

Admission == INSTANCE RunBudget WITH
  Subjects <- Metered,
  Runs     <- Handlers,
  Budget   <- RunsBudget,
  used     <- [s \in Metered |-> marks[s]],
  running  <- [s \in Metered |-> InFlight(s)]

(***************************************************************************)
(* Seen from the usage keys that are not the owner's, the service is the   *)
(* admission control of RunBudget: deleting an account or signing up again *)
(* never gives runs back, and only a stored reply is ever charged.         *)
(***************************************************************************)
ImplementsAdmission == Admission!Spec

(***************************************************************************)
(* Sends that pass the check together overshoot the budget by at most the  *)
(* number of them in flight beside the last one admitted.                  *)
(***************************************************************************)
BudgetOvershoot == Admission!OvershootBounded

=============================================================================
