------------------------------- MODULE AgentRun -------------------------------
(***************************************************************************)
(* One run of the agent, or of a subagent it delegates to: the loop        *)
(* compact, model, tools of the two graphs over a growing list of          *)
(* messages, cut back by summarization when it gets too long.              *)
(*                                                                         *)
(* A message is its kind, its approximate size in tokens, and the rows of  *)
(* the stored conversation its text stands for.  Abstracted: texts, tool   *)
(* names and arguments; the frames the run is reported with, but for the   *)
(* last summary the api will store.                                        *)
(***************************************************************************)
EXTENDS Integers, Sequences, FiniteSets, Functions

CONSTANTS
  Rows,            \* rows of the conversation when the run starts
  Sizes,           \* message sizes
  MaxCalls,        \* tool calls the model makes in one turn
  Threshold,       \* summary_threshold
  Keep,            \* summary_keep_ratio of it
  RecursionLimit,  \* recursion_limit: nodes a run may execute
  MaxSearches,     \* max_searches
  SummaryFaults    \* a summarization may fail or come back empty

ASSUME RunAssumption ==
  /\ Rows \in Nat \ {0}
  /\ Sizes # {} /\ Sizes \subseteq Nat \ {0}
  /\ MaxCalls \in Nat /\ Threshold \in Nat /\ Keep \in Nat
  /\ RecursionLimit \in Nat /\ MaxSearches \in Nat
  /\ SummaryFaults \in BOOLEAN

VARIABLES
  searching,  \* the subagent's graph, whose tool node counts searches
  start,      \* the watermark the conversation was read with
  messages,   \* the state of the graph
  pc,         \* the node to run next
  steps,      \* nodes run
  searches,   \* search_count
  report,     \* the last summary whose node_end names a row
  lost        \* history: rows that a lost summary should have stood for

vars == <<searching, start, messages, pc, steps, searches, report, lost>>

Ids == 1 .. Rows

\* A turn of the user or of the assistant; an assistant's turn that calls
\* tools; a tool's result.  The row a turn is, 0 for none.
Message == [kind : {"turn", "calls", "tool"}, row : 0 .. Rows, size : Sizes,
            calls : 0 .. MaxCalls, stands : SUBSET Ids]

Turn(row, size, stands) ==
  [kind |-> "turn", row |-> row, size |-> size, calls |-> 0, stands |-> stands]

Calling(n, size) ==
  [kind |-> "calls", row |-> 0, size |-> size, calls |-> n, stands |-> {}]

Result(size) ==
  [kind |-> "tool", row |-> 0, size |-> size, calls |-> 0, stands |-> {}]

Nodes == {"compact", "agent", "tools"}
NoReport == [through |-> 0, covers |-> {}]

TypeOK ==
  /\ searching \in BOOLEAN
  /\ start \in 0 .. Rows
  /\ messages \in Seq(Message)
  /\ pc \in Nodes \cup {"ended", "failed"}
  /\ steps \in 0 .. RecursionLimit
  /\ searches \in Nat
  /\ report \in [through : 0 .. Rows, covers : SUBSET Ids]
  /\ lost \subseteq Ids

\* The api sends the stored summary, if there is one, and the rows after its
\* watermark; the subagent is sent its task, which is no row.
Init ==
  /\ searching \in BOOLEAN
  /\ start \in IF searching THEN {Rows} ELSE 0 .. Rows - 1
  /\ \E size \in [0 .. Rows -> Sizes] :
       LET tail    == [i \in 1 .. Rows - start |->
                         Turn(start + i, size[start + i], {start + i})]
           opening == <<Turn(0, size[0], 1 .. start)>>
       IN messages = IF start = 0 THEN tail ELSE opening \o tail
  /\ pc = "compact"
  /\ steps = 0
  /\ searches = 0
  /\ report = NoReport
  /\ lost = {}

-----------------------------------------------------------------------------
(* Compaction. *)

Size(s) == FoldFunction(LAMBDA m, n : m.size + n, 0, s)

Suffix(s, k) == SubSeq(s, k, Len(s))

\* The newest messages that fit the budget, and the newest whatever its size.
Fits(s, k) == k = Len(s) \/ Size(Suffix(s, k)) <= Keep

Newest(s) == CHOOSE k \in 1 .. Len(s) : /\ Fits(s, k)
                                        /\ \A j \in 1 .. k - 1 : ~Fits(s, j)

\* Slip: a tail that may begin with the result of a folded call.
CutAtResult(s) == Newest(s)

\* Slip: the message that overflows the budget is kept too.
CutLate(s) ==
  LET k == IF Newest(s) = 1 THEN 1 ELSE Newest(s) - 1
  IN  CHOOSE j \in 1 .. k : /\ j = 1 \/ s[j].kind # "tool"
                            /\ \A i \in j + 1 .. k : s[i].kind = "tool"

\* A tail never begins with the result of a call that is folded.
Cut(s) ==
  CHOOSE j \in 1 .. Newest(s) :
    /\ j = 1 \/ s[j].kind # "tool"
    /\ \A i \in j + 1 .. Newest(s) : s[i].kind = "tool"

Folded(s) == SubSeq(s, 1, Cut(s) - 1)

\* Slip: off by one.
KeptFromNext(s) == Suffix(s, Cut(s) + 1)

Kept(s) == Suffix(s, Cut(s))

RowsIn(s) == {s[i].row : i \in 1 .. Len(s)} \ {0}
Stands(s) == UNION {s[i].stands : i \in 1 .. Len(s)}

\* Slip: a summary written from stored rows, without the one it replaces.
SummaryOfRows(s) == RowsIn(s)

SummaryOf(s) == Stands(s)

\* Slip: the newest row of all the messages.
NewestRowOfAll(s) ==
  IF RowsIn(messages) = {} THEN 0
  ELSE CHOOSE i \in RowsIn(messages) : \A j \in RowsIn(messages) : j <= i

NewestRow(s) ==
  IF RowsIn(s) = {} THEN 0 ELSE CHOOSE i \in RowsIn(s) : \A j \in RowsIn(s) : j <= i

-----------------------------------------------------------------------------
(* The nodes. *)

\* Slip: a node the recursion limit does not count.
RunningUncounted(node) ==
  /\ pc = node
  /\ UNCHANGED steps

Running(node) ==
  /\ pc = node
  /\ steps < RecursionLimit
  /\ steps' = steps + 1

Due == Size(messages) >= Threshold /\ Cut(messages) > 1

PassOn ==
  /\ Running("compact")
  /\ ~Due
  /\ pc' = "agent"
  /\ UNCHANGED <<searching, start, messages, searches, report, lost>>

\* The node_end of the summary names the newest row folded, if there is one.
Summarize(size) ==
  /\ Running("compact")
  /\ Due
  /\ LET head == Folded(messages) IN
       /\ messages' = <<Turn(0, size, SummaryOf(head))>> \o Kept(messages)
       /\ report' = IF NewestRow(head) = 0 THEN report
                    ELSE [through |-> NewestRow(head), covers |-> SummaryOf(head)]
  /\ pc' = "agent"
  /\ UNCHANGED <<searching, start, searches, lost>>

\* A placeholder, or a summary without text, whose node was never opened and
\* whose end the api ignores.
SummaryLost(size) ==
  /\ SummaryFaults
  /\ Running("compact")
  /\ Due
  /\ messages' = <<Turn(0, size, {})>> \o Kept(messages)
  /\ lost' = lost \cup Stands(Folded(messages))
  /\ pc' = "agent"
  /\ UNCHANGED <<searching, start, searches, report>>

ModelCalls(n, size) ==
  /\ Running("agent")
  /\ messages' = Append(messages, Calling(n, size))
  /\ pc' = "tools"
  /\ UNCHANGED <<searching, start, searches, report, lost>>

ModelAnswers(size) ==
  /\ Running("agent")
  /\ messages' = Append(messages, Turn(0, size, {}))
  /\ pc' = "ended"
  /\ UNCHANGED <<searching, start, searches, report, lost>>

Asked == messages[Len(messages)].calls

\* Searches beyond the limit are not made.
Made == IF searching /\ Asked > MaxSearches - searches
          THEN MaxSearches - searches ELSE Asked

\* Slip: only the calls that were made are answered.
AnsweredMade == Made

\* Every call is answered, made or not.
Answered == Asked

Tools ==
  /\ Running("tools")
  /\ \E size \in [1 .. Answered -> Sizes] :
       messages' = messages \o [i \in 1 .. Answered |-> Result(size[i])]
  /\ searches' = searches + (IF searching THEN Made ELSE 0)
  /\ pc' = "compact"
  /\ UNCHANGED <<searching, start, report, lost>>

\* A node raises, or there are nodes left to run at the limit.
RunFails ==
  /\ pc \in Nodes
  /\ pc' = "failed"
  /\ UNCHANGED <<searching, start, messages, steps, searches, report, lost>>

Terminating == pc \in {"ended", "failed"} /\ UNCHANGED vars

Next ==
  \/ PassOn
  \/ \E size \in Sizes :
       \/ Summarize(size) \/ SummaryLost(size) \/ ModelAnswers(size)
       \/ \E n \in 1 .. MaxCalls : ModelCalls(n, size)
  \/ Tools
  \/ RunFails
  \/ Terminating

\* A node that has started returns or raises.
Spec == Init /\ [][Next]_vars /\ WF_vars(Next)

-----------------------------------------------------------------------------
(* Properties. *)

\* Calls are followed by all their results, and results follow their call.
Paired(s) ==
  /\ \A i \in 1 .. Len(s) :
       i + s[i].calls <= Len(s)
       /\ \A j \in i + 1 .. i + s[i].calls : s[j].kind = "tool"
  /\ \A i \in 1 .. Len(s) :
       s[i].kind = "tool" => \E j \in 1 .. i - 1 : i <= j + s[j].calls

(***************************************************************************)
(* What a model is given, the agent's or the summarizer, never has a       *)
(* result without its call or a call without its results, wherever the     *)
(* history was cut and however many searches were skipped.                 *)
(***************************************************************************)
CallsPaired ==
  /\ pc = "agent" => Paired(messages)
  /\ pc = "compact" /\ Due => Paired(Folded(messages))

(***************************************************************************)
(* The messages stand for every row of the conversation that no lost       *)
(* summary took away, each once and in order; and what lost summaries take *)
(* away is the oldest rows.                                                *)
(***************************************************************************)
HistoryKept ==
  /\ Stands(messages) = Ids \ lost
  /\ \A i, j \in 1 .. Len(messages) :
       i < j => \A a \in messages[i].stands, b \in messages[j].stands : a < b
  /\ \A a \in Stands(messages) : \A b \in Ids : a < b => b \in Stands(messages)

(***************************************************************************)
(* Compaction keeps a run in the context window: what the agent's model is *)
(* given is below the threshold, or it is a summary and the newest         *)
(* messages within the budget, and beyond the budget only the results of a *)
(* call whose other results fit, or the newest message of all.             *)
(***************************************************************************)
ContextBounded ==
  pc = "agent" =>
    \/ Size(messages) < Threshold
    \/ Len(messages) <= 2
    \/ \E k \in {1, 2} :
         LET m == messages[k]
             whole == IF m.kind = "calls" THEN k + m.calls + 1 ELSE k
         IN  Size(Suffix(messages, whole)) <= Keep

\* What the Send has read: the run's conversation, until it returns.
ReadBySend ==
  [h \in {"send"} |->
     IF pc = "failed"
       THEN [summary |-> NoReport, tail |-> {}, first |-> FALSE]
       ELSE [summary |-> [through |-> start, covers |-> 1 .. start],
             tail |-> start + 1 .. Rows, first |-> FALSE]]

\* The api's Send, of which this run is the stream.
Caller == INSTANCE Chat WITH
  Users <- {"user"}, Subjects <- {"subject"},
  SubjectOf <- [u \in {"user"} |-> "subject"], Owners <- {},
  Convs <- {"conv"}, Handlers <- {"send"}, RunsBudget <- 1, MaxMsg <- Rows,
  CommitInOrder <- TRUE, DBFaults <- FALSE,
  account <- [u \in {"user"} |-> "live"],
  conv <- [c \in {"conv"} |-> "row"], messages <- {}, nextId <- Rows + 1,
  marks <- [s \in {"subject"} |-> 0],
  pc <- [h \in {"send"} |-> CASE pc = "ended"  -> "insertReply"
                              [] pc = "failed" -> "idle"
                              [] OTHER         -> "stream"],
  req <- [h \in {"send"} |-> [user |-> "user", conv |-> "conv"]],
  alive <- [h \in {"send"} |-> TRUE],
  msg <- [h \in {"send"} |-> IF pc = "failed" THEN 0 ELSE Rows],
  ctx <- ReadBySend,
  fold <- [h \in {"send"} |-> IF pc = "ended" THEN report ELSE NoReport]

(***************************************************************************)
(* The agent's run is the stream of a Send: it ends with a reply and one   *)
(* of the summaries Chat allows for, whatever it compacted and lost on the *)
(* way, or it fails.  A subagent's summaries name no row.                  *)
(***************************************************************************)
ImplementsStream ==
  [][IF searching THEN report = NoReport
     ELSE Caller!AgentReplies("send") \/ Caller!AgentFails("send")]_(Caller!vars)

(***************************************************************************)
(* A run comes to an end, however often the model calls tools.             *)
(***************************************************************************)
Terminates == <>(pc \in {"ended", "failed"})
=============================================================================
