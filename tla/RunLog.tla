------------------------------- MODULE RunLog -------------------------------
(***************************************************************************)
(* The event log of a run on its way through the system: LangGraph's       *)
(* events become frames at the agent (Translator), the api folds them into *)
(* the trace, the reply and the summary it will store and passes them on,  *)
(* and the web folds them once more into what it shows of the reply: a     *)
(* tree of rows that pulse while they run, a plan, and a text to copy.     *)
(*                                                                         *)
(* Model and tool runs are numbered as they start; the run of a tool is    *)
(* the scope of what runs inside it.  A chunk of text is its place in all  *)
(* that was streamed.  Abstracted: usage and meta frames, tool inputs, and *)
(* the choice of compacting and of calling tools, which is the model's in  *)
(* AgentRun.  A client that leaves is in Chat and MessagesStore.           *)
(***************************************************************************)
EXTENDS Integers, Sequences, SequencesExt

CONSTANTS
  MaxRuns,    \* bound: model and tool runs
  MaxChunks,  \* bound: chunks streamed
  MaxCalls,   \* tool calls of one turn
  Ahead       \* bound: frames a reader may be behind when more are written

ASSUME RunLogAssumption ==
  /\ MaxRuns \in Nat /\ MaxChunks \in Nat /\ MaxCalls \in Nat /\ Ahead \in Nat

VARIABLES
  runs,       \* runs[r]: what r is, where it runs, and how far it is
  graph,      \* graph[s]: where the graph of scope s is
  said,       \* history: the node each chunk was streamed to
  openTools,  \* Translator._open_tools
  started,    \* Translator._started
  toApi,      \* frames on their way to the api
  nodes,      \* the api's nodes
  reply,      \* the api's reply text
  summary,    \* the api's summaryText and summaryThroughID
  stored,     \* the row of the reply
  toWeb,      \* frames on their way to the browser
  shown,      \* the nodes of the bubble
  ended       \* how the api's answer ended, as far as the browser has read

agent == <<runs, graph, said, openTools, started>>
api   == <<nodes, reply, summary, stored>>
web   == <<shown, ended>>
vars  == <<runs, graph, said, openTools, started, toApi, nodes, reply, summary,
           stored, toWeb, shown, ended>>

RunIds == 1 .. MaxRuns
Scopes == 0 .. MaxRuns    \* 0 is the agent's own graph

\* A set_todos call is a "todo" if its input has a todo that can be read.
Kinds == {"summarizer", "model", "todo", "noplan", "subagent", "search"}
Run   == [kind : Kinds, scope : Scopes, at : {"running", "ended", "failed"}]
Graph == [at : {"none", "compact", "summary", "agent", "model", "tools", "ended"},
          calls : 0 .. MaxCalls]

\* A tool's run is a node, a model's run has one for each part it streams.
Parts  == {"tool", "text", "reasoning", "compaction"}
NodeId == RunIds \X Parts
NoNode == <<0, "none">>
NoOutput == -1

Text  == Seq(1 .. MaxChunks)
Node  == [id : NodeId, parent : NodeId \cup {NoNode}, text : Text,
          output : {NoOutput} \cup Scopes]
Frame == [event : {"node", "delta", "node_end", "end", "error", "done", "eof"},
          id : NodeId \cup {NoNode}, parent : NodeId \cup {NoNode},
          text : Text, output : {NoOutput} \cup Scopes]
Summary   == [through : Scopes, text : Text]
NoSummary == [through |-> 0, text |-> <<>>]

\* The row's trace, empty for null, its content, and the summary beside it.
Stored  == [trace : Seq(Node), content : Text, summary : Summary]
NoReply == [trace |-> <<>>, content |-> <<>>, summary |-> [through |-> -1, text |-> <<>>]]

TypeOK ==
  /\ runs \in Seq(Run) /\ Len(runs) <= MaxRuns
  /\ graph \in [Scopes -> Graph]
  /\ said \in Seq(NodeId)
  /\ openTools \subseteq RunIds
  /\ started \subseteq NodeId
  /\ toApi \in Seq(Frame) /\ toWeb \in Seq(Frame)
  /\ nodes \in Seq(Node) /\ shown \in Seq(Node)
  /\ reply \in Text
  /\ summary \in Summary
  /\ stored \in Stored \cup {NoReply}
  /\ ended \in {"no", "done", "error", "eof"}

Init ==
  /\ runs = <<>>
  /\ graph = [s \in Scopes |-> [at |-> IF s = 0 THEN "compact" ELSE "none",
                                calls |-> 0]]
  /\ said = <<>>
  /\ openTools = {} /\ started = {}
  /\ toApi = <<>> /\ toWeb = <<>>
  /\ nodes = <<>> /\ reply = <<>> /\ summary = NoSummary
  /\ stored = NoReply
  /\ shown = <<>> /\ ended = "no"

-----------------------------------------------------------------------------
(* The agent: a step of LangGraph, its event, and the frames it becomes.   *)

FrameOf(event, id) == [event |-> event, id |-> id, parent |-> NoNode,
                       text |-> <<>>, output |-> NoOutput]

IsRunning(r) == runs[r].at = "running"
Running(s) == {r \in DOMAIN runs : runs[r].scope = s /\ IsRunning(r)}

\* The api reads, and the stream still has room.
Streaming == graph[0].at # "ended" /\ Len(toApi) <= Ahead

Emit(frames) == toApi' = toApi \o frames
Reach(s, at) == graph' = [graph EXCEPT ![s].at = at]
Begin(kind, s) ==
  /\ Len(runs) < MaxRuns
  /\ runs' = Append(runs, [kind |-> kind, scope |-> s, at |-> "running"])
End(r, how) == runs' = [runs EXCEPT ![r].at = how]

\* Slip: the tool opened last, whatever tool the run is part of.
LastOpened(s) ==
  IF openTools = {} THEN NoNode
  ELSE <<CHOOSE t \in openTools : \A u \in openTools : u <= t, "tool">>

\* The innermost open tool among the ancestors; subagents do not nest.
Parent(s) == IF s \in openTools THEN <<s, "tool">> ELSE NoNode

\* Compaction is due, or it is not and the model comes next.
SummarizerStarts(s) ==
  /\ Streaming /\ graph[s].at = "compact"
  /\ Begin("summarizer", s)
  /\ Reach(s, "summary")
  /\ UNCHANGED <<said, openTools, started, toApi, api, toWeb, web>>

ModelStarts(s) ==
  /\ Streaming /\ graph[s].at \in {"compact", "agent"}
  /\ Begin("model", s)
  /\ Reach(s, "model")
  /\ UNCHANGED <<said, openTools, started, toApi, api, toWeb, web>>

\* The frames of one chunk for a node, which is announced by its first.
TextFrames(id, s) ==
  (IF id \in started THEN <<>>
   ELSE <<[FrameOf("node", id) EXCEPT !.parent = Parent(s)]>>)
  \o <<[FrameOf("delta", id) EXCEPT !.text = <<Len(said) + 1>>]>>

PartsOf(r) == IF runs[r].kind = "summarizer" THEN {"compaction"}
              ELSE {"text", "reasoning"}

Streams(r, part) ==
  /\ Streaming /\ Len(said) < MaxChunks
  /\ IsRunning(r) /\ runs[r].kind \in {"summarizer", "model"}
  /\ part \in PartsOf(r)
  /\ Emit(TextFrames(<<r, part>>, runs[r].scope))
  /\ started' = started \cup {<<r, part>>}
  /\ said' = Append(said, <<r, part>>)
  /\ UNCHANGED <<runs, graph, openTools, api, toWeb, web>>

\* The end of a summary names the newest row it folded: here the summary
\* itself, and none if there is none, as in a subagent.
SummarizerEnds(r, through) ==
  /\ Streaming
  /\ IsRunning(r) /\ runs[r].kind = "summarizer"
  /\ through \in {0} \cup (IF runs[r].scope = 0 THEN {r} ELSE {})
  /\ End(r, "ended")
  /\ Reach(runs[r].scope, "agent")
  /\ Emit(<<[FrameOf("node_end", <<r, "compaction">>) EXCEPT !.output = through]>>)
  /\ UNCHANGED <<said, openTools, started, api, toWeb, web>>

\* No event says so; the graph goes on with a placeholder.
SummarizerFails(r) ==
  /\ Streaming
  /\ IsRunning(r) /\ runs[r].kind = "summarizer"
  /\ End(r, "failed")
  /\ Reach(runs[r].scope, "agent")
  /\ UNCHANGED <<said, openTools, started, toApi, api, toWeb, web>>

\* With n calls to run: a subagent may have none left to make.
ModelCalls(r, n) ==
  /\ Streaming
  /\ IsRunning(r) /\ runs[r].kind = "model"
  /\ n > 0 \/ runs[r].scope # 0
  /\ End(r, "ended")
  /\ graph' = [graph EXCEPT ![runs[r].scope] = [at |-> "tools", calls |-> n]]
  /\ UNCHANGED <<said, openTools, started, toApi, api, toWeb, web>>

\* The last turn of a scope; the agent's ends the run and the stream.
ModelAnswers(r) ==
  /\ Streaming
  /\ IsRunning(r) /\ runs[r].kind = "model"
  /\ End(r, "ended")
  /\ Reach(runs[r].scope, "ended")
  /\ IF runs[r].scope = 0
       THEN Emit(<<FrameOf("end", NoNode), FrameOf("eof", NoNode)>>)
       ELSE UNCHANGED toApi
  /\ UNCHANGED <<said, openTools, started, api, toWeb, web>>

\* The calls of a turn run at the same time.
ToolStarts(s, kind) ==
  /\ Streaming
  /\ graph[s].at = "tools" /\ graph[s].calls > 0
  /\ kind \in IF s = 0 THEN {"todo", "noplan", "subagent"} ELSE {"search"}
  /\ LET r == Len(runs) + 1 IN
       /\ Begin(kind, s)
       /\ graph' = [t \in Scopes |->
            CASE t = s -> [graph[s] EXCEPT !.calls = @ - 1]
              [] t = r /\ kind = "subagent" -> [at |-> "compact", calls |-> 0]
              [] OTHER -> graph[t]]
       /\ openTools' = openTools \cup {r}
       /\ started' = started \cup {<<r, "tool">>}
       /\ Emit(<<[FrameOf("node", <<r, "tool">>) EXCEPT !.parent = Parent(s)]>>)
  /\ UNCHANGED <<said, api, toWeb, web>>

ToolEnds(r) ==
  /\ Streaming
  /\ IsRunning(r) /\ runs[r].kind \in {"todo", "noplan", "subagent", "search"}
  /\ runs[r].kind = "subagent" => graph[r].at = "ended"
  /\ End(r, "ended")
  /\ openTools' = openTools \ {r}
  /\ Emit(<<[FrameOf("node_end", <<r, "tool">>) EXCEPT !.output = r]>>)
  /\ UNCHANGED <<graph, said, started, api, toWeb, web>>

\* A call that raises is answered with its error; its event gives no frame.
ToolRaises(r) ==
  /\ Streaming
  /\ IsRunning(r) /\ runs[r].kind \in {"todo", "noplan", "search"}
  /\ End(r, "failed")
  /\ UNCHANGED <<graph, said, openTools, started, toApi, api, toWeb, web>>

ToolsAnswered(s) ==
  /\ Streaming
  /\ graph[s].at = "tools" /\ graph[s].calls = 0 /\ Running(s) = {}
  /\ Reach(s, "compact")
  /\ UNCHANGED <<runs, said, openTools, started, toApi, api, toWeb, web>>

RunFails ==
  /\ Streaming
  /\ Reach(0, "ended")
  /\ Emit(<<FrameOf("error", NoNode), FrameOf("end", NoNode), FrameOf("eof", NoNode)>>)
  /\ UNCHANGED <<runs, said, openTools, started, api, toWeb, web>>

-----------------------------------------------------------------------------
(* The api. *)

Find(list, id) == {i \in DOMAIN list : list[i].id = id}

\* Slip: text kept of answers only.
AppendTextOnly(list, f) ==
  [i \in DOMAIN list |-> IF list[i].id = f.id /\ f.id[2] = "text"
                           THEN [list[i] EXCEPT !.text = @ \o f.text] ELSE list[i]]

AppendText(list, f) ==
  [i \in DOMAIN list |-> IF list[i].id = f.id
                           THEN [list[i] EXCEPT !.text = @ \o f.text] ELSE list[i]]

\* Slip: whatever scope the text is of.
AnyText(f) == f.id[2] = "text"

\* Only the agent's own text is the answer.
IsAnswer(f) ==
  f.id[2] = "text" /\ \E i \in Find(nodes, f.id) : nodes[i].parent = NoNode

\* A summary that names a row, and whose node was announced.
NewSummary(f) ==
  IF f.id[2] = "compaction" /\ f.output # 0 /\ Find(nodes, f.id) # {}
    THEN [through |-> f.output,
          text |-> nodes[CHOOSE i \in Find(nodes, f.id) : TRUE].text]
    ELSE summary

Room == Len(toWeb) <= Ahead
Head1 == toApi[1]
Took  == toApi' = Tail(toApi)
Send(f) == toWeb' = Append(toWeb, f)

OnNode ==
  /\ Room /\ toApi # <<>> /\ Head1.event = "node"
  /\ nodes' = Append(nodes, [id |-> Head1.id, parent |-> Head1.parent,
                             text |-> <<>>, output |-> NoOutput])
  /\ Took /\ Send(Head1)
  /\ UNCHANGED <<agent, reply, summary, stored, web>>

OnDelta ==
  /\ Room /\ toApi # <<>> /\ Head1.event = "delta"
  /\ nodes' = AppendText(nodes, Head1)
  /\ reply' = IF IsAnswer(Head1) THEN reply \o Head1.text ELSE reply
  /\ Took /\ Send(Head1)
  /\ UNCHANGED <<agent, summary, stored, web>>

OnNodeEnd ==
  /\ Room /\ toApi # <<>> /\ Head1.event = "node_end"
  /\ nodes' = [i \in DOMAIN nodes |->
                 IF nodes[i].id = Head1.id THEN [nodes[i] EXCEPT !.output = Head1.output]
                 ELSE nodes[i]]
  /\ summary' = NewSummary(Head1)
  /\ Took /\ Send(Head1)
  /\ UNCHANGED <<agent, reply, stored, web>>

\* dispatchEvent has nothing to do for "end".
OnEnd ==
  /\ toApi # <<>> /\ Head1.event = "end"
  /\ Took
  /\ UNCHANGED <<agent, api, toWeb, web>>

\* Slip: an error that is only logged.
FailsSilently ==
  /\ toWeb' = toWeb \o <<FrameOf("eof", NoNode)>>
  /\ toApi' = <<>>
  /\ graph' = [graph EXCEPT ![0].at = "ended"]

\* The handler says so and returns, and nobody reads the agent any more.
Fails ==
  /\ toWeb' = toWeb \o <<FrameOf("error", NoNode), FrameOf("eof", NoNode)>>
  /\ toApi' = <<>>
  /\ graph' = [graph EXCEPT ![0].at = "ended"]

\* An error frame.
OnError ==
  /\ toApi # <<>> /\ Head1.event = "error"
  /\ Fails
  /\ UNCHANGED <<runs, said, openTools, started, api, web>>

\* The connection to the agent breaks, or the insert of the reply fails.
AgentLost ==
  /\ toApi # <<>> \/ graph[0].at # "ended"
  /\ Fails
  /\ UNCHANGED <<runs, said, openTools, started, api, web>>

NonTrivial == \E i \in DOMAIN nodes : nodes[i].id[2] # "text" \/ nodes[i].parent # NoNode

\* The body ends, and the reply is stored.
Finish ==
  /\ toApi # <<>> /\ Head1.event = "eof"
  /\ stored' = [trace |-> IF NonTrivial THEN nodes ELSE <<>>, content |-> reply,
                summary |-> summary]
  /\ Took
  /\ toWeb' = toWeb \o <<FrameOf("done", NoNode), FrameOf("eof", NoNode)>>
  /\ UNCHANGED <<agent, nodes, reply, summary, web>>

-----------------------------------------------------------------------------
(* The browser, which reads frame by frame. *)

Show(f) ==
  CASE f.event = "node" ->
         Append(shown, [id |-> f.id, parent |-> f.parent, text |-> <<>>,
                        output |-> NoOutput])
    [] f.event = "delta" ->
         [i \in DOMAIN shown |->
            IF shown[i].id = f.id THEN [shown[i] EXCEPT !.text = @ \o f.text]
            ELSE shown[i]]
    [] f.event = "node_end" ->
         [i \in DOMAIN shown |->
            IF shown[i].id = f.id THEN [shown[i] EXCEPT !.output = f.output]
            ELSE shown[i]]
    [] OTHER -> shown

\* The first of the frames that end a reply decides.
Reads ==
  /\ toWeb # <<>>
  /\ LET f == Head(toWeb) IN
       /\ shown' = IF f.event = "error" THEN <<>> ELSE Show(f)
       /\ ended' = IF f.event \in {"done", "error", "eof"} /\ ended = "no"
                     THEN f.event ELSE ended
  /\ toWeb' = Tail(toWeb)
  /\ UNCHANGED <<agent, toApi, api>>

Over == ended # "no" /\ toWeb = <<>> /\ UNCHANGED vars

Next ==
  \/ \E s \in Scopes :
       \/ SummarizerStarts(s) \/ ModelStarts(s) \/ ToolsAnswered(s)
       \/ \E kind \in Kinds : ToolStarts(s, kind)
  \/ \E r \in DOMAIN runs :
       \/ \E part \in Parts : Streams(r, part)
       \/ \E through \in Scopes : SummarizerEnds(r, through)
       \/ \E n \in 0 .. MaxCalls : ModelCalls(r, n)
       \/ SummarizerFails(r) \/ ModelAnswers(r) \/ ToolEnds(r) \/ ToolRaises(r)
  \/ RunFails
  \/ OnNode \/ OnDelta \/ OnNodeEnd \/ OnEnd \/ OnError \/ AgentLost \/ Finish
  \/ Reads
  \/ Over

\* The run goes on until it ends, and frames are read.
Spec == Init /\ [][Next]_vars /\ WF_vars(Next)

-----------------------------------------------------------------------------
(* What is drawn of a list of nodes, the streamed one or the stored one. *)

\* buildTree: a node whose parent is not in the list is a root.
Under(list, i) == IF \E j \in DOMAIN list : list[j].id = list[i].parent
                    THEN list[i].parent ELSE NoNode
Children(list, id) == {i \in DOMAIN list : Under(list, i) = id}
Roots(list) == Children(list, NoNode)

\* Slip: the text of the subagents too.
AllText(list) ==
  FlattenSeq([i \in DOMAIN list |->
                IF list[i].id[2] = "text" THEN list[i].text ELSE <<>>])

\* The text the copy button copies.
AnswerText(list) ==
  FlattenSeq([i \in DOMAIN list |->
                IF list[i].id[2] = "text" /\ list[i].parent = NoNode
                  THEN list[i].text ELSE <<>>])

\* A node of a tool comes with the tool's name and input.
Todos(list) == {i \in DOMAIN list : list[i].id[2] = "tool"
                                     /\ runs[list[i].id[1]].kind \in {"todo", "noplan"}}
PlanFromNode(list, i) == IF runs[list[i].id[1]].kind = "todo" THEN list[i].id[1] ELSE 0

\* The call whose todos are docked above the composer, 0 for no dock.
LatestPlan(list) ==
  LET plan[i \in 0 .. Len(list)] ==
        IF i = 0 THEN 0
        ELSE IF i \in Todos(list) /\ PlanFromNode(list, i) # 0 THEN PlanFromNode(list, i)
        ELSE plan[i - 1]
  IN  plan[Len(list)]

TurnStreaming == ended = "no"

\* The rows whose label can pulse; todos are docked and have none.
StepRows(list) == {i \in DOMAIN list : list[i].id[2] \in {"compaction", "tool"}}
                    \ Todos(list)

\* Slip: as if an output could not be missing at the end.
ActiveAlways(list, i) == list[i].output = NoOutput

Active(list, i) == TurnStreaming /\ list[i].output = NoOutput

-----------------------------------------------------------------------------
(* Properties. *)

(***************************************************************************)
(* What a page shows of a reply when it is loaded again is what it showed  *)
(* when the reply was streamed: the stored nodes with all their text and   *)
(* outputs or, of a reply that has only text, that text.                   *)
(***************************************************************************)
ReloadShowsStream ==
  ended = "done" =>
    IF stored.trace # <<>> THEN shown = stored.trace
    ELSE stored.content = FlattenSeq([i \in DOMAIN shown |-> shown[i].text])

(***************************************************************************)
(* A step is drawn in the row of the tool it ran in, which was there       *)
(* before it, however the events of tools and subagents at the same time   *)
(* mix, and at the top only if the agent itself ran it; no step is drawn   *)
(* twice and none is lost.                                                 *)
(***************************************************************************)
NestedAsRun ==
  LET Scope(i) == runs[shown[i].id[1]].scope IN
    /\ Roots(shown) = {i \in DOMAIN shown : Scope(i) = 0}
    /\ \A i \in DOMAIN shown :
         Children(shown, shown[i].id) =
           {j \in i + 1 .. Len(shown) : /\ Scope(j) = shown[i].id[1]
                                        /\ shown[i].id[2] = "tool"}

\* The error frame that will take the whole message away is on its way.
Failing == \E k \in DOMAIN toWeb : toWeb[k].event = "error"

(***************************************************************************)
(* The label of a step pulses for as long as the step runs and, at most,   *)
(* until the frame of its end was read or, lost with the agent, the error  *)
(* that clears the message.  A step that failed has no frame and pulses    *)
(* on, but no step does once the browser knows that the message ended,     *)
(* whatever became of the runs.                                            *)
(***************************************************************************)
PulsesAsRuns ==
  \A i \in StepRows(shown) :
    LET EndIn(q) == \E k \in DOMAIN q : q[k].event = "node_end" /\ q[k].id = shown[i].id
        how == runs[shown[i].id[1]].at
    IN  /\ TurnStreaming /\ how # "ended" => Active(shown, i)
        /\ Active(shown, i) =>
             /\ TurnStreaming
             /\ how = "ended" => EndIn(toApi) \/ EndIn(toWeb) \/ Failing

(***************************************************************************)
(* What the copy button of a finished reply copies, read off the drawn     *)
(* nodes, is the reply that was stored, though the nodes also hold         *)
(* reasoning, summaries and the text of subagents; and the plan docked     *)
(* above the composer is that of the last set_todos call that had one.     *)
(***************************************************************************)
CopyIsReply ==
  /\ ended = "done" => AnswerText(shown) = stored.content
  /\ LET plans == {r \in DOMAIN runs : /\ runs[r].kind = "todo"
                                       /\ Find(shown, <<r, "tool">>) # {}}
     IN  IF plans = {} THEN LatestPlan(shown) = 0
         ELSE LatestPlan(shown) \in plans /\ \A r \in plans : r <= LatestPlan(shown)

\* The text is these chunks, each once, in the order they were streamed in.
InOrder(text, chunks) ==
  /\ {text[i] : i \in DOMAIN text} = chunks
  /\ \A i, j \in DOMAIN text : i < j => text[i] < text[j]

(***************************************************************************)
(* The stored reply is all the text the agent itself streamed, in order,   *)
(* and nothing of its reasoning, its summaries or its subagents; and the   *)
(* stored summary is all the text of the summary whose watermark it has.   *)
(***************************************************************************)
StoredAsSaid ==
  stored # NoReply =>
    /\ InOrder(stored.content,
               {i \in DOMAIN said : said[i][2] = "text" /\ runs[said[i][1]].scope = 0})
    /\ stored.summary.text # <<>> =>
         LET r == stored.summary.through IN
           /\ r # 0 /\ runs[r].scope = 0
           /\ InOrder(stored.summary.text,
                      {i \in DOMAIN said : said[i] = <<r, "compaction">>})

(***************************************************************************)
(* The browser always learns how its message ended, before the api's       *)
(* answer does: by a done frame or by an error frame.                      *)
(***************************************************************************)
EndsWithFrame == <>(ended \in {"done", "error"})
=============================================================================
