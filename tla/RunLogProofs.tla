----------------------------- MODULE RunLogProofs -----------------------------
(***************************************************************************)
(* Theorems about the event log of a run, for every number of runs, chunks *)
(* and calls: the stored reply is what was streamed, the browser shows the *)
(* same nodes, under the tools they ran in, pulsing while they run.        *)
(*                                                                         *)
(* The argument: the node frames that the agent has written so far are a   *)
(* log, and the api and the browser have each folded a part of it; what is *)
(* on its way is the rest.  So what holds after every frame of the log     *)
(* holds of the nodes of both, however far behind they are.                *)
(***************************************************************************)
EXTENDS RunLog, SequenceTheorems, WellFoundedInduction, TLAPS

-----------------------------------------------------------------------------
(* Types. *)

ToolKinds == {"todo", "noplan", "subagent", "search"}
Streamers == {"summarizer", "model"}
Content   == {"node", "delta", "node_end"}

\* A frame of a node's end has an output, and only that has one.
FrameOK(f) == f.event \in Content => f.id \in NodeId /\ (f.event = "node_end" => f.output \in Scopes)

Frames(q) == q \in Seq(Frame) /\ \A k \in DOMAIN q : FrameOK(q[k])

Typed == TypeOK /\ Frames(toApi) /\ Frames(toWeb)

LEMMA Numbers == RunIds \subseteq Nat /\ Scopes \subseteq Nat /\ RunIds \subseteq Scopes /\ 0 \in Scopes
BY RunLogAssumption DEF RunIds, Scopes

LEMMA InitTyped == Init => Typed
<1> SUFFICES ASSUME Init PROVE Typed
  OBVIOUS
<1>1. /\ runs \in Seq(Run) /\ Len(runs) <= MaxRuns /\ said \in Seq(NodeId)
      /\ toApi \in Seq(Frame) /\ toWeb \in Seq(Frame)
      /\ nodes \in Seq(Node) /\ shown \in Seq(Node) /\ reply \in Text
      /\ openTools \subseteq RunIds /\ started \subseteq NodeId
  BY RunLogAssumption DEF Init, Text
<1>2. graph \in [Scopes -> Graph]
  BY RunLogAssumption DEF Init, Graph
<1>3. summary \in Summary
  BY Numbers DEF Init, Summary, NoSummary, Text
<1>4. stored \in Stored \cup {NoReply} /\ ended \in {"no", "done", "error", "eof"}
  BY DEF Init
<1>5. Frames(toApi) /\ Frames(toWeb)
  BY <1>1 DEF Init, Frames
<1> QED
  BY <1>1, <1>2, <1>3, <1>4, <1>5 DEF Typed, TypeOK

LEMMA JoinedText ==
  ASSUME NEW s \in Text, NEW t \in Text
  PROVE  s \o t \in Text
BY DEF Text

\* The frames the agent writes.
LEMMA FrameTypes ==
  ASSUME NEW id \in NodeId
  PROVE  /\ \A p \in NodeId \cup {NoNode} : Frames(<<[FrameOf("node", id) EXCEPT !.parent = p]>>)
         /\ \A n \in 1 .. MaxChunks : Frames(<<[FrameOf("delta", id) EXCEPT !.text = <<n>>]>>)
         /\ \A s \in Scopes : Frames(<<[FrameOf("node_end", id) EXCEPT !.output = s]>>)
<1>1. <<>> \in Text /\ \A n \in 1 .. MaxChunks : <<n>> \in Text
  BY DEF Text
<1>2. ASSUME NEW f, f \in Frame, FrameOK(f)
      PROVE  Frames(<<f>>)
  BY <1>2 DEF Frames
<1>3. ASSUME NEW p \in NodeId \cup {NoNode}
      PROVE  Frames(<<[FrameOf("node", id) EXCEPT !.parent = p]>>)
  <2>1. PICK f : f = [FrameOf("node", id) EXCEPT !.parent = p]
    OBVIOUS
  <2>2. f \in Frame /\ FrameOK(f)
    BY <1>1, <2>1 DEF FrameOf, Frame, FrameOK
  <2> QED
    BY <1>2, <2>1, <2>2
<1>4. ASSUME NEW n \in 1 .. MaxChunks
      PROVE  Frames(<<[FrameOf("delta", id) EXCEPT !.text = <<n>>]>>)
  <2>1. PICK f : f = [FrameOf("delta", id) EXCEPT !.text = <<n>>]
    OBVIOUS
  <2>2. f \in Frame /\ FrameOK(f)
    BY <1>1, <2>1 DEF FrameOf, Frame, FrameOK
  <2> QED
    BY <1>2, <2>1, <2>2
<1>5. ASSUME NEW s \in Scopes
      PROVE  Frames(<<[FrameOf("node_end", id) EXCEPT !.output = s]>>)
  <2>1. PICK f : f = [FrameOf("node_end", id) EXCEPT !.output = s]
    OBVIOUS
  <2>2. f \in Frame /\ FrameOK(f)
    BY <1>1, <2>1 DEF FrameOf, Frame, FrameOK
  <2> QED
    BY <1>2, <2>1, <2>2
<1> QED
  BY <1>3, <1>4, <1>5

\* The frames that end a stream.
LEMMA EndTypes ==
  /\ \A e \in {"end", "error", "done", "eof"} : Frames(<<FrameOf(e, NoNode)>>)
  /\ \A d, e \in {"end", "error", "done", "eof"} :
       Frames(<<FrameOf(d, NoNode), FrameOf(e, NoNode)>>)
  /\ Frames(<<FrameOf("error", NoNode), FrameOf("end", NoNode), FrameOf("eof", NoNode)>>)
<1>1. \A e \in {"end", "error", "done", "eof"} :
        FrameOf(e, NoNode) \in Frame /\ FrameOK(FrameOf(e, NoNode))
  <2>1. <<>> \in Text
    BY DEF Text
  <2> QED
    BY <2>1 DEF FrameOf, Frame, FrameOK, Content
<1> QED
  BY <1>1 DEF Frames

LEMMA JoinedTypes ==
  ASSUME NEW q, NEW r, Frames(q), Frames(r)
  PROVE  Frames(q \o r)
<1>1. PICK s : s = q \o r
  OBVIOUS
<1>2. /\ s \in Seq(Frame) /\ Len(s) = Len(q) + Len(r)
      /\ \A k \in 1 .. Len(q) : s[k] = q[k]
      /\ \A k \in Len(q) + 1 .. Len(s) : s[k] = r[k - Len(q)]
  BY <1>1 DEF Frames
<1>3. ASSUME NEW k \in 1 .. Len(s)
      PROVE  FrameOK(s[k])
  <2>1. CASE k \in 1 .. Len(q)
    BY <1>2, <2>1 DEF Frames
  <2>2. CASE k \notin 1 .. Len(q)
    <3>1. k \in Len(q) + 1 .. Len(s) /\ k - Len(q) \in 1 .. Len(r)
      BY <1>2, <2>2 DEF Frames
    <3> QED
      BY <1>2, <3>1 DEF Frames
  <2> QED
    BY <2>1, <2>2
<1>4. DOMAIN s = 1 .. Len(s)
  BY <1>2
<1> QED
  BY <1>1, <1>2, <1>3, <1>4 DEF Frames

LEMMA TailTypes ==
  ASSUME NEW q, Frames(q), q # <<>>
  PROVE  Frames(Tail(q)) /\ q[1] \in Frame /\ FrameOK(q[1])
<1>1. PICK s : s = Tail(q)
  OBVIOUS
<1>2. /\ s \in Seq(Frame) /\ Len(s) = Len(q) - 1 /\ \A k \in 1 .. Len(s) : s[k] = q[k + 1]
      /\ DOMAIN s = 1 .. Len(s) /\ DOMAIN q = 1 .. Len(q) /\ Len(q) >= 1
  BY <1>1 DEF Frames
<1>3. \A k \in 1 .. Len(s) : k + 1 \in 1 .. Len(q)
  BY <1>2
<1> QED
  BY <1>1, <1>2, <1>3 DEF Frames

LEMMA OneFrame ==
  ASSUME NEW f, Frames(<<f>>)
  PROVE  f \in Frame /\ FrameOK(f)
BY DEF Frames

\* What a step does to the runs.
LEMMA BeginIs ==
  ASSUME Typed, NEW kind \in Kinds, NEW s \in Scopes, Begin(kind, s)
  PROVE  LET r == Len(runs) + 1 IN
           /\ r \in RunIds /\ r \notin DOMAIN runs
           /\ runs' \in Seq(Run) /\ Len(runs') = r /\ Len(runs') <= MaxRuns
           /\ DOMAIN runs' = DOMAIN runs \cup {r}
           /\ runs'[r] = [kind |-> kind, scope |-> s, at |-> "running"]
           /\ \A q \in DOMAIN runs : runs'[q] = runs[q]
<1>1. PICK R, n : R = runs /\ n = Len(R)
  OBVIOUS
<1>2. R \in Seq(Run) /\ n \in Nat /\ n + 1 <= MaxRuns /\ DOMAIN R = 1 .. n
  BY <1>1, RunLogAssumption DEF Typed, TypeOK, Begin
<1>3. PICK x : x = [kind |-> kind, scope |-> s, at |-> "running"]
  OBVIOUS
<1>4. x \in Run /\ runs' = Append(R, x)
  BY <1>1, <1>3 DEF Run, Begin
<1>5. PICK Q : Q = Append(R, x)
  OBVIOUS
<1>6. /\ Q \in Seq(Run) /\ Len(Q) = n + 1 /\ DOMAIN Q = 1 .. n + 1
      /\ Q[n + 1] = x /\ \A q \in 1 .. n : Q[q] = R[q]
  BY <1>1, <1>2, <1>4, <1>5
<1>7. n + 1 \in RunIds /\ n + 1 \notin 1 .. n /\ 1 .. n + 1 = (1 .. n) \cup {n + 1}
  BY <1>2, RunLogAssumption DEF RunIds
<1> QED
  BY <1>1, <1>2, <1>3, <1>4, <1>5, <1>6, <1>7

LEMMA EndIs ==
  ASSUME Typed, NEW r \in DOMAIN runs, NEW how \in {"ended", "failed"}, End(r, how)
  PROVE  /\ runs' \in Seq(Run) /\ Len(runs') = Len(runs) /\ DOMAIN runs' = DOMAIN runs
         /\ runs'[r].at = how
         /\ \A q \in DOMAIN runs : /\ runs'[q].kind = runs[q].kind
                                   /\ runs'[q].scope = runs[q].scope
                                   /\ q # r => runs'[q] = runs[q]
<1>1. PICK R, n : R = runs /\ n = Len(R)
  OBVIOUS
<1>2. R \in Seq(Run) /\ n \in Nat /\ DOMAIN R = 1 .. n /\ r \in 1 .. n
  BY <1>1 DEF Typed, TypeOK
<1>3. PICK Q : Q = [R EXCEPT ![r].at = how]
  OBVIOUS
<1>4. \A q \in 1 .. n : R[q] \in Run
  BY <1>2
<1>5. /\ Q \in [1 .. n -> Run] /\ Q[r].at = how
      /\ \A q \in 1 .. n : Q[q].kind = R[q].kind /\ Q[q].scope = R[q].scope
                           /\ (q # r => Q[q] = R[q])
  BY <1>2, <1>3, <1>4 DEF Run
<1>6. Q \in Seq(Run) /\ Len(Q) = n /\ DOMAIN Q = 1 .. n
  BY <1>2, <1>5
<1>7. runs' = Q
  BY <1>1, <1>3 DEF End
<1> QED
  BY <1>1, <1>2, <1>5, <1>6, <1>7

LEMMA RunIs ==
  ASSUME Typed, NEW r \in DOMAIN runs
  PROVE  /\ r \in RunIds /\ r \in Scopes /\ runs[r] \in Run
         /\ runs[r].kind \in Kinds /\ runs[r].scope \in Scopes
<1>1. r \in 1 .. Len(runs) /\ Len(runs) <= MaxRuns /\ runs[r] \in Run /\ Len(runs) \in Nat
  BY DEF Typed, TypeOK
<1> QED
  BY <1>1, RunLogAssumption DEF RunIds, Scopes, Run

\* The frames of a chunk.
LEMMA TextFrameTypes ==
  ASSUME Typed, NEW id \in NodeId, NEW s \in Scopes, Len(said) < MaxChunks
  PROVE  Frames(TextFrames(id, s))
<1>1. Len(said) + 1 \in 1 .. MaxChunks
  BY RunLogAssumption DEF Typed, TypeOK
<1>2. Parent(s) \in NodeId \cup {NoNode}
  BY DEF Parent, NodeId, Parts, Typed, TypeOK
<1>3. PICK e, g : /\ e = [FrameOf("node", id) EXCEPT !.parent = Parent(s)]
                 /\ g = [FrameOf("delta", id) EXCEPT !.text = <<Len(said) + 1>>]
  OBVIOUS
<1>4. Frames(<<e>>) /\ Frames(<<g>>) /\ Frames(<<>>)
  <2>1. Frames(<<e>>)
    BY <1>2, <1>3, FrameTypes
  <2>2. Frames(<<g>>)
    BY <1>1, <1>3, FrameTypes
  <2>3. Frames(<<>>)
    BY DEF Frames
  <2> QED
    BY <2>1, <2>2, <2>3
<1>5. Frames(IF id \in started THEN <<>> ELSE <<e>>)
  BY <1>4
<1> QED
  BY <1>3, <1>4, <1>5, JoinedTypes DEF TextFrames

\* One lemma for what the agent may write.
LEMMA EmitTypes ==
  ASSUME Typed, NEW fs, Frames(fs), Emit(fs)
  PROVE  Frames(toApi')
BY JoinedTypes DEF Typed, Emit

AgentStep ==
  \/ \E s \in Scopes :
       \/ SummarizerStarts(s) \/ ModelStarts(s) \/ ToolsAnswered(s)
       \/ \E kind \in Kinds : ToolStarts(s, kind)
  \/ \E r \in DOMAIN runs :
       \/ \E part \in Parts : Streams(r, part)
       \/ \E through \in Scopes : SummarizerEnds(r, through)
       \/ \E n \in 0 .. MaxCalls : ModelCalls(r, n)
       \/ SummarizerFails(r) \/ ModelAnswers(r) \/ ToolEnds(r) \/ ToolRaises(r)
  \/ RunFails

ApiStep == OnNode \/ OnDelta \/ OnNodeEnd \/ OnEnd \/ OnError \/ AgentLost \/ Finish

AgentTypes ==
  /\ runs \in Seq(Run) /\ Len(runs) <= MaxRuns
  /\ graph \in [Scopes -> Graph]
  /\ said \in Seq(NodeId)
  /\ openTools \subseteq RunIds
  /\ started \subseteq NodeId
  /\ Frames(toApi)

LEMMA ReachTypes ==
  ASSUME Typed, NEW s \in Scopes,
         NEW at \in {"none", "compact", "summary", "agent", "model", "tools", "ended"},
         Reach(s, at)
  PROVE  graph' \in [Scopes -> Graph]
<1>1. graph[s] \in Graph
  BY DEF Typed, TypeOK
<1>2. [graph[s] EXCEPT !.at = at] \in Graph
  BY <1>1 DEF Graph
<1>3. graph' = [graph EXCEPT ![s] = [graph[s] EXCEPT !.at = at]]
  BY DEF Reach
<1> QED
  BY <1>2, <1>3 DEF Typed, TypeOK

LEMMA AgentTyped ==
  ASSUME Typed, AgentStep
  PROVE  AgentTypes'
<1> USE DEF Typed, TypeOK, AgentTypes
<1>1. ASSUME NEW s \in Scopes, SummarizerStarts(s) \/ ModelStarts(s)
      PROVE  AgentTypes'
  <2>1. PICK kind \in Kinds : Begin(kind, s)
    BY <1>1 DEF SummarizerStarts, ModelStarts, Kinds
  <2>2. graph' \in [Scopes -> Graph]
    BY <1>1, ReachTypes DEF SummarizerStarts, ModelStarts
  <2> QED
    BY <1>1, <2>1, <2>2, BeginIs DEF SummarizerStarts, ModelStarts
<1>2. ASSUME NEW s \in Scopes, ToolsAnswered(s)
      PROVE  AgentTypes'
  BY <1>2, ReachTypes DEF ToolsAnswered
<1>3. ASSUME NEW s \in Scopes, NEW kind \in Kinds, ToolStarts(s, kind)
      PROVE  AgentTypes'
  <2>1. PICK r : r = Len(runs) + 1
    OBVIOUS
  <2>2. r \in RunIds /\ runs' \in Seq(Run) /\ Len(runs') <= MaxRuns
    BY <1>3, <2>1, BeginIs DEF ToolStarts
  <2>3. <<r, "tool">> \in NodeId
    BY <2>2 DEF NodeId, Parts
  <2>4. graph' \in [Scopes -> Graph]
    <3>1. PICK g : g = graph[s]
      OBVIOUS
    <3>2. /\ g \in Graph /\ g.calls > 0 /\ g.calls \in 0 .. MaxCalls
          /\ 0 \in 0 .. MaxCalls /\ g.calls - 1 \in 0 .. MaxCalls
      BY <1>3, <3>1, RunLogAssumption DEF ToolStarts, Graph
    <3>4. [graph[s] EXCEPT !.calls = @ - 1] \in Graph /\ [at |-> "compact", calls |-> 0] \in Graph
      BY <3>1, <3>2 DEF Graph
    <3>3. graph' = [t \in Scopes |->
            CASE t = s -> [graph[s] EXCEPT !.calls = @ - 1]
              [] t = r /\ kind = "subagent" -> [at |-> "compact", calls |-> 0]
              [] OTHER -> graph[t]]
      BY <1>3, <2>1 DEF ToolStarts
    <3> QED
      BY <3>3, <3>4
  <2>5. Parent(s) \in NodeId \cup {NoNode}
    BY DEF Parent, NodeId, Parts
  <2>6. Frames(toApi')
    <3>1. PICK fs : fs = <<[FrameOf("node", <<r, "tool">>) EXCEPT !.parent = Parent(s)]>>
      OBVIOUS
    <3>2. Emit(fs)
      BY <1>3, <2>1, <3>1 DEF ToolStarts
    <3>3. Frames(fs)
      BY <2>3, <2>5, <3>1, FrameTypes
    <3> QED
      BY <3>2, <3>3, EmitTypes
  <2>7. openTools' \subseteq RunIds /\ started' \subseteq NodeId /\ said' = said
    BY <1>3, <2>1, <2>2, <2>3 DEF ToolStarts
  <2> QED
    BY <2>2, <2>4, <2>6, <2>7
<1>4. ASSUME NEW r \in DOMAIN runs, NEW part \in Parts, Streams(r, part)
      PROVE  AgentTypes'
  <2>1. r \in RunIds /\ runs[r].scope \in Scopes /\ <<r, part>> \in NodeId
    BY RunIs DEF NodeId
  <2>2. Frames(toApi')
    BY <1>4, <2>1, TextFrameTypes, EmitTypes DEF Streams
  <2>3. said' \in Seq(NodeId) /\ started' \subseteq NodeId
    <3>1. PICK id \in NodeId : id = <<r, part>>
      BY <2>1
    <3>2. said' = Append(said, id) /\ started' = started \cup {id}
      BY <1>4, <3>1 DEF Streams
    <3> QED
      BY <3>2
  <2> QED
    BY <1>4, <2>2, <2>3 DEF Streams
<1>5. ASSUME NEW r \in DOMAIN runs, NEW through \in Scopes, SummarizerEnds(r, through)
      PROVE  AgentTypes'
  <2>1. r \in RunIds /\ runs[r].scope \in Scopes /\ <<r, "compaction">> \in NodeId
    BY RunIs DEF NodeId, Parts
  <2>2. runs' \in Seq(Run) /\ Len(runs') <= MaxRuns
    BY <1>5, EndIs DEF SummarizerEnds
  <2>3. graph' \in [Scopes -> Graph]
    BY <1>5, <2>1, ReachTypes DEF SummarizerEnds
  <2>4. Frames(toApi')
    BY <1>5, <2>1, FrameTypes, EmitTypes DEF SummarizerEnds
  <2> QED
    BY <1>5, <2>2, <2>3, <2>4 DEF SummarizerEnds
<1>6. ASSUME NEW r \in DOMAIN runs, NEW n \in 0 .. MaxCalls, ModelCalls(r, n)
      PROVE  AgentTypes'
  <2>1. runs[r].scope \in Scopes
    BY RunIs
  <2>2. runs' \in Seq(Run) /\ Len(runs') <= MaxRuns
    BY <1>6, EndIs DEF ModelCalls
  <2>3. graph' \in [Scopes -> Graph]
    BY <1>6, <2>1 DEF ModelCalls, Graph
  <2> QED
    BY <1>6, <2>2, <2>3 DEF ModelCalls
<1>7. ASSUME NEW r \in DOMAIN runs, SummarizerFails(r)
      PROVE  AgentTypes'
  <2>1. runs[r].scope \in Scopes
    BY RunIs
  <2>2. runs' \in Seq(Run) /\ Len(runs') <= MaxRuns
    BY <1>7, EndIs DEF SummarizerFails
  <2>3. graph' \in [Scopes -> Graph]
    BY <1>7, <2>1, ReachTypes DEF SummarizerFails
  <2> QED
    BY <1>7, <2>2, <2>3 DEF SummarizerFails
<1>8. ASSUME NEW r \in DOMAIN runs, ModelAnswers(r)
      PROVE  AgentTypes'
  <2>1. runs[r].scope \in Scopes
    BY RunIs
  <2>2. runs' \in Seq(Run) /\ Len(runs') <= MaxRuns
    BY <1>8, EndIs DEF ModelAnswers
  <2>3. graph' \in [Scopes -> Graph]
    BY <1>8, <2>1, ReachTypes DEF ModelAnswers
  <2>4. Frames(toApi')
    BY <1>8, EndTypes, EmitTypes DEF ModelAnswers
  <2> QED
    BY <1>8, <2>2, <2>3, <2>4 DEF ModelAnswers
<1>9. ASSUME NEW r \in DOMAIN runs, ToolEnds(r)
      PROVE  AgentTypes'
  <2>1. r \in Scopes /\ <<r, "tool">> \in NodeId
    BY RunIs DEF NodeId, Parts
  <2>2. runs' \in Seq(Run) /\ Len(runs') <= MaxRuns
    BY <1>9, EndIs DEF ToolEnds
  <2>3. Frames(toApi')
    BY <1>9, <2>1, FrameTypes, EmitTypes DEF ToolEnds
  <2> QED
    BY <1>9, <2>2, <2>3 DEF ToolEnds
<1>10. ASSUME NEW r \in DOMAIN runs, ToolRaises(r)
       PROVE  AgentTypes'
  BY <1>10, EndIs DEF ToolRaises
<1>11. CASE RunFails
  BY <1>11, Numbers, ReachTypes, EndTypes, EmitTypes DEF RunFails
<1> QED
  BY <1>1, <1>2, <1>3, <1>4, <1>5, <1>6, <1>7, <1>8, <1>9, <1>10, <1>11 DEF AgentStep

-----------------------------------------------------------------------------
(* The fold that the api and the browser both make of the frames. *)

NewNode(f) == [id |-> f.id, parent |-> f.parent, text |-> <<>>, output |-> NoOutput]

SetOutput(list, f) ==
  [i \in DOMAIN list |->
     IF list[i].id = f.id THEN [list[i] EXCEPT !.output = f.output] ELSE list[i]]

Folds(list, f) ==
  CASE f.event = "node"     -> Append(list, NewNode(f))
    [] f.event = "delta"    -> AppendText(list, f)
    [] f.event = "node_end" -> SetOutput(list, f)
    [] OTHER -> list

LEMMA ShowIs == \A f : Show(f) = Folds(shown, f)
BY DEF Show, Folds, NewNode, AppendText, SetOutput

LEMMA ApiFolds ==
  ASSUME OnNode \/ OnDelta \/ OnNodeEnd
  PROVE  nodes' = Folds(nodes, Head1)
BY DEF OnNode, OnDelta, OnNodeEnd, Folds, NewNode, SetOutput

LEMMA FoldsNode ==
  ASSUME NEW list \in Seq(Node), NEW f \in Frame, FrameOK(f), f.event = "node"
  PROVE  /\ Folds(list, f) \in Seq(Node) /\ Len(Folds(list, f)) = Len(list) + 1
         /\ Folds(list, f)[Len(list) + 1] = NewNode(f)
         /\ \A i \in 1 .. Len(list) : Folds(list, f)[i] = list[i]
<1>1. PICK x : x = NewNode(f)
  OBVIOUS
<1>2. x \in Node
  <2>1. f.id \in NodeId /\ f.parent \in NodeId \cup {NoNode} /\ <<>> \in Text
    BY DEF FrameOK, Content, Frame, Text
  <2> QED
    BY <1>1, <2>1 DEF NewNode, Node
<1>3. Folds(list, f) = Append(list, x)
  BY <1>1 DEF Folds
<1> QED
  BY <1>1, <1>2, <1>3

LEMMA FoldsText ==
  ASSUME NEW list \in Seq(Node), NEW f \in Frame, f.event = "delta"
  PROVE  /\ Folds(list, f) \in Seq(Node) /\ Len(Folds(list, f)) = Len(list)
         /\ \A i \in 1 .. Len(list) :
              /\ Folds(list, f)[i].id = list[i].id
              /\ Folds(list, f)[i].parent = list[i].parent
              /\ Folds(list, f)[i].output = list[i].output
              /\ Folds(list, f)[i].text = IF list[i].id = f.id THEN list[i].text \o f.text
                                                              ELSE list[i].text
<1>1. PICK q : q = Folds(list, f)
  OBVIOUS
<1>2. q = [i \in DOMAIN list |-> IF list[i].id = f.id
                                  THEN [list[i] EXCEPT !.text = @ \o f.text] ELSE list[i]]
  BY <1>1 DEF Folds, AppendText
<1>3. DOMAIN list = 1 .. Len(list) /\ Len(list) \in Nat
  OBVIOUS
<1>4. ASSUME NEW i \in 1 .. Len(list)
      PROVE  /\ q[i] \in Node
             /\ q[i].id = list[i].id /\ q[i].parent = list[i].parent
             /\ q[i].output = list[i].output
             /\ q[i].text = IF list[i].id = f.id THEN list[i].text \o f.text ELSE list[i].text
  <2>1. PICK x : x = list[i]
    OBVIOUS
  <2>2. x \in Node /\ x.text \in Text /\ f.text \in Text
    <3>1. x \in Node
      BY <1>3, <2>1
    <3>2. x.text \in Text
      BY <3>1 DEF Node
    <3>3. f.text \in Text
      BY DEF Frame
    <3> QED
      BY <3>1, <3>2, <3>3
  <2>3. x.text \o f.text \in Text
    BY <2>2, JoinedText
  <2>4. q[i] = IF x.id = f.id THEN [x EXCEPT !.text = x.text \o f.text] ELSE x
    BY <1>2, <1>3, <2>1
  <2> QED
    BY <2>1, <2>2, <2>3, <2>4 DEF Node
<1>5. q \in [1 .. Len(list) -> Node]
  BY <1>2, <1>3, <1>4
<1>6. q \in Seq(Node) /\ Len(q) = Len(list)
  BY <1>3, <1>5
<1> QED
  BY <1>1, <1>4, <1>6

LEMMA FoldsEnd ==
  ASSUME NEW list \in Seq(Node), NEW f \in Frame, f.event = "node_end"
  PROVE  /\ Folds(list, f) \in Seq(Node) /\ Len(Folds(list, f)) = Len(list)
         /\ \A i \in 1 .. Len(list) :
              /\ Folds(list, f)[i].id = list[i].id
              /\ Folds(list, f)[i].parent = list[i].parent
              /\ Folds(list, f)[i].text = list[i].text
              /\ Folds(list, f)[i].output = IF list[i].id = f.id THEN f.output
                                                                ELSE list[i].output
<1>1. PICK q : q = Folds(list, f)
  OBVIOUS
<1>2. q = [i \in DOMAIN list |-> IF list[i].id = f.id
                                  THEN [list[i] EXCEPT !.output = f.output] ELSE list[i]]
  BY <1>1 DEF Folds, SetOutput
<1>3. DOMAIN list = 1 .. Len(list) /\ Len(list) \in Nat
  OBVIOUS
<1>4. ASSUME NEW i \in 1 .. Len(list)
      PROVE  /\ q[i] \in Node
             /\ q[i].id = list[i].id /\ q[i].parent = list[i].parent
             /\ q[i].text = list[i].text
             /\ q[i].output = IF list[i].id = f.id THEN f.output ELSE list[i].output
  <2>1. PICK x : x = list[i]
    OBVIOUS
  <2>2. x \in Node /\ f.output \in {NoOutput} \cup Scopes
    BY <1>3, <2>1 DEF Frame
  <2>4. q[i] = IF x.id = f.id THEN [x EXCEPT !.output = f.output] ELSE x
    BY <1>2, <1>3, <2>1
  <2> QED
    BY <2>1, <2>2, <2>4 DEF Node
<1>5. q \in [1 .. Len(list) -> Node]
  BY <1>2, <1>3, <1>4
<1>6. q \in Seq(Node) /\ Len(q) = Len(list)
  BY <1>3, <1>5
<1> QED
  BY <1>1, <1>4, <1>6

LEMMA FoldsTypes ==
  ASSUME NEW list \in Seq(Node), NEW f \in Frame, FrameOK(f)
  PROVE  Folds(list, f) \in Seq(Node)
<1>1. CASE f.event \in Content
  BY <1>1, FoldsNode, FoldsText, FoldsEnd DEF Content
<1>2. CASE f.event \notin Content
  BY <1>2 DEF Folds, Content
<1> QED
  BY <1>1, <1>2

-----------------------------------------------------------------------------
(* The types of the api and of the browser. *)

LEMMA ApiTyped ==
  ASSUME Typed, ApiStep
  PROVE  /\ Frames(toApi') /\ Frames(toWeb')
         /\ nodes' \in Seq(Node) /\ reply' \in Text /\ summary' \in Summary
         /\ stored' \in Stored \cup {NoReply} /\ graph' \in [Scopes -> Graph]
         /\ UNCHANGED <<runs, said, openTools, started, web>>
<1> DEFINE Goal == /\ Frames(toApi') /\ Frames(toWeb')
                   /\ nodes' \in Seq(Node) /\ reply' \in Text /\ summary' \in Summary
                   /\ stored' \in Stored \cup {NoReply} /\ graph' \in [Scopes -> Graph]
                   /\ UNCHANGED <<runs, said, openTools, started, web>>
<1>0. /\ Frames(toApi) /\ Frames(toWeb) /\ graph \in [Scopes -> Graph]
      /\ nodes \in Seq(Node) /\ reply \in Text /\ summary \in Summary
      /\ stored \in Stored \cup {NoReply}
  BY DEF Typed, TypeOK
<1>1. ASSUME toApi # <<>>
      PROVE  Frames(Tail(toApi)) /\ Head1 \in Frame /\ FrameOK(Head1)
  BY <1>0, <1>1, TailTypes DEF Head1
<1>2. CASE OnNode \/ OnDelta \/ OnNodeEnd
  <2>1. toApi # <<>> /\ Took /\ Send(Head1)
    BY <1>2 DEF OnNode, OnDelta, OnNodeEnd
  <2>2. Frames(toApi')
    BY <1>1, <2>1 DEF Took
  <2>3. Frames(toWeb')
    <3>1. PICK f : f = Head1
      OBVIOUS
    <3>2. Frames(<<f>>) /\ toWeb' = toWeb \o <<f>>
      BY <1>0, <1>1, <2>1, <3>1 DEF Send, Frames
    <3> QED
      BY <1>0, <3>2, JoinedTypes
  <2>4. nodes' \in Seq(Node)
    BY <1>0, <1>1, <1>2, <2>1, ApiFolds, FoldsTypes
  <2>5. reply' \in Text
    <3>1. reply' = reply \/ reply' = reply \o Head1.text
      BY <1>2 DEF OnNode, OnDelta, OnNodeEnd
    <3>2. Head1.text \in Text
      BY <1>1, <2>1 DEF Frame
    <3> QED
      BY <1>0, <3>1, <3>2, JoinedText
  <2>6. summary' \in Summary
    <3>1. CASE summary' = summary
      BY <1>0, <3>1
    <3>2. CASE summary' # summary
      <4>1. OnNodeEnd /\ summary' = NewSummary(Head1)
        BY <1>2, <3>2 DEF OnNode, OnDelta, OnNodeEnd
      <4>2. Find(nodes, Head1.id) # {} /\ Head1.event = "node_end"
        BY <3>2, <4>1 DEF NewSummary, OnNodeEnd
      <4>3. PICK i : i = CHOOSE k \in Find(nodes, Head1.id) : TRUE
        OBVIOUS
      <4>4. i \in Find(nodes, Head1.id)
        BY <4>2, <4>3
      <4>5. nodes[i] \in Node
        BY <1>0, <4>4 DEF Find
      <4>6. summary' = [through |-> Head1.output, text |-> nodes[i].text]
        BY <3>2, <4>1, <4>3 DEF NewSummary
      <4>7. Head1.output \in Scopes
        BY <1>1, <2>1, <4>2 DEF FrameOK, Content
      <4> QED
        BY <4>5, <4>6, <4>7 DEF Node, Summary
    <3> QED
      BY <3>1, <3>2
  <2> QED
    BY <1>0, <1>2, <2>2, <2>3, <2>4, <2>5, <2>6
       DEF OnNode, OnDelta, OnNodeEnd, agent
<1>3. CASE OnEnd
  BY <1>0, <1>1, <1>3 DEF OnEnd, Took, api, agent
<1>4. CASE OnError \/ AgentLost
  <2>1. Fails /\ UNCHANGED <<runs, said, openTools, started, api, web>>
    BY <1>4 DEF OnError, AgentLost
  <2>2. Frames(toApi')
    BY <2>1 DEF Fails, Frames
  <2>3. Frames(toWeb')
    BY <1>0, <2>1, EndTypes, JoinedTypes DEF Fails
  <2>4. graph' \in [Scopes -> Graph]
    BY <1>0, <2>1, Numbers, ReachTypes DEF Fails, Reach
  <2> QED
    BY <1>0, <2>1, <2>2, <2>3, <2>4 DEF api
<1>5. CASE Finish
  <2>1. Frames(toApi')
    BY <1>1, <1>5 DEF Finish, Took
  <2>2. Frames(toWeb')
    BY <1>0, <1>5, EndTypes, JoinedTypes DEF Finish
  <2>3. stored' \in Stored
    <3>1. <<>> \in Seq(Node)
      OBVIOUS
    <3>2. PICK tr : tr = IF NonTrivial THEN nodes ELSE <<>>
      OBVIOUS
    <3>3. tr \in Seq(Node)
      BY <1>0, <3>1, <3>2
    <3>4. stored' = [trace |-> tr, content |-> reply, summary |-> summary]
      BY <1>5, <3>2 DEF Finish
    <3> QED
      BY <1>0, <3>3, <3>4 DEF Stored
  <2> QED
    BY <1>0, <1>5, <2>1, <2>2, <2>3 DEF Finish, agent
<1> QED
  BY <1>2, <1>3, <1>4, <1>5 DEF ApiStep

LEMMA ReadsTyped ==
  ASSUME Typed, Reads
  PROVE  /\ shown' \in Seq(Node) /\ ended' \in {"no", "done", "error", "eof"}
         /\ Frames(toWeb') /\ UNCHANGED <<agent, toApi, api>>
<1>1. PICK f : f = Head(toWeb)
  OBVIOUS
<1>2. Frames(toWeb) /\ toWeb # <<>>
  BY DEF Typed, Reads
<1>3. Frames(Tail(toWeb)) /\ f \in Frame /\ FrameOK(f)
  BY <1>1, <1>2, TailTypes
<1>4. /\ shown' = (IF f.event = "error" THEN <<>> ELSE Show(f))
      /\ ended' = (IF f.event \in {"done", "error", "eof"} /\ ended = "no"
                     THEN f.event ELSE ended)
      /\ toWeb' = Tail(toWeb)
      /\ UNCHANGED <<agent, toApi, api>>
  BY <1>1 DEF Reads
<1>5. Show(f) \in Seq(Node)
  BY <1>3, FoldsTypes, ShowIs DEF Typed, TypeOK
<1> QED
  BY <1>3, <1>4, <1>5 DEF Typed, TypeOK

LEMMA NextIs == [Next]_vars => AgentStep \/ ApiStep \/ Reads \/ UNCHANGED vars
BY Zenon DEF Next, AgentStep, ApiStep, Over

LEMMA AgentLeaves == AgentStep => UNCHANGED <<nodes, reply, summary, stored, toWeb, shown, ended>>
BY Zenon DEF AgentStep, SummarizerStarts, ModelStarts, ToolsAnswered, ToolStarts, Streams,
       SummarizerEnds, ModelCalls, SummarizerFails, ModelAnswers, ToolEnds, ToolRaises,
       RunFails, api, web

LEMMA StepTyped == Typed /\ [Next]_vars => Typed'
<1> SUFFICES ASSUME Typed, [Next]_vars PROVE Typed'
  OBVIOUS
<1>1. CASE AgentStep
  BY <1>1, AgentTyped, AgentLeaves DEF Typed, TypeOK, AgentTypes, Frames
<1>2. CASE ApiStep
  BY <1>2, ApiTyped DEF Typed, TypeOK, Frames, web
<1>3. CASE Reads
  BY <1>3, ReadsTyped DEF Typed, TypeOK, Frames, agent, api
<1>4. CASE UNCHANGED vars
  BY <1>4 DEF Typed, TypeOK, Frames, vars, agent, api, web
<1> QED
  BY <1>1, <1>2, <1>3, <1>4, NextIs

(***************************************************************************)
(* The runs, the frames and what is made of them keep their types, for     *)
(* every number of runs, chunks and calls.                                 *)
(***************************************************************************)
THEOREM TypeCorrect == Spec => []TypeOK
<1>1. Spec => []Typed
  BY InitTyped, StepTyped, PTL DEF Spec
<1>2. Typed => TypeOK
  BY DEF Typed
<1> QED
  BY <1>1, <1>2, PTL
-----------------------------------------------------------------------------
(* What holds of every list of nodes that folds a part of the log: R are   *)
(* the runs, S is the node that each chunk was streamed to, and n counts   *)
(* the chunks the list has read.                                           *)

IdsOf(L) == {L[i].id : i \in DOMAIN L}
ParentOf(s) == IF s = 0 THEN NoNode ELSE <<s, "tool">>

\* A node is of a run, and comes after the tool it ran in.
NodesOK(L, R) ==
  /\ \A i, j \in DOMAIN L : L[i].id = L[j].id => i = j
  /\ \A i \in DOMAIN L :
       LET r == L[i].id[1] IN
         /\ r \in DOMAIN R
         /\ L[i].parent = ParentOf(R[r].scope)
         /\ R[r].scope # 0 => \E j \in DOMAIN L : j < i /\ L[j].id = <<R[r].scope, "tool">>
         /\ L[i].id[2] = "tool" => R[r].kind \in ToolKinds
         /\ L[i].id[2] = "compaction" => R[r].kind = "summarizer"

\* The text of the answer, node after node.
Answers(L) == {i \in DOMAIN L : L[i].id[2] = "text" /\ L[i].parent = NoNode}
Tools(L)   == {i \in DOMAIN L : L[i].id[2] = "tool"}

\* Tools come as they were called, and answers as they were given.
OrderOK(L) ==
  /\ \A i, j \in Tools(L) : i < j => L[i].id[1] < L[j].id[1]
  /\ \A i, j \in Answers(L) : i < j => L[i].id[1] < L[j].id[1]

\* The text of a node is what was streamed to it so far.
TextOK(L, n, S) ==
  \A i \in DOMAIN L : InOrder(L[i].text, {k \in 1 .. n : S[k] = L[i].id})

OutputOK(L, R) ==
  \A i \in DOMAIN L : L[i].output # NoOutput => R[L[i].id[1]].at = "ended"

ListOK(L, n, R, S) ==
  /\ n <= Len(S)
  /\ NodesOK(L, R) /\ OrderOK(L) /\ TextOK(L, n, S) /\ OutputOK(L, R)

\* What holds of a frame of the log that comes after the list L.
FrameFits(f, L, n, R, S) ==
  /\ f.event = "delta" =>
       /\ n + 1 <= Len(S) /\ f.text = <<n + 1>> /\ S[n + 1] = f.id
       /\ f.id \in IdsOf(L)
       /\ \A i, j \in Answers(L) : L[i].id = f.id => j <= i
  /\ f.event = "node_end" =>
       /\ f.id[1] \in DOMAIN R /\ R[f.id[1]].at = "ended"
       /\ \A k \in DOMAIN S : S[k] = f.id => k <= n
       /\ f.id[2] = "compaction" /\ f.output # 0 =>
            f.output = f.id[1] /\ R[f.id[1]].scope = 0

Chunks(n, f) == IF f.event = "delta" THEN n + 1 ELSE n

\* The log, the list after each of its frames, and the chunks in it.
Shape(log, N, d) ==
  /\ log \in Seq(Frame) /\ \A p \in DOMAIN log : log[p].event \in Content /\ FrameOK(log[p])
  /\ N \in Seq(Seq(Node)) /\ Len(N) = Len(log) + 1
  /\ d \in Seq(Nat) /\ Len(d) = Len(log) + 1
  /\ N[1] = <<>> /\ d[1] = 0
  /\ \A p \in DOMAIN log : N[p + 1] = Folds(N[p], log[p]) /\ d[p + 1] = Chunks(d[p], log[p])

\* An end that was read is seen, and comes after the node.
EndsSeen(log, N) ==
  \A p \in DOMAIN N : \A i \in DOMAIN N[p] : \A q \in DOMAIN log :
    q < p /\ log[q].event = "node_end" /\ log[q].id = N[p][i].id => N[p][i].output # NoOutput

Past(log, N, d, R, S) ==
  /\ Shape(log, N, d)
  /\ \A p \in DOMAIN N : ListOK(N[p], d[p], R, S)
  /\ \A p \in DOMAIN log : FrameFits(log[p], N[p], d[p], R, S)
  /\ EndsSeen(log, N)

-----------------------------------------------------------------------------
(* Where the agent is, given the log it has written so far.                *)

PartOfEnd(kind) == IF kind = "summarizer" THEN "compaction" ELSE "tool"

\* Every step that ended has said so.
EndsLogged(log, R) ==
  \A r \in DOMAIN R : R[r].at = "ended" /\ R[r].kind # "model" =>
    \E q \in DOMAIN log : log[q].event = "node_end" /\ log[q].id = <<r, PartOfEnd(R[r].kind)>>

\* The last list L, read up to the last chunk.
Latest(L, R, S, O, B) ==
  /\ B = IdsOf(L)
  /\ \A k \in DOMAIN S : S[k] \in B
  /\ \A r \in DOMAIN R : R[r].kind \in ToolKinds =>
       <<r, "tool">> \in B /\ (R[r].at = "running" => r \in O)
  /\ \A r \in DOMAIN R : R[r].scope # 0 =>
       R[r].scope \in DOMAIN R /\ R[R[r].scope].kind = "subagent"

\* Runs of a scope take turns, except for tools.
Turns(R, g) ==
  /\ \A r \in DOMAIN R : R[r].at = "running" =>
       /\ g[R[r].scope].at = CASE R[r].kind = "summarizer" -> "summary"
                               [] R[r].kind = "model" -> "model"
                               [] OTHER -> "tools"
       /\ R[r].kind \in Streamers =>
            \A q \in DOMAIN R : R[q].scope = R[r].scope => q <= r
  /\ \A s \in Scopes : s # 0 /\ g[s].at # "none" =>
       /\ s \in DOMAIN R /\ R[s].kind = "subagent"
       /\ g[s].at # "ended" => R[s].at = "running"

AgentInv(log, N, d, R, S, g, O, B) ==
  /\ Past(log, N, d, R, S)
  /\ EndsLogged(log, R)
  /\ d[Len(d)] = Len(S)
  /\ Latest(N[Len(N)], R, S, O, B)
  /\ g[0].at # "ended" => Turns(R, g)

-----------------------------------------------------------------------------
(* Where the frames are: the api has read a of the log and the browser w.  *)

ApiTails == {<<>>, <<FrameOf("error", NoNode), FrameOf("end", NoNode), FrameOf("eof", NoNode)>>,
             <<FrameOf("end", NoNode), FrameOf("eof", NoNode)>>, <<FrameOf("eof", NoNode)>>}

\* The frames i + 1 .. j of the log, and then t.
Holds(q, log, i, j, t) ==
  /\ Len(q) = j - i + Len(t)
  /\ \A k \in 1 .. j - i : q[k] = log[i + k]
  /\ \A k \in 1 .. Len(t) : q[j - i + k] = t[k]

Read(n, S, R) == {k \in 1 .. n : S[k][2] = "text" /\ R[S[k][1]].scope = 0}

\* The text and the summary that are made of a log whose last list is L.
ReplyOK(text, L, n, R, S) == InOrder(text, Read(n, S, R)) /\ AnswerText(L) = text

SummaryOK(sum, R, S) ==
  sum.text # <<>> =>
    LET r == sum.through IN
      /\ r # 0 /\ r \in DOMAIN R /\ R[r].scope = 0 /\ R[r].at = "ended"
      /\ InOrder(sum.text, {k \in DOMAIN S : S[k] = <<r, "compaction">>})

Row(L) == [trace |-> IF \E i \in DOMAIN L : L[i].id[2] # "text" \/ L[i].parent # NoNode
                       THEN L ELSE <<>>,
           content |-> reply, summary |-> summary]

\* The answer is open, it failed, or it was stored.
Open(log, N, a, w) ==
  /\ \E t \in ApiTails : Holds(toApi, log, a, Len(log), t) /\ (t # <<>> => graph[0].at = "ended")
  /\ Holds(toWeb, log, w, a, <<>>)
  /\ stored = NoReply /\ ended = "no" /\ shown = N[w + 1]

Broken(log, N, a, w) ==
  /\ toApi = <<>> /\ graph[0].at = "ended" /\ stored = NoReply
  /\ \/ /\ ended = "no" /\ shown = N[w + 1]
        /\ Holds(toWeb, log, w, a, <<FrameOf("error", NoNode), FrameOf("eof", NoNode)>>)
     \/ ended = "error" /\ shown = <<>> /\ toWeb \in {<<>>, <<FrameOf("eof", NoNode)>>}

Kept(log, N, a, w) ==
  /\ toApi = <<>> /\ graph[0].at = "ended" /\ a = Len(log) /\ stored = Row(nodes)
  /\ shown = N[w + 1]
  /\ \/ /\ ended = "no"
        /\ Holds(toWeb, log, w, a, <<FrameOf("done", NoNode), FrameOf("eof", NoNode)>>)
     \/ ended = "done" /\ w = a /\ toWeb \in {<<>>, <<FrameOf("eof", NoNode)>>}

Passed(log, N, d, a, w) ==
  /\ a \in 0 .. Len(log) /\ w \in 0 .. a
  /\ nodes = N[a + 1] /\ ReplyOK(reply, N[a + 1], d[a + 1], runs, said)
  /\ SummaryOK(summary, runs, said)
  /\ Open(log, N, a, w) \/ Broken(log, N, a, w) \/ Kept(log, N, a, w)

-----------------------------------------------------------------------------
(* Recursion, along the numbers up to n.                                   *)

LEMMA Least ==
  ASSUME NEW T, T \subseteq Nat, T # {}
  PROVE  \E m \in T : \A k \in T : m <= k
<1>1. PICK R : R = OpToRel(<, Nat)
  OBVIOUS
<1>2. IsWellFoundedOn(R, Nat)
  BY <1>1, NatLessThanWellFounded
<1>3. \A a, b \in Nat : a < b => <<a, b>> \in R
  BY <1>1 DEF OpToRel
<1>4. PICK x \in T : \A y \in T : ~ (<<y, x>> \in R)
  BY <1>2, WFMin
<1>5. \A y \in T : ~ (y < x)
  BY <1>3, <1>4
<1> QED
  BY <1>5

\* What holds at j, and after a number if before it, holds up to n.
LEMMA UpTo ==
  ASSUME NEW n \in Nat, NEW j \in 0 .. n, NEW T, j \in T,
         \A i \in j + 1 .. n : i - 1 \in T => i \in T
  PROVE  \A i \in j .. n : i \in T
<1>1. PICK F : F = {i \in j .. n : i \notin T}
  OBVIOUS
<1>2. ASSUME F # {}
      PROVE  FALSE
  <2>1. F \subseteq Nat
    BY <1>1
  <2>2. PICK i \in F : \A k \in F : i <= k
    BY <1>2, <2>1, Least
  <2>3. i \in j .. n /\ i \notin T /\ i # j
    BY <1>1, <2>2
  <2>4. i \in j + 1 .. n /\ i - 1 \in j .. n /\ ~ (i <= i - 1)
    BY <2>3
  <2>5. i - 1 \in T
    BY <1>1, <2>2, <2>4
  <2> QED
    BY <2>3, <2>4, <2>5
<1> QED
  BY <1>1, <1>2

\* f starts with x, and G makes each of its values of the one before.
Recursion(f, n, x, G) == f[0] = x /\ \A i \in 1 .. n : f[i] = G[<<i, f[i - 1]>>]
CanRecur(n, A, x, G) == \E f \in [0 .. n -> A] : Recursion(f, n, x, G)

LEMMA Recurs ==
  ASSUME NEW n \in Nat, NEW A, NEW x \in A, NEW G \in [(1 .. n) \X A -> A]
  PROVE  \E f \in [0 .. n -> A] : Recursion(f, n, x, G)
<1>1. PICK T : T = {i \in 0 .. n : CanRecur(i, A, x, G)}
  OBVIOUS
<1>2. 0 \in T
  <2>1. PICK f : f = [i \in 0 .. 0 |-> x]
    OBVIOUS
  <2>2. f \in [0 .. 0 -> A] /\ Recursion(f, 0, x, G)
    BY <2>1 DEF Recursion
  <2> QED
    BY <1>1, <2>2 DEF CanRecur
<1>3. ASSUME NEW i \in 0 + 1 .. n, i - 1 \in T
      PROVE  i \in T
  <2>1. PICK f \in [0 .. i - 1 -> A] : Recursion(f, i - 1, x, G)
    BY <1>1, <1>3 DEF CanRecur
  <2>2. i \in 1 .. n /\ i - 1 \in 0 .. i - 1 /\ i \in 0 .. n /\ i \notin 0 .. i - 1
    BY <1>3
  <2>3. f[i - 1] \in A
    BY <2>1, <2>2
  <2>4. PICK y \in A : y = G[<<i, f[i - 1]>>]
    BY <2>2, <2>3
  <2>5. PICK g : g = [k \in 0 .. i |-> IF k = i THEN y ELSE f[k]]
    OBVIOUS
  <2>6. \A k \in 0 .. i : k # i => k \in 0 .. i - 1
    BY <2>2
  <2>7. g \in [0 .. i -> A] /\ g[i] = y /\ \A k \in 0 .. i - 1 : g[k] = f[k]
    BY <2>1, <2>2, <2>5, <2>6
  <2>8. ASSUME NEW k \in 1 .. i
        PROVE  g[k] = G[<<k, g[k - 1]>>]
    <3>1. k - 1 \in 0 .. i - 1
      BY <2>2
    <3>2. CASE k = i
      BY <2>4, <2>7, <3>1, <3>2
    <3>3. CASE k # i
      <4>1. k \in 1 .. i - 1 /\ k \in 0 .. i - 1
        BY <2>2, <3>3
      <4>2. f[k] = G[<<k, f[k - 1]>>]
        BY <2>1, <4>1 DEF Recursion
      <4> QED
        BY <2>7, <3>1, <4>1, <4>2
    <3> QED
      BY <3>2, <3>3
  <2>9. g[0] = x
    <3>1. 0 \in 0 .. i - 1
      BY <2>2
    <3> QED
      BY <2>1, <2>7, <3>1 DEF Recursion
  <2> QED
    BY <1>1, <2>2, <2>7, <2>8, <2>9 DEF CanRecur, Recursion
<1>4. \A i \in 0 .. n : i \in T
  BY <1>2, <1>3, UpTo
<1>5. n \in T
  BY <1>4
<1> QED
  BY <1>1, <1>5 DEF CanRecur

-----------------------------------------------------------------------------
(* All the texts of a sequence, one after the other.                       *)

Flattens(f, s) ==
  /\ f \in [0 .. Len(s) -> Text] /\ f[0] = <<>>
  /\ \A i \in 1 .. Len(s) : f[i] = f[i - 1] \o s[i]

LEMMA FlattenIs ==
  ASSUME NEW s \in Seq(Text)
  PROVE  \E f : Flattens(f, s) /\ FlattenSeq(s) = f[Len(s)]
<1>1. PICK n \in Nat : n = Len(s)
  OBVIOUS
<1>2. DOMAIN s = 1 .. n /\ \A i \in 1 .. n : s[i] \in Text
  BY <1>1
<1>3. <<>> \in Text
  BY DEF Text
<1>4. CASE n = 0
  <2>5. Len(s) = 0
    BY <1>1, <1>4
  <2>1. Len(s) = 0 /\ s = <<>>
    BY <2>5
  <2>4. FlattenSeq(s) = s
    BY <2>1 DEF FlattenSeq
  <2>2. PICK f : f = [i \in 0 .. 0 |-> <<>>]
    OBVIOUS
  <2>3. Flattens(f, s) /\ f[0] = <<>>
    BY <1>1, <1>3, <1>4, <2>2 DEF Flattens
  <2> QED
    BY <2>1, <2>3, <2>4
<1>5. CASE n # 0
  <2>1. PICK G : G = [p \in (1 .. n) \X Text |-> p[2] \o s[p[1]]]
    OBVIOUS
  <2>2. G \in [(1 .. n) \X Text -> Text]
    <3>1. \A p \in (1 .. n) \X Text : p[2] \o s[p[1]] \in Text
      BY <1>2, JoinedText
    <3> QED
      BY <2>1, <3>1
  <2>3. PICK f \in [0 .. n -> Text] : Recursion(f, n, <<>>, G)
    BY <1>3, <2>2, Recurs
  <2>4. /\ f[0] = <<>>
        /\ \A i \in 1 .. n : f[i] = f[i - 1] \o s[i]
    <3>1. ASSUME NEW i \in 1 .. n
          PROVE  f[i] = f[i - 1] \o s[i]
      <4>1. i - 1 \in 0 .. n
        OBVIOUS
      <4>2. f[i - 1] \in Text /\ f[i] = G[<<i, f[i - 1]>>]
        BY <2>3, <4>1 DEF Recursion
      <4> QED
        BY <2>1, <4>2
    <3> QED
      BY <2>3, <3>1 DEF Recursion
  <2>5. PICK h : h = [i \in 1 .. n |-> f[i]]
    OBVIOUS
  <2>6. h = [i \in 1 .. n |-> IF i = 1 THEN s[i] ELSE h[i - 1] \o s[i]]
    <3>1. ASSUME NEW i \in 1 .. n
          PROVE  f[i] = IF i = 1 THEN s[i] ELSE h[i - 1] \o s[i]
      <4>1. CASE i = 1
        <5>1. f[i] = <<>> \o s[i] /\ s[i] \in Text
          <6>1. i - 1 = 0
            BY <4>1
          <6> QED
            BY <1>2, <2>4, <6>1
        <5>2. <<>> \o s[i] = s[i]
          BY <5>1 DEF Text
        <5> QED
          BY <4>1, <5>1, <5>2
      <4>2. CASE i # 1
        <5>1. i - 1 \in 1 .. n
          BY <4>2
        <5> QED
          BY <2>4, <2>5, <4>2, <5>1
      <4> QED
        BY <4>1, <4>2
    <3> QED
      BY <2>5, <3>1
  <2>7. PICK g : /\ g = [i \in 1 .. n |-> IF i = 1 THEN s[i] ELSE g[i - 1] \o s[i]]
                 /\ FlattenSeq(s) = g[n]
    <3>1. FlattenSeq(s) =
            (CHOOSE g : g = [i \in 1 .. Len(s) |-> IF i = 1 THEN s[i] ELSE g[i - 1] \o s[i]])[Len(s)]
      BY <1>1, <1>5 DEF FlattenSeq
    <3>4. FlattenSeq(s) =
            (CHOOSE g : g = [i \in 1 .. n |-> IF i = 1 THEN s[i] ELSE g[i - 1] \o s[i]])[n]
      BY <1>1, <3>1
    <3>2. PICK g : g = CHOOSE k : k = [i \in 1 .. n |-> IF i = 1 THEN s[i] ELSE k[i - 1] \o s[i]]
      OBVIOUS
    <3>3. g = [i \in 1 .. n |-> IF i = 1 THEN s[i] ELSE g[i - 1] \o s[i]]
      BY <2>6, <3>2
    <3> QED
      <4>1. FlattenSeq(s) = g[n]
        BY Zenon, <3>2, <3>4
      <4> QED
        BY <3>3, <4>1
  <2>8. PICK e : e = [i \in 0 .. n |-> IF i = 0 THEN <<>> ELSE g[i]]
    OBVIOUS
  <2>9. e[0] = <<>> /\ \A i \in 1 .. n : e[i] = g[i]
    BY <1>1, <2>8
  <2>10. ASSUME NEW i \in 1 .. n
         PROVE  e[i] = e[i - 1] \o s[i]
    <3>1. CASE i = 1
      <4>1. g[i] = s[i]
        BY <2>7, <3>1
      <4>2. e[i] = s[i] /\ e[i - 1] = <<>> /\ s[i] \in Text
        <5>1. i - 1 = 0
          BY <3>1
        <5> QED
          BY <1>2, <2>9, <4>1, <5>1
      <4>3. <<>> \o s[i] = s[i]
        BY <4>2 DEF Text
      <4> QED
        BY <4>2, <4>3
    <3>2. CASE i # 1
      <4>1. i - 1 \in 1 .. n
        BY <3>2
      <4> QED
        BY <2>7, <2>9, <3>2, <4>1
    <3> QED
      BY <3>1, <3>2
  <2>11. PICK T : T = {i \in 0 .. n : e[i] \in Text}
    OBVIOUS
  <2>12. \A i \in 0 .. n : i \in T
    <3>1. 0 \in T /\ 0 \in 0 .. n
      BY <1>1, <1>3, <2>9, <2>11
    <3>2. ASSUME NEW i \in 0 + 1 .. n, i - 1 \in T
          PROVE  i \in T
      <4>1. i \in 1 .. n /\ i \in 0 .. n
        BY <3>2
      <4>2. e[i - 1] \in Text /\ s[i] \in Text
        BY <1>2, <2>11, <3>2, <4>1
      <4>3. e[i] = e[i - 1] \o s[i]
        BY <2>10, <4>1
      <4>4. e[i] \in Text
        BY <4>2, <4>3, JoinedText
      <4> QED
        BY <2>11, <4>1, <4>4
    <3> QED
      BY <3>1, <3>2, UpTo
  <2>13. e \in [0 .. n -> Text]
    BY <2>8, <2>11, <2>12
  <2>14. Flattens(e, s) /\ e[n] = g[n]
    <3>1. n \in 1 .. n
      BY <1>1, <1>5
    <3> QED
      BY <1>1, <2>9, <2>10, <2>13, <3>1 DEF Flattens
  <2> QED
    BY <1>1, <2>7, <2>14
<1> QED
  BY <1>4, <1>5

-----------------------------------------------------------------------------

LEMMA FlattenTo ==
  ASSUME NEW s \in Seq(Text), NEW t \in Seq(Text), NEW f, NEW g, Flattens(f, s), Flattens(g, t),
         NEW j \in Nat, j <= Len(s), j <= Len(t), \A i \in 1 .. j : t[i] = s[i]
  PROVE  g[j] = f[j]
<1>1. PICK T : T = {i \in 0 .. j : g[i] = f[i]}
  OBVIOUS
<1>2. 0 \in T
  BY <1>1 DEF Flattens
<1>3. ASSUME NEW i \in 0 + 1 .. j, i - 1 \in T
      PROVE  i \in T
  <2>1. i \in 1 .. Len(s) /\ i \in 1 .. Len(t) /\ i \in 1 .. j /\ i \in 0 .. j
    BY <1>3
  <2>2. f[i] = f[i - 1] \o s[i] /\ g[i] = g[i - 1] \o t[i] /\ g[i - 1] = f[i - 1]
    BY <1>1, <1>3, <2>1 DEF Flattens
  <2> QED
    BY <1>1, <2>1, <2>2
<1>4. \A i \in 0 .. j : i \in T
  <2>1. 0 \in 0 .. j
    OBVIOUS
  <2> QED
    BY <1>2, <1>3, <2>1, UpTo
<1> QED
  BY <1>1, <1>4

LEMMA FlattenRest ==
  ASSUME NEW s \in Seq(Text), NEW f, Flattens(f, s),
         NEW j \in Nat, j <= Len(s), \A i \in j + 1 .. Len(s) : s[i] = <<>>
  PROVE  f[Len(s)] = f[j]
<1>1. PICK n \in Nat : n = Len(s)
  OBVIOUS
<1>2. PICK T : T = {i \in 0 .. n : f[i] = f[j]}
  OBVIOUS
<1>3. j \in T /\ j \in 0 .. n
  BY <1>1, <1>2
<1>4. ASSUME NEW i \in j + 1 .. n, i - 1 \in T
      PROVE  i \in T
  <2>1. i \in 1 .. Len(s) /\ i \in 0 .. n /\ i - 1 \in 0 .. Len(s)
    BY <1>1, <1>4
  <2>2. f[i] = f[i - 1] \o s[i] /\ s[i] = <<>>
    BY <1>1, <1>4, <2>1 DEF Flattens
  <2>3. f[i - 1] \in Text /\ f[i - 1] = f[j]
    BY <1>2, <1>4, <2>1 DEF Flattens
  <2>4. f[i - 1] \o <<>> = f[i - 1]
    BY <2>3 DEF Text
  <2> QED
    BY <1>2, <2>1, <2>2, <2>3, <2>4
<1>5. \A i \in j .. n : i \in T
  BY <1>3, <1>4, UpTo
<1>6. n \in j .. n
  BY <1>1
<1> QED
  BY <1>1, <1>2, <1>5, <1>6

\* Nothing comes after what there is.
LEMMA FlattenSame ==
  ASSUME NEW s \in Seq(Text), NEW t \in Seq(Text), Len(s) <= Len(t),
         \A i \in 1 .. Len(s) : t[i] = s[i],
         \A i \in Len(s) + 1 .. Len(t) : t[i] = <<>>
  PROVE  FlattenSeq(t) = FlattenSeq(s)
<1>1. PICK f : Flattens(f, s) /\ FlattenSeq(s) = f[Len(s)]
  BY FlattenIs
<1>2. PICK g : Flattens(g, t) /\ FlattenSeq(t) = g[Len(t)]
  BY FlattenIs
<1>3. Len(s) \in Nat
  OBVIOUS
<1>4. g[Len(s)] = f[Len(s)]
  <2>1. Len(s) <= Len(s)
    BY <1>3
  <2> QED
    BY <1>1, <1>2, <1>3, <2>1, FlattenTo
<1>5. g[Len(t)] = g[Len(s)]
  BY <1>2, <1>3, FlattenRest
<1> QED
  BY <1>1, <1>2, <1>4, <1>5

\* The last text that is not empty grows.
LEMMA FlattenGrows ==
  ASSUME NEW s \in Seq(Text), NEW t \in Seq(Text), Len(t) = Len(s), NEW x \in Text,
         NEW j \in 1 .. Len(s), t[j] = s[j] \o x,
         \A i \in 1 .. Len(s) : i # j => t[i] = s[i],
         \A i \in j + 1 .. Len(s) : s[i] = <<>>
  PROVE  FlattenSeq(t) = FlattenSeq(s) \o x
<1>1. PICK f : Flattens(f, s) /\ FlattenSeq(s) = f[Len(s)]
  BY FlattenIs
<1>2. PICK g : Flattens(g, t) /\ FlattenSeq(t) = g[Len(t)]
  BY FlattenIs
<1>3. /\ Len(s) \in Nat /\ j \in Nat /\ j <= Len(s) /\ j - 1 \in Nat /\ j - 1 <= Len(s)
      /\ j - 1 \in 0 .. Len(s)
  OBVIOUS
<1>4. g[j - 1] = f[j - 1]
  <2>1. \A i \in 1 .. j - 1 : t[i] = s[i]
    BY <1>3
  <2> QED
    BY <1>1, <1>2, <1>3, <2>1, FlattenTo
<1>5. f[j] = f[j - 1] \o s[j] /\ g[j] = f[j - 1] \o t[j]
  BY <1>1, <1>2, <1>4 DEF Flattens
<1>6. f[j - 1] \in Text /\ s[j] \in Text
  BY <1>1, <1>3 DEF Flattens
<1>7. g[j] = f[j] \o x
  <2>1. f[j - 1] \o (s[j] \o x) = (f[j - 1] \o s[j]) \o x
    <3>1. PICK C : C = 1 .. MaxChunks
      OBVIOUS
    <3>2. PICK a, b : a = f[j - 1] /\ b = s[j]
      OBVIOUS
    <3>3. a \in Seq(C) /\ b \in Seq(C) /\ x \in Seq(C)
      BY <1>6, <3>1, <3>2 DEF Text
    <3>4. (a \o b) \o x = a \o (b \o x)
      BY ONLY <3>3, ConcatAssociative, SMTT(20)
    <3> QED
      BY <3>2, <3>4
  <2> QED
    BY <1>5, <2>1
<1>8. f[Len(s)] = f[j]
  BY <1>1, <1>3, FlattenRest
<1>9. g[Len(t)] = g[j]
  <2>1. \A i \in j + 1 .. Len(t) : t[i] = <<>>
    BY <1>3
  <2>2. j <= Len(t)
    BY <1>3
  <2> QED
    BY <1>2, <1>3, <2>1, <2>2, FlattenRest
<1> QED
  BY <1>1, <1>2, <1>7, <1>8, <1>9

-----------------------------------------------------------------------------
(* The text of the answer, as the nodes have it. *)

AnswerTexts(L) ==
  [i \in DOMAIN L |-> IF L[i].id[2] = "text" /\ L[i].parent = NoNode THEN L[i].text ELSE <<>>]

LEMMA AnswerTextsAre ==
  ASSUME NEW L \in Seq(Node)
  PROVE  /\ AnswerTexts(L) \in Seq(Text) /\ Len(AnswerTexts(L)) = Len(L)
         /\ \A i \in 1 .. Len(L) : AnswerTexts(L)[i] = IF i \in Answers(L) THEN L[i].text ELSE <<>>
         /\ AnswerText(L) = FlattenSeq(AnswerTexts(L))
<1>1. PICK n \in Nat : n = Len(L)
  OBVIOUS
<1>2. DOMAIN L = 1 .. n /\ <<>> \in Text
  BY <1>1 DEF Text
<1>3. \A i \in 1 .. n : L[i].text \in Text
  <2>1. \A i \in 1 .. n : L[i] \in Node
    BY <1>2
  <2> QED
    BY <2>1 DEF Node
<1>4. PICK t : t = AnswerTexts(L)
  OBVIOUS
<1>5. t = [i \in 1 .. n |-> IF L[i].id[2] = "text" /\ L[i].parent = NoNode THEN L[i].text ELSE <<>>]
  BY <1>2, <1>4 DEF AnswerTexts
<1>6. t \in [1 .. n -> Text]
  BY <1>2, <1>3, <1>5
<1>7. t \in Seq(Text) /\ Len(t) = n
  BY <1>6
<1>8. \A i \in 1 .. n : t[i] = IF i \in Answers(L) THEN L[i].text ELSE <<>>
  BY <1>2, <1>5 DEF Answers
<1>9. AnswerText(L) = FlattenSeq(t)
  BY <1>4 DEF AnswerText, AnswerTexts
<1> QED
  BY <1>1, <1>4, <1>7, <1>8, <1>9

LEMMA AnswerSame ==
  ASSUME NEW L \in Seq(Node), NEW M \in Seq(Node), Len(L) <= Len(M),
         \A i \in 1 .. Len(L) : /\ M[i].id = L[i].id /\ M[i].parent = L[i].parent
                                /\ i \in Answers(L) => M[i].text = L[i].text,
         \A i \in Len(L) + 1 .. Len(M) : M[i].text = <<>>
  PROVE  AnswerText(M) = AnswerText(L)
<1>1. PICK s, t : s = AnswerTexts(L) /\ t = AnswerTexts(M)
  OBVIOUS
<1>2. /\ s \in Seq(Text) /\ Len(s) = Len(L)
      /\ \A i \in 1 .. Len(L) : s[i] = IF i \in Answers(L) THEN L[i].text ELSE <<>>
      /\ AnswerText(L) = FlattenSeq(s)
  BY <1>1, AnswerTextsAre
<1>3. /\ t \in Seq(Text) /\ Len(t) = Len(M)
      /\ \A i \in 1 .. Len(M) : t[i] = IF i \in Answers(M) THEN M[i].text ELSE <<>>
      /\ AnswerText(M) = FlattenSeq(t)
  BY <1>1, AnswerTextsAre
<1>4. Len(L) \in Nat /\ Len(M) \in Nat /\ DOMAIN L = 1 .. Len(L) /\ DOMAIN M = 1 .. Len(M)
  OBVIOUS
<1>5. \A i \in 1 .. Len(L) : i \in 1 .. Len(M) /\ (i \in Answers(M) <=> i \in Answers(L))
  BY <1>4 DEF Answers
<1>6. \A i \in 1 .. Len(s) : t[i] = s[i]
  BY <1>2, <1>3, <1>5
<1>7. \A i \in Len(s) + 1 .. Len(t) : t[i] = <<>>
  <2>1. ASSUME NEW i \in Len(s) + 1 .. Len(t)
        PROVE  t[i] = <<>>
    <3>1. i \in 1 .. Len(M) /\ i \in Len(L) + 1 .. Len(M)
      BY <1>2, <1>3, <1>4
    <3> QED
      BY <1>3, <3>1
  <2> QED
    BY <2>1
<1>8. Len(s) <= Len(t)
  BY <1>2, <1>3
<1> QED
  BY <1>2, <1>3, <1>6, <1>7, <1>8, FlattenSame

LEMMA AnswerGrows ==
  ASSUME NEW L \in Seq(Node), NEW M \in Seq(Node), Len(M) = Len(L), NEW x \in Text,
         NEW j \in Answers(L), \A i \in Answers(L) : i <= j,
         \A i \in 1 .. Len(L) : /\ M[i].id = L[i].id /\ M[i].parent = L[i].parent
                                /\ M[i].text = IF i = j THEN L[i].text \o x ELSE L[i].text
  PROVE  AnswerText(M) = AnswerText(L) \o x
<1>1. PICK s, t : s = AnswerTexts(L) /\ t = AnswerTexts(M)
  OBVIOUS
<1>2. /\ s \in Seq(Text) /\ Len(s) = Len(L)
      /\ \A i \in 1 .. Len(L) : s[i] = IF i \in Answers(L) THEN L[i].text ELSE <<>>
      /\ AnswerText(L) = FlattenSeq(s)
  BY <1>1, AnswerTextsAre
<1>3. /\ t \in Seq(Text) /\ Len(t) = Len(M)
      /\ \A i \in 1 .. Len(M) : t[i] = IF i \in Answers(M) THEN M[i].text ELSE <<>>
      /\ AnswerText(M) = FlattenSeq(t)
  BY <1>1, AnswerTextsAre
<1>4. Len(L) \in Nat /\ DOMAIN L = 1 .. Len(L) /\ DOMAIN M = 1 .. Len(L)
  OBVIOUS
<1>5. j \in 1 .. Len(L) /\ \A i \in 1 .. Len(L) : i \in Answers(M) <=> i \in Answers(L)
  BY <1>4 DEF Answers
<1>6. t[j] = s[j] \o x
  BY <1>2, <1>3, <1>5
<1>7. \A i \in 1 .. Len(s) : i # j => t[i] = s[i]
  BY <1>2, <1>3, <1>5
<1>8. \A i \in j + 1 .. Len(s) : s[i] = <<>>
  <2>1. ASSUME NEW i \in j + 1 .. Len(s)
        PROVE  s[i] = <<>>
    <3>1. i \in 1 .. Len(L) /\ ~ (i <= j)
      BY <1>2, <1>4, <1>5
    <3> QED
      BY <1>2, <3>1
  <2> QED
    BY <2>1
<1>9. j \in 1 .. Len(s) /\ Len(t) = Len(s)
  BY <1>2, <1>3, <1>5
<1>10. FlattenSeq(t) = FlattenSeq(s) \o x
  BY <1>2, <1>3, <1>6, <1>7, <1>8, <1>9, FlattenGrows
<1> QED
  BY <1>2, <1>3, <1>10

-----------------------------------------------------------------------------
(* The text of a node grows by the chunk after all that were read.         *)

LEMMA NoText == InOrder(<<>>, {})
BY DEF InOrder

LEMMA NextChunk ==
  ASSUME NEW t \in Text, NEW n \in Nat, NEW C \in SUBSET (1 .. n), InOrder(t, C),
         n + 1 \in 1 .. MaxChunks
  PROVE  InOrder(t \o <<n + 1>>, C \cup {n + 1})
<1>1. PICK l \in Nat : l = Len(t)
  BY DEF Text
<1>2. PICK q : q = t \o <<n + 1>>
  OBVIOUS
<1>3. /\ t \in Seq(Nat) /\ DOMAIN t = 1 .. l
  BY <1>1, RunLogAssumption DEF Text
<1>4. DOMAIN q = 1 .. l + 1 /\ q[l + 1] = n + 1 /\ \A i \in 1 .. l : q[i] = t[i]
  BY <1>1, <1>2, <1>3
<1>5. \A i \in 1 .. l : t[i] \in C /\ t[i] \in Nat /\ t[i] < n + 1
  BY <1>3 DEF InOrder
<1>6. {q[i] : i \in DOMAIN q} = C \cup {n + 1}
  <2>1. ASSUME NEW c \in C PROVE \E i \in DOMAIN q : q[i] = c
    <3>1. PICK i \in 1 .. l : t[i] = c
      BY <1>3 DEF InOrder
    <3> QED
      BY <1>1, <1>4, <3>1
  <2>2. \A i \in 1 .. l + 1 : i \in 1 .. l \/ i = l + 1
    BY <1>1
  <2>3. l + 1 \in DOMAIN q
    BY <1>1, <1>4
  <2>4. \A i \in DOMAIN q : q[i] \in C \cup {n + 1}
    BY <1>4, <1>5, <2>2
  <2>5. \A c \in C \cup {n + 1} : \E i \in DOMAIN q : q[i] = c
    BY <1>4, <2>1, <2>3
  <2>6. PICK T : T = {q[i] : i \in DOMAIN q}
    OBVIOUS
  <2>7. \A c : c \in T <=> \E i \in DOMAIN q : q[i] = c
    BY <2>6
  <2>8. \A c : c \in T <=> c \in C \cup {n + 1}
    BY <2>4, <2>5, <2>7
  <2>9. T = C \cup {n + 1}
    BY <2>8
  <2> QED
    BY <2>6, <2>9
<1>7. \A i, j \in DOMAIN q : i < j => q[i] < q[j]
  <2>1. ASSUME NEW i \in 1 .. l + 1, NEW j \in 1 .. l + 1, i < j
        PROVE  q[i] < q[j]
    <3>1. i \in 1 .. l
      BY <1>1, <2>1
    <3>2. CASE j \in 1 .. l
      BY <1>3, <1>4, <2>1, <3>1, <3>2 DEF InOrder
    <3>3. CASE j = l + 1
      BY <1>4, <1>5, <3>1, <3>3
    <3> QED
      BY <3>2, <3>3, <1>1
  <2> QED
    BY <1>4, <2>1
<1> QED
  BY <1>2, <1>6, <1>7 DEF InOrder

-----------------------------------------------------------------------------
(* A list stays in order when it folds the next frame. *)

\* What is so of a node that is announced.
NodeFits(f, L, n, R, S) ==
  LET r == f.id[1] IN
    /\ f.event = "node" /\ f.id \notin IdsOf(L) /\ r \in DOMAIN R
    /\ R[r].at # "ended"
    /\ f.parent = ParentOf(R[r].scope)
    /\ R[r].scope # 0 => <<R[r].scope, "tool">> \in IdsOf(L)
    /\ f.id[2] = "tool" => R[r].kind \in ToolKinds /\ \A i \in Tools(L) : L[i].id[1] < r
    /\ f.id[2] = "compaction" => R[r].kind = "summarizer"
    /\ f.id[2] = "text" /\ f.parent = NoNode => \A i \in Answers(L) : L[i].id[1] < r
    /\ \A k \in 1 .. n : S[k] # f.id

LEMMA SameNodes ==
  ASSUME NEW L \in Seq(Node), NEW M \in Seq(Node), NEW R, Len(M) = Len(L),
         \A i \in 1 .. Len(L) : M[i].id = L[i].id /\ M[i].parent = L[i].parent
  PROVE  /\ IdsOf(M) = IdsOf(L) /\ Answers(M) = Answers(L) /\ Tools(M) = Tools(L)
         /\ NodesOK(L, R) => NodesOK(M, R)
         /\ OrderOK(L) => OrderOK(M)
<1>1. DOMAIN L = 1 .. Len(L) /\ DOMAIN M = 1 .. Len(L)
  OBVIOUS
<1>2. IdsOf(M) = IdsOf(L) /\ Answers(M) = Answers(L) /\ Tools(M) = Tools(L)
  BY <1>1 DEF IdsOf, Answers, Tools
<1>3. NodesOK(L, R) => NodesOK(M, R)
  BY <1>1 DEF NodesOK
<1>4. OrderOK(L) => OrderOK(M)
  <2>1. \A i \in Tools(L) \cup Answers(L) : M[i].id = L[i].id
    BY <1>1 DEF Tools, Answers
  <2> QED
    BY <1>2, <2>1 DEF OrderOK
<1> QED
  BY <1>2, <1>3, <1>4

LEMMA ListNode ==
  ASSUME NEW L \in Seq(Node), NEW f \in Frame, FrameOK(f), NEW n \in Nat, NEW R, NEW S,
         ListOK(L, n, R, S), NodeFits(f, L, n, R, S)
  PROVE  ListOK(Folds(L, f), n, R, S) /\ IdsOf(Folds(L, f)) = IdsOf(L) \cup {f.id}
<1>1. PICK M, l, x : M = Folds(L, f) /\ l = Len(L) /\ x = NewNode(f)
  OBVIOUS
<1>2. /\ M \in Seq(Node) /\ l \in Nat /\ DOMAIN L = 1 .. l /\ DOMAIN M = 1 .. l + 1
      /\ M[l + 1] = x /\ \A i \in 1 .. l : M[i] = L[i]
  BY <1>1, FoldsNode DEF NodeFits
<1>3. x.id = f.id /\ x.parent = f.parent /\ x.text = <<>> /\ x.output = NoOutput
  BY <1>1 DEF NewNode
<1>4. PICK r : r = f.id[1]
  OBVIOUS
<1>5. \A i \in 1 .. l + 1 : i \in 1 .. l \/ i = l + 1
  BY <1>2
<1>6. l + 1 \in 1 .. l + 1 /\ \A i \in 1 .. l : i \in 1 .. l + 1 /\ i < l + 1
  BY <1>2
<1>7. \A i \in 1 .. l : L[i].id # f.id
  BY <1>2 DEF NodeFits, IdsOf
<1>8. NodesOK(M, R)
  <2>1. \A i, j \in DOMAIN M : M[i].id = M[j].id => i = j
    BY <1>2, <1>3, <1>5, <1>7 DEF ListOK, NodesOK
  <2>2. ASSUME NEW i \in 1 .. l
        PROVE  LET q == M[i].id[1] IN
                 /\ q \in DOMAIN R
                 /\ M[i].parent = ParentOf(R[q].scope)
                 /\ R[q].scope # 0 => \E j \in DOMAIN M : j < i /\ M[j].id = <<R[q].scope, "tool">>
                 /\ M[i].id[2] = "tool" => R[q].kind \in ToolKinds
                 /\ M[i].id[2] = "compaction" => R[q].kind = "summarizer"
    <3>1. PICK q : q = L[i].id[1]
      OBVIOUS
    <3>2. /\ q \in DOMAIN R
          /\ L[i].parent = ParentOf(R[q].scope)
          /\ R[q].scope # 0 => \E j \in DOMAIN L : j < i /\ L[j].id = <<R[q].scope, "tool">>
          /\ L[i].id[2] = "tool" => R[q].kind \in ToolKinds
          /\ L[i].id[2] = "compaction" => R[q].kind = "summarizer"
      BY <1>2, <2>2, <3>1 DEF ListOK, NodesOK
    <3>3. R[q].scope # 0 => \E j \in DOMAIN M : j < i /\ M[j].id = <<R[q].scope, "tool">>
      BY ONLY <1>2, <1>6, <3>2
    <3> QED
      BY <1>2, <2>2, <3>1, <3>2, <3>3
  <2>3. LET q == M[l + 1].id[1] IN
          /\ q \in DOMAIN R
          /\ M[l + 1].parent = ParentOf(R[q].scope)
          /\ R[q].scope # 0 => \E j \in DOMAIN M : j < l + 1 /\ M[j].id = <<R[q].scope, "tool">>
          /\ M[l + 1].id[2] = "tool" => R[q].kind \in ToolKinds
          /\ M[l + 1].id[2] = "compaction" => R[q].kind = "summarizer"
    <3>1. R[r].scope # 0 => \E j \in 1 .. l : L[j].id = <<R[r].scope, "tool">>
      BY <1>2, <1>4 DEF NodeFits, IdsOf
    <3> QED
      BY <1>2, <1>3, <1>4, <1>6, <3>1 DEF NodeFits
  <2> QED
    BY <1>2, <1>5, <2>1, <2>2, <2>3 DEF NodesOK
<1>9. OrderOK(M)
  <2>1. ASSUME NEW i \in Tools(M), NEW j \in Tools(M), i < j
        PROVE  M[i].id[1] < M[j].id[1]
    <3>1. i \in 1 .. l /\ i \in Tools(L)
      BY <1>2, <1>5, <2>1 DEF Tools
    <3>2. CASE j \in 1 .. l
      <4>1. j \in Tools(L)
        BY <1>2, <2>1, <3>2 DEF Tools
      <4> QED
        BY <1>2, <2>1, <3>1, <3>2, <4>1 DEF ListOK, OrderOK
    <3>3. CASE j = l + 1
      <4>1. f.id[2] = "tool"
        BY <1>2, <1>3, <3>3 DEF Tools
      <4> QED
        BY <1>2, <1>3, <3>1, <3>3, <4>1 DEF NodeFits
    <3> QED
      BY <1>2, <1>5, <3>2, <3>3 DEF Tools
  <2>2. ASSUME NEW i \in Answers(M), NEW j \in Answers(M), i < j
        PROVE  M[i].id[1] < M[j].id[1]
    <3>1. i \in 1 .. l /\ i \in Answers(L)
      BY <1>2, <1>5, <2>2 DEF Answers
    <3>2. CASE j \in 1 .. l
      <4>1. j \in Answers(L)
        BY <1>2, <2>2, <3>2 DEF Answers
      <4> QED
        BY <1>2, <2>2, <3>1, <3>2, <4>1 DEF ListOK, OrderOK
    <3>3. CASE j = l + 1
      <4>1. f.id[2] = "text" /\ f.parent = NoNode
        BY <1>2, <1>3, <3>3 DEF Answers
      <4> QED
        BY <1>2, <1>3, <3>1, <3>3, <4>1 DEF NodeFits
    <3> QED
      BY <1>2, <1>5, <3>2, <3>3 DEF Answers
  <2> QED
    BY <2>1, <2>2 DEF OrderOK
<1>10. TextOK(M, n, S)
  <2>1. {k \in 1 .. n : S[k] = f.id} = {}
    BY DEF NodeFits
  <2>2. InOrder(M[l + 1].text, {k \in 1 .. n : S[k] = M[l + 1].id})
    BY <1>2, <1>3, <2>1, NoText
  <2>3. \A i \in 1 .. l : InOrder(M[i].text, {k \in 1 .. n : S[k] = M[i].id})
    BY <1>2 DEF ListOK, TextOK
  <2> QED
    BY <1>2, <1>5, <2>2, <2>3 DEF TextOK
<1>11. OutputOK(M, R)
  BY <1>2, <1>3, <1>5 DEF ListOK, OutputOK
<1>12. IdsOf(M) = IdsOf(L) \cup {f.id}
  BY <1>2, <1>3, <1>5, <1>6 DEF IdsOf
<1> QED
  BY <1>1, <1>8, <1>9, <1>10, <1>11, <1>12 DEF ListOK

LEMMA ListText ==
  ASSUME NEW L \in Seq(Node), NEW f \in Frame, FrameOK(f), NEW n \in Nat, NEW R, NEW S,
         Len(S) \in Nat, Len(S) <= MaxChunks,
         ListOK(L, n, R, S), FrameFits(f, L, n, R, S), f.event = "delta"
  PROVE  ListOK(Folds(L, f), n + 1, R, S) /\ IdsOf(Folds(L, f)) = IdsOf(L)
<1>1. PICK M, l : M = Folds(L, f) /\ l = Len(L)
  OBVIOUS
<1>2. /\ M \in Seq(Node) /\ l \in Nat /\ Len(M) = l /\ DOMAIN L = 1 .. l /\ DOMAIN M = 1 .. l
      /\ \A i \in 1 .. l :
           /\ M[i].id = L[i].id /\ M[i].parent = L[i].parent /\ M[i].output = L[i].output
           /\ M[i].text = IF L[i].id = f.id THEN L[i].text \o f.text ELSE L[i].text
  BY <1>1, FoldsText
<1>3. n + 1 <= Len(S) /\ f.text = <<n + 1>> /\ S[n + 1] = f.id
  BY DEF FrameFits
<1>4. NodesOK(M, R) /\ OrderOK(M) /\ IdsOf(M) = IdsOf(L)
  BY <1>1, <1>2, SameNodes DEF ListOK
<1>5. OutputOK(M, R)
  BY <1>2 DEF ListOK, OutputOK
<1>6. ASSUME NEW i \in 1 .. l
      PROVE  InOrder(M[i].text, {k \in 1 .. n + 1 : S[k] = M[i].id})
  <2>1. PICK C : C = {k \in 1 .. n : S[k] = L[i].id}
    OBVIOUS
  <2>2. InOrder(L[i].text, C) /\ C \in SUBSET (1 .. n)
    BY <1>2, <2>1 DEF ListOK, TextOK
  <2>3. \A k \in 1 .. n + 1 : k \in 1 .. n \/ k = n + 1
    OBVIOUS
  <2>4. CASE L[i].id = f.id
    <3>1. L[i].text \in Text
      <4>1. L[i] \in Node
        BY <1>2
      <4> QED
        BY <4>1 DEF Node
    <3>2. n + 1 \in 1 .. MaxChunks
      BY <1>3, RunLogAssumption
    <3>3. InOrder(L[i].text \o <<n + 1>>, C \cup {n + 1})
      BY <2>2, <3>1, <3>2, NextChunk
    <3>4. {k \in 1 .. n + 1 : S[k] = M[i].id} = C \cup {n + 1}
      BY <1>2, <1>3, <2>1, <2>3, <2>4
    <3>5. M[i].text = L[i].text \o <<n + 1>>
      BY <1>2, <1>3, <2>4
    <3> QED
      BY <3>3, <3>4, <3>5
  <2>5. CASE L[i].id # f.id
    <3>1. {k \in 1 .. n + 1 : S[k] = M[i].id} = C
      BY <1>2, <1>3, <2>1, <2>3, <2>5
    <3>2. M[i].text = L[i].text
      BY <1>2, <2>5
    <3> QED
      BY <2>2, <3>1, <3>2
  <2> QED
    BY <2>4, <2>5
<1>7. TextOK(M, n + 1, S)
  BY <1>2, <1>6 DEF TextOK
<1> QED
  BY <1>1, <1>3, <1>4, <1>5, <1>7 DEF ListOK

LEMMA ListEnd ==
  ASSUME NEW L \in Seq(Node), NEW f \in Frame, FrameOK(f), NEW n \in Nat, NEW R, NEW S,
         ListOK(L, n, R, S), FrameFits(f, L, n, R, S), f.event = "node_end"
  PROVE  ListOK(Folds(L, f), n, R, S) /\ IdsOf(Folds(L, f)) = IdsOf(L)
<1>1. PICK M, l : M = Folds(L, f) /\ l = Len(L)
  OBVIOUS
<1>2. /\ M \in Seq(Node) /\ l \in Nat /\ Len(M) = l /\ DOMAIN L = 1 .. l /\ DOMAIN M = 1 .. l
      /\ \A i \in 1 .. l :
           /\ M[i].id = L[i].id /\ M[i].parent = L[i].parent /\ M[i].text = L[i].text
           /\ M[i].output = IF L[i].id = f.id THEN f.output ELSE L[i].output
  BY <1>1, FoldsEnd
<1>3. NodesOK(M, R) /\ OrderOK(M) /\ IdsOf(M) = IdsOf(L)
  BY <1>1, <1>2, SameNodes DEF ListOK
<1>4. OutputOK(M, R)
  BY <1>2 DEF ListOK, OutputOK, FrameFits
<1>5. TextOK(M, n, S)
  <2>1. ASSUME NEW i \in 1 .. l
        PROVE  InOrder(M[i].text, {k \in 1 .. n : S[k] = M[i].id})
    <3>1. InOrder(L[i].text, {k \in 1 .. n : S[k] = L[i].id})
      BY <1>2 DEF ListOK, TextOK
    <3>2. M[i].text = L[i].text /\ M[i].id = L[i].id
      BY <1>2
    <3> QED
      BY <3>1, <3>2
  <2> QED
    BY <1>2, <2>1 DEF TextOK
<1> QED
  BY <1>1, <1>3, <1>4, <1>5 DEF ListOK

-----------------------------------------------------------------------------
(* What was so of the log stays so while runs end and chunks come.         *)

Grows(R, Q, S, T) ==
  /\ DOMAIN R \subseteq DOMAIN Q
  /\ \A r \in DOMAIN R : /\ Q[r].kind = R[r].kind /\ Q[r].scope = R[r].scope
                         /\ R[r].at = "ended" => Q[r].at = "ended"
  /\ \A k \in DOMAIN S : T[k] = S[k]
  /\ \A k \in DOMAIN T : k \in DOMAIN S \/ T[k][1] \notin DOMAIN R \/ R[T[k][1]].at # "ended"
  /\ Len(S) <= Len(T)

LEMMA ListKeeps ==
  ASSUME NEW L, NEW n \in Nat, NEW R, NEW Q, NEW S \in Seq(NodeId), NEW T \in Seq(NodeId),
         ListOK(L, n, R, S), Grows(R, Q, S, T)
  PROVE  ListOK(L, n, Q, T)
<1>1. DOMAIN S = 1 .. Len(S) /\ Len(S) \in Nat /\ Len(T) \in Nat /\ n <= Len(S)
  BY DEF ListOK
<1>2. n <= Len(T)
  BY <1>1 DEF Grows
<1>3. NodesOK(L, Q)
  <2>1. \A i, j \in DOMAIN L : L[i].id = L[j].id => i = j
    BY DEF ListOK, NodesOK
  <2>2. ASSUME NEW i \in DOMAIN L, NEW r, r = L[i].id[1]
        PROVE  /\ r \in DOMAIN Q
               /\ L[i].parent = ParentOf(Q[r].scope)
               /\ Q[r].scope # 0 => \E j \in DOMAIN L : j < i /\ L[j].id = <<Q[r].scope, "tool">>
               /\ L[i].id[2] = "tool" => Q[r].kind \in ToolKinds
               /\ L[i].id[2] = "compaction" => Q[r].kind = "summarizer"
    <3>1. /\ r \in DOMAIN R
          /\ L[i].parent = ParentOf(R[r].scope)
          /\ R[r].scope # 0 => \E j \in DOMAIN L : j < i /\ L[j].id = <<R[r].scope, "tool">>
          /\ L[i].id[2] = "tool" => R[r].kind \in ToolKinds
          /\ L[i].id[2] = "compaction" => R[r].kind = "summarizer"
      BY <2>2 DEF ListOK, NodesOK
    <3>2. r \in DOMAIN Q /\ Q[r].kind = R[r].kind /\ Q[r].scope = R[r].scope
      BY <3>1 DEF Grows
    <3> QED
      BY <3>1, <3>2
  <2> QED
    BY <2>1, <2>2 DEF NodesOK
<1>4. OrderOK(L)
  BY DEF ListOK
<1>5. TextOK(L, n, T)
  <2>1. ASSUME NEW i \in DOMAIN L
        PROVE  {k \in 1 .. n : T[k] = L[i].id} = {k \in 1 .. n : S[k] = L[i].id}
    BY <1>1 DEF Grows
  <2> QED
    BY <2>1 DEF ListOK, TextOK
<1>6. OutputOK(L, Q)
  BY DEF ListOK, NodesOK, OutputOK, Grows
<1> QED
  BY <1>2, <1>3, <1>4, <1>5, <1>6 DEF ListOK

LEMMA FitsKeeps ==
  ASSUME NEW f, NEW L, NEW n \in Nat, NEW R, NEW Q, NEW S \in Seq(NodeId), NEW T \in Seq(NodeId),
         FrameFits(f, L, n, R, S), Grows(R, Q, S, T)
  PROVE  FrameFits(f, L, n, Q, T)
<1>1. DOMAIN S = 1 .. Len(S) /\ Len(S) \in Nat /\ Len(T) \in Nat
  OBVIOUS
<1>2. ASSUME f.event = "delta"
      PROVE  /\ n + 1 <= Len(T) /\ f.text = <<n + 1>> /\ T[n + 1] = f.id
             /\ f.id \in IdsOf(L)
             /\ \A i, j \in Answers(L) : L[i].id = f.id => j <= i
  <2>1. n + 1 \in DOMAIN S
    BY <1>1, <1>2 DEF FrameFits
  <2> QED
    BY <1>1, <1>2, <2>1 DEF FrameFits, Grows
<1>3. ASSUME f.event = "node_end"
      PROVE  /\ f.id[1] \in DOMAIN Q /\ Q[f.id[1]].at = "ended"
             /\ \A k \in DOMAIN T : T[k] = f.id => k <= n
             /\ f.id[2] = "compaction" /\ f.output # 0 =>
                  f.output = f.id[1] /\ Q[f.id[1]].scope = 0
  BY <1>3 DEF FrameFits, Grows
<1> QED
  BY <1>2, <1>3 DEF FrameFits

LEMMA PastKeeps ==
  ASSUME NEW log, NEW N, NEW d, NEW R, NEW Q, NEW S \in Seq(NodeId), NEW T \in Seq(NodeId),
         Past(log, N, d, R, S), Grows(R, Q, S, T)
  PROVE  Past(log, N, d, Q, T)
<1>1. \A p \in DOMAIN N : d[p] \in Nat /\ (p \in DOMAIN log => d[p] \in Nat)
  <2>1. d \in Seq(Nat) /\ N \in Seq(Seq(Node)) /\ Len(N) = Len(d)
    BY DEF Past, Shape
  <2>2. DOMAIN N = DOMAIN d /\ \A p \in DOMAIN d : d[p] \in Nat
    BY ONLY <2>1
  <2> QED
    BY ONLY <2>2
<1>2. \A p \in DOMAIN log : p \in DOMAIN N
  <2>1. log \in Seq(Frame) /\ Len(N) = Len(log) + 1
    BY DEF Past, Shape
  <2>2. DOMAIN N = 1 .. Len(N)
    BY DEF Past, Shape
  <2> QED
    BY <2>1, <2>2
<1>3. \A p \in DOMAIN N : ListOK(N[p], d[p], Q, T)
  BY <1>1, ListKeeps DEF Past
<1>4. \A p \in DOMAIN log : FrameFits(log[p], N[p], d[p], Q, T)
  BY <1>1, <1>2, FitsKeeps DEF Past
<1> QED
  BY <1>3, <1>4 DEF Past

LEMMA OutputIs == \A s \in Scopes : s # NoOutput
BY RunLogAssumption DEF Scopes, NoOutput

Seen(log, L) ==
  \A i \in DOMAIN L : \A q \in DOMAIN log :
    log[q].event = "node_end" /\ log[q].id = L[i].id => L[i].output # NoOutput

SeenNow(f, L) ==
  \A i \in DOMAIN L : f.event = "node_end" /\ f.id = L[i].id => L[i].output # NoOutput

\* What was read before a frame is seen after it, and so is the frame.
LEMMA EndSeen ==
  ASSUME NEW log, NEW R, NEW L \in Seq(Node), NEW f \in Frame, FrameOK(f), f.event \in Content,
         NEW n, NEW S, f.event = "node" => NodeFits(f, L, n, R, S),
         \A q \in DOMAIN log : log[q].event = "node_end" => R[log[q].id[1]].at = "ended",
         Seen(log, L)
  PROVE  Seen(log, Folds(L, f)) /\ SeenNow(f, Folds(L, f))
<1> USE DEF Seen, SeenNow
<1>1. PICK M, l : M = Folds(L, f) /\ l = Len(L)
  OBVIOUS
<1>2. l \in Nat /\ DOMAIN L = 1 .. l
  BY <1>1
<1>3. CASE f.event = "node"
  <2>1. /\ M \in Seq(Node) /\ DOMAIN M = 1 .. l + 1 /\ M[l + 1].id = f.id
        /\ \A i \in 1 .. l : M[i] = L[i]
    <3>1. NewNode(f).id = f.id
      BY DEF NewNode
    <3>2. /\ M \in Seq(Node) /\ Len(M) = l + 1 /\ M[l + 1] = NewNode(f)
          /\ \A i \in 1 .. l : M[i] = L[i]
      BY <1>1, <1>3, FoldsNode
    <3> QED
      BY <3>1, <3>2
  <2>2. \A q \in DOMAIN log : log[q].event = "node_end" => log[q].id # f.id
    BY <1>3 DEF NodeFits
  <2>3. \A i \in 1 .. l + 1 : i \in 1 .. l \/ i = l + 1
    BY <1>2
  <2> QED
    BY <1>1, <1>2, <1>3, <2>1, <2>2, <2>3
<1>4. CASE f.event = "delta"
  <2>1. /\ DOMAIN M = 1 .. l
        /\ \A i \in 1 .. l : M[i].id = L[i].id /\ M[i].output = L[i].output
    BY <1>1, <1>2, <1>4, FoldsText
  <2> QED
    BY <1>1, <1>2, <1>4, <2>1
<1>5. CASE f.event = "node_end"
  <2>1. /\ DOMAIN M = 1 .. l
        /\ \A i \in 1 .. l : /\ M[i].id = L[i].id
                             /\ M[i].output = IF L[i].id = f.id THEN f.output ELSE L[i].output
    BY <1>1, <1>2, <1>5, FoldsEnd
  <2>2. f.output # NoOutput
    BY <1>5, OutputIs DEF FrameOK, Content
  <2> QED
    BY <1>1, <1>2, <2>1, <2>2
<1> QED
  BY <1>3, <1>4, <1>5 DEF Content

\* The last list of a log, and its chunks.
Tip(N, d, L, n) == L = N[Len(N)] /\ n = d[Len(d)]

LEMMA PastGrows ==
  ASSUME NEW log, NEW N, NEW d, NEW R, NEW S \in Seq(NodeId),
         Past(log, N, d, R, S),
         NEW f \in Frame, FrameOK(f), f.event \in Content, NEW L, NEW n,
         f.event = "delta" => Len(S) <= MaxChunks,
         Tip(N, d, L, n),
         FrameFits(f, L, n, R, S), f.event = "node" => NodeFits(f, L, n, R, S)
  PROVE  /\ Past(Append(log, f), Append(N, Folds(L, f)), Append(d, Chunks(n, f)), R, S)
         /\ IdsOf(Folds(L, f)) = IF f.event = "node" THEN IdsOf(L) \cup {f.id} ELSE IdsOf(L)
         /\ Tip(Append(N, Folds(L, f)), Append(d, Chunks(n, f)), Folds(L, f), Chunks(n, f))
<1> USE DEF Tip
<1>1. PICK m \in Nat : m = Len(log)
  <2>1. log \in Seq(Frame)
    BY DEF Past, Shape
  <2> QED
    BY ONLY <2>1
<1>2. PICK g, M, c : g = Append(log, f) /\ M = Folds(L, f) /\ c = Chunks(n, f)
  OBVIOUS
<1>3. PICK P, e : P = Append(N, M) /\ e = Append(d, c)
  OBVIOUS
<1>4. /\ log \in Seq(Frame) /\ N \in Seq(Seq(Node)) /\ d \in Seq(Nat)
      /\ Len(N) = m + 1 /\ Len(d) = m + 1
  BY <1>1 DEF Past, Shape
<1>5. /\ DOMAIN log = 1 .. m /\ DOMAIN N = 1 .. m + 1 /\ DOMAIN d = 1 .. m + 1
      /\ L = N[m + 1] /\ n = d[m + 1] /\ m + 1 \in 1 .. m + 1
  BY <1>1, <1>4
<1>6. L \in Seq(Node) /\ n \in Nat
  BY <1>4, <1>5
<1>7. M \in Seq(Node) /\ c \in Nat
  BY <1>2, <1>6, FoldsTypes DEF Chunks
<1>8. /\ g \in Seq(Frame) /\ DOMAIN g = 1 .. m + 1 /\ Len(g) = m + 1
      /\ g[m + 1] = f /\ \A p \in 1 .. m : g[p] = log[p]
  BY <1>1, <1>2, <1>4
<1>9. /\ P \in Seq(Seq(Node)) /\ DOMAIN P = 1 .. m + 2 /\ Len(P) = m + 2
      /\ P[m + 2] = M /\ \A p \in 1 .. m + 1 : P[p] = N[p]
  BY <1>3, <1>4, <1>7
<1>10. /\ e \in Seq(Nat) /\ DOMAIN e = 1 .. m + 2 /\ Len(e) = m + 2
       /\ e[m + 2] = c /\ \A p \in 1 .. m + 1 : e[p] = d[p]
  BY <1>3, <1>4, <1>7
<1>11. /\ \A p \in 1 .. m + 1 : p \in 1 .. m \/ p = m + 1
       /\ \A p \in 1 .. m + 2 : p \in 1 .. m + 1 \/ p = m + 2
       /\ \A p \in 1 .. m : p \in 1 .. m + 1 /\ p + 1 \in 1 .. m + 1
       /\ m + 1 + 1 = m + 2 /\ 1 \in 1 .. m + 1
  OBVIOUS
<1>12. Shape(g, P, e)
  <2>1. \A p \in 1 .. m + 1 : g[p].event \in Content /\ FrameOK(g[p])
    BY <1>5, <1>8, <1>11 DEF Past, Shape
  <2>2. P[1] = <<>> /\ e[1] = 0
    BY <1>9, <1>10, <1>11 DEF Past, Shape
  <2>3. ASSUME NEW p \in 1 .. m + 1
        PROVE  P[p + 1] = Folds(P[p], g[p]) /\ e[p + 1] = Chunks(e[p], g[p])
    <3>1. CASE p \in 1 .. m
      <4>1. N[p + 1] = Folds(N[p], log[p]) /\ d[p + 1] = Chunks(d[p], log[p])
        BY <1>5, <3>1 DEF Past, Shape
      <4> QED
        BY <1>8, <1>9, <1>10, <1>11, <3>1, <4>1
    <3>2. CASE p = m + 1
      BY <1>2, <1>5, <1>8, <1>9, <1>10, <1>11, <3>2
    <3> QED
      BY <1>11, <3>1, <3>2
  <2>4. \A p \in DOMAIN g : /\ g[p].event \in Content /\ FrameOK(g[p])
                            /\ P[p + 1] = Folds(P[p], g[p]) /\ e[p + 1] = Chunks(e[p], g[p])
    BY <1>8, <2>1, <2>3
  <2>5. Len(P) = Len(g) + 1 /\ Len(e) = Len(g) + 1
    BY <1>8, <1>9, <1>10
  <2> QED
    BY <1>8, <1>9, <1>10, <2>2, <2>4, <2>5 DEF Shape
<1>13. ListOK(L, n, R, S)
  BY <1>5 DEF Past
<1>14. /\ ListOK(M, c, R, S)
       /\ IdsOf(M) = IF f.event = "node" THEN IdsOf(L) \cup {f.id} ELSE IdsOf(L)
  <2>1. Len(S) \in Nat
    OBVIOUS
  <2>2. CASE f.event = "node"
    BY <1>2, <1>6, <1>13, <2>2, ListNode DEF Chunks
  <2>3. CASE f.event = "delta"
    BY <1>2, <1>6, <1>13, <2>1, <2>3, ListText DEF Chunks
  <2>4. CASE f.event = "node_end"
    BY <1>2, <1>6, <1>13, <2>4, ListEnd DEF Chunks
  <2> QED
    BY <2>2, <2>3, <2>4 DEF Content
<1>15. \A p \in 1 .. m + 2 : ListOK(P[p], e[p], R, S)
  <2>1. \A p \in 1 .. m + 1 : ListOK(N[p], d[p], R, S)
    BY <1>5 DEF Past
  <2> QED
    BY <1>9, <1>10, <1>11, <1>14, <2>1
<1>16. \A p \in 1 .. m + 1 : FrameFits(g[p], P[p], e[p], R, S)
  <2>1. \A p \in 1 .. m : FrameFits(log[p], N[p], d[p], R, S)
    BY <1>5 DEF Past
  <2>2. FrameFits(g[m + 1], P[m + 1], e[m + 1], R, S)
    BY <1>5, <1>8, <1>9, <1>10
  <2> QED
    BY <1>8, <1>9, <1>10, <1>11, <2>1, <2>2
<1>17. \A p \in 1 .. m + 1 : \A i \in DOMAIN N[p] : \A q \in 1 .. m :
         q < p /\ log[q].event = "node_end" /\ log[q].id = N[p][i].id => N[p][i].output # NoOutput
  BY <1>5 DEF Past, EndsSeen
<1>18. \A q \in 1 .. m : log[q].event = "node_end" => R[log[q].id[1]].at = "ended"
  BY <1>5 DEF Past, FrameFits
<1>19. \A i \in DOMAIN M :
         /\ \A q \in 1 .. m :
              log[q].event = "node_end" /\ log[q].id = M[i].id => M[i].output # NoOutput
         /\ f.event = "node_end" /\ f.id = M[i].id => M[i].output # NoOutput
  <2>1. \A i \in DOMAIN L : \A q \in 1 .. m :
          log[q].event = "node_end" /\ log[q].id = L[i].id => L[i].output # NoOutput
    BY <1>5, <1>17
  <2>2. /\ Seen(log, L)
        /\ \A q \in DOMAIN log : log[q].event = "node_end" => R[log[q].id[1]].at = "ended"
    BY <1>5, <1>18, <2>1 DEF Seen
  <2>3. Seen(log, Folds(L, f)) /\ SeenNow(f, Folds(L, f))
    BY <1>6, <2>2, EndSeen
  <2> QED
    BY <1>2, <1>5, <2>3 DEF Seen, SeenNow
<1>20. EndsSeen(g, P)
  <2>1. ASSUME NEW p \in 1 .. m + 2, NEW i \in DOMAIN P[p], NEW q \in 1 .. m + 1,
               q < p, g[q].event = "node_end", g[q].id = P[p][i].id
        PROVE  P[p][i].output # NoOutput
    <3>1. CASE p \in 1 .. m + 1
      <4>1. q \in 1 .. m
        BY <2>1, <3>1
      <4> QED
        BY <1>8, <1>9, <1>17, <2>1, <3>1, <4>1
    <3>2. CASE p = m + 2
      BY <1>8, <1>9, <1>11, <1>19, <2>1, <3>2
    <3> QED
      BY <1>11, <3>1, <3>2
  <2> QED
    BY <1>8, <1>9, <2>1 DEF EndsSeen
<1>21. Past(g, P, e, R, S)
  BY <1>8, <1>9, <1>12, <1>15, <1>16, <1>20 DEF Past
<1> QED
  BY <1>2, <1>3, <1>9, <1>10, <1>14, <1>21

-----------------------------------------------------------------------------
(* Taking turns. *)

Moves(s, at) == graph'[s].at = at /\ \A t \in Scopes : t # s => graph'[t] = graph[t]

LEMMA ReachMoves ==
  ASSUME Typed, NEW s \in Scopes, NEW at, Reach(s, at)
  PROVE  Moves(s, at)
BY DEF Typed, TypeOK, Reach, Moves, Graph

StateOf(kind) == CASE kind = "summarizer" -> "summary" [] kind = "model" -> "model"
                   [] OTHER -> "tools"

\* Turns, in the words of StateOf.
LEMMA TurnsIs ==
  ASSUME NEW R, NEW g
  PROVE  Turns(R, g) <=>
    /\ \A r \in DOMAIN R : R[r].at = "running" =>
         /\ g[R[r].scope].at = StateOf(R[r].kind)
         /\ R[r].kind \in Streamers =>
              \A q \in DOMAIN R : R[q].scope = R[r].scope => q <= r
    /\ \A s \in Scopes : s # 0 /\ g[s].at # "none" =>
         /\ s \in DOMAIN R /\ R[s].kind = "subagent"
         /\ g[s].at # "ended" => R[s].at = "running"
BY DEF Turns, StateOf

LEMMA StreamerBegins ==
  ASSUME Typed, Turns(runs, graph), NEW s \in Scopes, graph[s].at \in {"compact", "agent"},
         NEW kind \in Streamers, Begin(kind, s), Reach(s, StateOf(kind))
  PROVE  Turns(runs', graph')
<1>1. PICK n : n = Len(runs) + 1
  OBVIOUS
<1>2. kind \in Kinds
  BY DEF Streamers, Kinds
<1>3. /\ DOMAIN runs' = DOMAIN runs \cup {n} /\ n \notin DOMAIN runs
      /\ runs'[n] = [kind |-> kind, scope |-> s, at |-> "running"]
      /\ \A q \in DOMAIN runs : runs'[q] = runs[q]
  BY <1>1, <1>2, BeginIs
<1>4. n <= n /\ \A q \in DOMAIN runs : q <= n
  BY <1>1 DEF Typed, TypeOK
<1>5. Moves(s, StateOf(kind))
  BY ReachMoves
<1>6. \A r \in DOMAIN runs : runs[r].at = "running" => runs[r].scope # s
  BY TurnsIs DEF StateOf
<1>7. ASSUME NEW r \in DOMAIN runs', runs'[r].at = "running"
      PROVE  /\ graph'[runs'[r].scope].at = StateOf(runs'[r].kind)
             /\ runs'[r].kind \in Streamers =>
                  \A q \in DOMAIN runs' : runs'[q].scope = runs'[r].scope => q <= r
  <2>1. CASE r = n
    BY <1>3, <1>4, <1>5, <2>1 DEF Moves
  <2>2. CASE r \in DOMAIN runs
    <3>1. runs[r].scope # s /\ runs[r].scope \in Scopes
      BY <1>3, <1>6, <1>7, <2>2, RunIs
    <3>2. /\ graph[runs[r].scope].at = StateOf(runs[r].kind)
          /\ runs[r].kind \in Streamers =>
               \A q \in DOMAIN runs : runs[q].scope = runs[r].scope => q <= r
      BY <1>3, <1>7, <2>2, TurnsIs
    <3> QED
      BY <1>3, <1>5, <2>2, <3>1, <3>2 DEF Moves
  <2> QED
    BY <1>3, <2>1, <2>2
<1>8. ASSUME NEW t \in Scopes, t # 0, graph'[t].at # "none"
      PROVE  /\ t \in DOMAIN runs' /\ runs'[t].kind = "subagent"
             /\ graph'[t].at # "ended" => runs'[t].at = "running"
  <2>1. graph[t].at # "none" /\ (graph'[t].at # "ended" => graph[t].at # "ended")
    BY <1>5, <1>8 DEF Moves
  <2> QED
    BY <1>3, <1>8, <2>1, TurnsIs
<1> QED
  BY <1>7, <1>8, TurnsIs

\* Only one run streams in a scope.
LEMMA OneStreams ==
  ASSUME Typed, Turns(runs, graph), NEW r \in DOMAIN runs, NEW q \in DOMAIN runs,
         runs[r].at = "running", runs[q].at = "running", runs[r].kind \in Streamers,
         runs[q].scope = runs[r].scope
  PROVE  q = r
<1>1. StateOf(runs[q].kind) = StateOf(runs[r].kind)
  BY TurnsIs
<1>2. runs[q].kind \in Streamers
  BY <1>1 DEF StateOf, Streamers
<1>3. q <= r /\ r <= q /\ q \in Nat /\ r \in Nat
  BY <1>2, TurnsIs DEF Typed, TypeOK
<1> QED
  BY <1>3

LEMMA StreamerEnds ==
  ASSUME Typed, Turns(runs, graph), NEW r \in DOMAIN runs, runs[r].kind \in Streamers,
         runs[r].at = "running", NEW how \in {"ended", "failed"}, End(r, how),
         NEW at \in {"agent", "tools", "ended"}, Moves(runs[r].scope, at)
  PROVE  Turns(runs', graph')
<1>1. /\ DOMAIN runs' = DOMAIN runs /\ runs'[r].at = how
      /\ \A q \in DOMAIN runs : /\ runs'[q].kind = runs[q].kind
                                /\ runs'[q].scope = runs[q].scope
                                /\ q # r => runs'[q] = runs[q]
  BY EndIs
<1>2. ASSUME NEW q \in DOMAIN runs, runs'[q].at = "running"
      PROVE  /\ graph'[runs'[q].scope].at = StateOf(runs'[q].kind)
             /\ runs'[q].kind \in Streamers =>
                  \A p \in DOMAIN runs : runs'[p].scope = runs'[q].scope => p <= q
  <2>1. q # r /\ runs[q].at = "running"
    BY <1>1, <1>2
  <2>2. runs[q].scope # runs[r].scope /\ runs[q].scope \in Scopes
    BY <2>1, OneStreams, RunIs
  <2>3. /\ graph[runs[q].scope].at = StateOf(runs[q].kind)
        /\ runs[q].kind \in Streamers =>
             \A p \in DOMAIN runs : runs[p].scope = runs[q].scope => p <= q
    BY <2>1, TurnsIs
  <2> QED
    BY <1>1, <2>2, <2>3 DEF Moves
<1>3. ASSUME NEW t \in Scopes, t # 0, graph'[t].at # "none"
      PROVE  /\ t \in DOMAIN runs /\ runs'[t].kind = "subagent"
             /\ graph'[t].at # "ended" => runs'[t].at = "running"
  <2>1. graph[runs[r].scope].at = StateOf(runs[r].kind)
    BY TurnsIs
  <2>2. graph[t].at # "none" /\ (graph'[t].at # "ended" => graph[t].at # "ended")
    BY <1>3, <2>1 DEF Moves, StateOf, Streamers
  <2>3. /\ t \in DOMAIN runs /\ runs[t].kind = "subagent"
        /\ graph[t].at # "ended" => runs[t].at = "running"
    BY <1>3, <2>2, TurnsIs
  <2>4. t # r
    BY <2>3 DEF Streamers
  <2> QED
    BY <1>1, <2>2, <2>3, <2>4
<1> QED
  BY <1>1, <1>2, <1>3, TurnsIs

LEMMA ToolBegins ==
  ASSUME Typed, Turns(runs, graph), NEW s \in Scopes, graph[s].at = "tools",
         NEW kind \in ToolKinds, Begin(kind, s), NEW n, n = Len(runs) + 1,
         \A r \in DOMAIN runs : runs[r].scope # 0 => runs[r].scope \in DOMAIN runs,
         graph'[s].at = "tools",
         n # s => graph'[n].at = (IF kind = "subagent" THEN "compact" ELSE graph[n].at),
         \A t \in Scopes : t # s /\ t # n => graph'[t] = graph[t]
  PROVE  Turns(runs', graph')
<1>1. kind \in Kinds /\ kind \notin Streamers /\ StateOf(kind) = "tools"
  BY DEF ToolKinds, Kinds, Streamers, StateOf
<1>2. /\ DOMAIN runs' = DOMAIN runs \cup {n} /\ n \notin DOMAIN runs
      /\ runs'[n] = [kind |-> kind, scope |-> s, at |-> "running"]
      /\ \A q \in DOMAIN runs : runs'[q] = runs[q]
  BY <1>1, BeginIs
<1>3. n # 0 /\ n # s
  <2>1. s # 0 => s \in DOMAIN runs
    BY TurnsIs
  <2>2. n \in Nat /\ n # 0
    BY DEF Typed, TypeOK
  <2> QED
    BY <1>2, <2>1, <2>2
<1>4. ASSUME NEW r \in DOMAIN runs', runs'[r].at = "running"
      PROVE  /\ graph'[runs'[r].scope].at = StateOf(runs'[r].kind)
             /\ runs'[r].kind \in Streamers =>
                  \A q \in DOMAIN runs' : runs'[q].scope = runs'[r].scope => q <= r
  <2>1. CASE r = n
    BY <1>1, <1>2, <2>1
  <2>2. CASE r \in DOMAIN runs
    <3>1. runs[r].scope \in Scopes /\ runs[r].scope # n
      BY <1>2, <1>3, <2>2, RunIs
    <3>2. /\ graph[runs[r].scope].at = StateOf(runs[r].kind)
          /\ runs[r].kind \in Streamers =>
               \A q \in DOMAIN runs : runs[q].scope = runs[r].scope => q <= r
      BY <1>2, <1>4, <2>2, TurnsIs
    <3>3. graph'[runs[r].scope].at = graph[runs[r].scope].at
      BY <3>1
    <3>4. runs[r].kind \in Streamers => runs[r].scope # s
      BY <3>2 DEF StateOf, Streamers
    <3> QED
      BY <1>2, <2>2, <3>2, <3>3, <3>4
  <2> QED
    BY <1>2, <2>1, <2>2
<1>5. ASSUME NEW t \in Scopes, t # 0, graph'[t].at # "none"
      PROVE  /\ t \in DOMAIN runs' /\ runs'[t].kind = "subagent"
             /\ graph'[t].at # "ended" => runs'[t].at = "running"
  <2>1. CASE t = n /\ kind = "subagent"
    BY <1>2, <2>1
  <2>2. CASE ~ (t = n /\ kind = "subagent")
    <3>1. graph'[t].at = graph[t].at
      BY <1>3, <2>2
    <3> QED
      BY <1>2, <1>5, <3>1, TurnsIs
  <2> QED
    BY <2>1, <2>2
<1> QED
  BY <1>4, <1>5, TurnsIs

LEMMA ToolStops ==
  ASSUME Typed, Turns(runs, graph), NEW r \in DOMAIN runs, runs[r].kind \in ToolKinds,
         NEW how \in {"ended", "failed"}, End(r, how), UNCHANGED graph,
         runs[r].kind = "subagent" => graph[r].at = "ended"
  PROVE  Turns(runs', graph')
<1>1. /\ DOMAIN runs' = DOMAIN runs /\ runs'[r].at = how
      /\ \A q \in DOMAIN runs : /\ runs'[q].kind = runs[q].kind
                                /\ runs'[q].scope = runs[q].scope
                                /\ q # r => runs'[q] = runs[q]
  BY EndIs
<1>2. \A q \in DOMAIN runs : runs'[q].at = "running" => q # r /\ runs[q].at = "running"
  BY <1>1
<1> QED
  BY <1>1, <1>2, TurnsIs

LEMMA ToolsDone ==
  ASSUME Typed, Turns(runs, graph), NEW s \in Scopes, graph[s].at = "tools", Running(s) = {},
         Moves(s, "compact"), UNCHANGED runs
  PROVE  Turns(runs', graph')
<1>1. \A r \in DOMAIN runs : runs[r].at = "running" => runs[r].scope # s /\ runs[r].scope \in Scopes
  BY RunIs DEF Running, IsRunning
<1>2. \A t \in Scopes : (graph'[t].at # "none" => graph[t].at # "none")
                        /\ (graph'[t].at # "ended" => graph[t].at # "ended")
  BY DEF Moves
<1> QED
  BY <1>1, <1>2, TurnsIs DEF Moves

-----------------------------------------------------------------------------
(* The steps of the agent, and what they add to the log. *)

Agent(log, N, d) == AgentInv(log, N, d, runs, said, graph, openTools, started)

Extends(log, N, d, g, P, e) ==
  /\ Len(log) <= Len(g) /\ \A p \in DOMAIN log : g[p] = log[p]
  /\ \A p \in DOMAIN N : P[p] = N[p] /\ e[p] = d[p]

\* Content goes into the log, the end does not.
Wrote(log, g) ==
  \/ \E fs \in Seq(Frame) : g = log \o fs /\ toApi' = toApi \o fs
  \/ g = log /\ graph'[0].at = "ended" /\ \E t \in ApiTails : toApi' = toApi \o t

Continues(log, N, d) ==
  \E g, P, e : /\ AgentInv(g, P, e, runs', said', graph', openTools', started')
               /\ Extends(log, N, d, g, P, e)
               /\ Wrote(log, g)
               /\ Grows(runs, runs', said, said')

LEMMA PastTypes ==
  ASSUME NEW log, NEW N, NEW d, NEW R, NEW S, Past(log, N, d, R, S)
  PROVE  /\ log \in Seq(Frame) /\ N \in Seq(Seq(Node)) /\ d \in Seq(Nat)
         /\ Len(log) \in Nat /\ Len(N) = Len(log) + 1 /\ Len(d) = Len(log) + 1
         /\ DOMAIN log = 1 .. Len(log) /\ DOMAIN N = 1 .. Len(log) + 1
         /\ DOMAIN d = 1 .. Len(log) + 1
         /\ \A p \in 1 .. Len(log) + 1 : N[p] \in Seq(Node) /\ d[p] \in Nat
         /\ N[Len(N)] \in Seq(Node) /\ d[Len(d)] \in Nat
         /\ ListOK(N[Len(N)], d[Len(d)], R, S)
<1>1. /\ log \in Seq(Frame) /\ N \in Seq(Seq(Node)) /\ d \in Seq(Nat)
      /\ Len(N) = Len(log) + 1 /\ Len(d) = Len(log) + 1
  BY DEF Past, Shape
<1>2. PICK m \in Nat : m = Len(log)
  BY <1>1
<1>3. DOMAIN log = 1 .. m /\ DOMAIN N = 1 .. m + 1 /\ DOMAIN d = 1 .. m + 1 /\ m + 1 \in 1 .. m + 1
  BY <1>1, <1>2
<1>4. \A p \in 1 .. m + 1 : N[p] \in Seq(Node) /\ d[p] \in Nat
  BY <1>1, <1>3
<1>5. ListOK(N[m + 1], d[m + 1], R, S)
  BY <1>3 DEF Past
<1> QED
  BY <1>1, <1>2, <1>3, <1>4, <1>5

LEMMA QuietStep ==
  ASSUME Typed, NEW log, NEW N, NEW d, Agent(log, N, d), NEW L, L = N[Len(N)],
         Grows(runs, runs', said, said), UNCHANGED <<said, openTools, started>>,
         EndsLogged(log, runs'), Latest(L, runs', said, openTools, started),
         graph'[0].at # "ended" => Turns(runs', graph'),
         \/ UNCHANGED toApi
         \/ graph'[0].at = "ended" /\ \E t \in ApiTails : toApi' = toApi \o t
  PROVE  Continues(log, N, d)
<1>1. said \in Seq(NodeId) /\ toApi \in Seq(Frame)
  BY DEF Typed, TypeOK
<1>2. Past(log, N, d, runs, said) /\ d[Len(d)] = Len(said)
  BY DEF Agent, AgentInv
<1>3. Past(log, N, d, runs', said)
  BY <1>1, <1>2, PastKeeps
<1>4. AgentInv(log, N, d, runs', said', graph', openTools', started')
  BY <1>2, <1>3 DEF AgentInv
<1>5. Extends(log, N, d, log, N, d)
  BY <1>2, PastTypes DEF Extends
<1>6. Wrote(log, log)
  <2>1. CASE UNCHANGED toApi
    <3>1. <<>> \in Seq(Frame) /\ log = log \o <<>> /\ toApi' = toApi \o <<>>
      BY <1>1, <1>2, <2>1, PastTypes
    <3> QED
      BY <3>1 DEF Wrote
  <2>2. CASE graph'[0].at = "ended" /\ \E t \in ApiTails : toApi' = toApi \o t
    BY <2>2 DEF Wrote
  <2> QED
    BY <2>1, <2>2
<1>7. Grows(runs, runs', said, said')
  OBVIOUS
<1> QED
  BY <1>4, <1>5, <1>6, <1>7 DEF Continues

LEMMA BeginGrows ==
  ASSUME Typed, NEW kind \in Kinds, NEW s \in Scopes, Begin(kind, s)
  PROVE  Grows(runs, runs', said, said)
<1>1. \A q \in DOMAIN runs : q \in DOMAIN runs' /\ runs'[q] = runs[q]
  BY BeginIs
<1>2. Len(said) <= Len(said)
  BY DEF Typed, TypeOK
<1> QED
  BY <1>1, <1>2 DEF Grows

LEMMA EndGrows ==
  ASSUME Typed, NEW r \in DOMAIN runs, runs[r].at = "running",
         NEW how \in {"ended", "failed"}, End(r, how)
  PROVE  Grows(runs, runs', said, said)
<1>1. Len(said) <= Len(said)
  BY DEF Typed, TypeOK
<1>2. \A q \in DOMAIN runs : /\ q \in DOMAIN runs'
                             /\ runs'[q].kind = runs[q].kind /\ runs'[q].scope = runs[q].scope
                             /\ runs[q].at = "ended" => runs'[q].at = "ended"
  BY EndIs
<1> QED
  BY <1>1, <1>2 DEF Grows

\* A run that ends without a frame is a model's, or failed.
LEMMA EndLatest ==
  ASSUME Typed, NEW log, NEW L, Latest(L, runs, said, openTools, started), EndsLogged(log, runs),
         NEW r \in DOMAIN runs, NEW how \in {"ended", "failed"}, End(r, how)
  PROVE  /\ Latest(L, runs', said, openTools, started)
         /\ Latest(L, runs', said, openTools \ {r}, started)
         /\ how = "failed" \/ runs[r].kind = "model" => EndsLogged(log, runs')
         /\ (\E q \in DOMAIN log : /\ log[q].event = "node_end"
                                   /\ log[q].id = <<r, PartOfEnd(runs[r].kind)>>)
              => EndsLogged(log, runs')
<1>1. /\ DOMAIN runs' = DOMAIN runs /\ runs'[r].at = how
      /\ \A q \in DOMAIN runs : /\ runs'[q].kind = runs[q].kind
                                /\ runs'[q].scope = runs[q].scope
                                /\ q # r => runs'[q] = runs[q]
  BY EndIs
<1>2. \A q \in DOMAIN runs : runs'[q].at = "running" => q # r /\ runs[q].at = "running"
  BY <1>1
<1>3. \A O \in {openTools, openTools \ {r}} : Latest(L, runs', said, O, started)
  BY <1>1, <1>2 DEF Latest
<1>4. \A q \in DOMAIN runs : q # r => (runs'[q].at = "ended" => runs[q].at = "ended")
  BY <1>1
<1> QED
  BY <1>1, <1>3, <1>4 DEF EndsLogged

LEMMA StreamerBeginsStep ==
  ASSUME Typed, NEW log, NEW N, NEW d, Agent(log, N, d), NEW s \in Scopes,
         SummarizerStarts(s) \/ ModelStarts(s)
  PROVE  Continues(log, N, d)
<1>1. PICK kind \in Streamers : Begin(kind, s) /\ Reach(s, StateOf(kind))
  BY DEF SummarizerStarts, ModelStarts, Streamers, StateOf
<1>2. /\ Streaming /\ graph[s].at \in {"compact", "agent"}
      /\ UNCHANGED <<said, openTools, started, toApi>>
  BY DEF SummarizerStarts, ModelStarts
<1>3. kind \in Kinds /\ kind \notin ToolKinds
  BY DEF Streamers, Kinds, ToolKinds
<1>4. Turns(runs, graph)
  BY <1>2 DEF Agent, AgentInv, Streaming
<1>5. Turns(runs', graph')
  BY <1>1, <1>2, <1>4, StreamerBegins
<1>6. PICK n : n = Len(runs) + 1
  OBVIOUS
<1>7. /\ DOMAIN runs' = DOMAIN runs \cup {n} /\ n \notin DOMAIN runs
      /\ runs'[n] = [kind |-> kind, scope |-> s, at |-> "running"]
      /\ \A q \in DOMAIN runs : runs'[q] = runs[q]
  BY <1>1, <1>3, <1>6, BeginIs
<1>8. EndsLogged(log, runs')
  <2>1. \A q \in DOMAIN runs' : runs'[q].at = "ended" => q \in DOMAIN runs /\ runs'[q] = runs[q]
    BY <1>7
  <2>2. EndsLogged(log, runs)
    BY DEF Agent, AgentInv
  <2> QED
    BY <2>1, <2>2 DEF EndsLogged
<1>9. s # 0 => s \in DOMAIN runs /\ runs[s].kind = "subagent"
  BY <1>2, <1>4, TurnsIs
<1>10. PICK L : L = N[Len(N)]
  OBVIOUS
<1>11. Latest(L, runs', said, openTools, started)
  <2>1. Latest(L, runs, said, openTools, started)
    BY <1>10 DEF Agent, AgentInv
  <2> QED
    BY <1>3, <1>7, <1>9, <2>1 DEF Latest
<1>12. Grows(runs, runs', said, said)
  BY <1>1, <1>3, BeginGrows
<1> QED
  BY <1>2, <1>5, <1>8, <1>10, <1>11, <1>12, QuietStep

LEMMA EndQuiet ==
  ASSUME Typed, NEW log, NEW N, NEW d, Agent(log, N, d), NEW r \in DOMAIN runs,
         runs[r].at = "running", NEW how \in {"ended", "failed"}, End(r, how),
         how = "failed" \/ runs[r].kind = "model",
         UNCHANGED <<said, openTools, started>>,
         graph'[0].at # "ended" => Turns(runs', graph'),
         \/ UNCHANGED toApi
         \/ graph'[0].at = "ended" /\ \E t \in ApiTails : toApi' = toApi \o t
  PROVE  Continues(log, N, d)
<1>1. PICK L : L = N[Len(N)]
  OBVIOUS
<1>2. Latest(L, runs, said, openTools, started) /\ EndsLogged(log, runs)
  BY <1>1 DEF Agent, AgentInv
<1>3. Latest(L, runs', said, openTools, started) /\ EndsLogged(log, runs')
  BY <1>2, EndLatest
<1>4. Grows(runs, runs', said, said)
  BY EndGrows
<1> QED
  BY <1>1, <1>3, <1>4, QuietStep

LEMMA StreamerEndsStep ==
  ASSUME Typed, NEW log, NEW N, NEW d, Agent(log, N, d), NEW r \in DOMAIN runs,
         SummarizerFails(r) \/ ModelAnswers(r) \/ \E n \in 0 .. MaxCalls : ModelCalls(r, n)
  PROVE  Continues(log, N, d)
<1>1. runs[r].scope \in Scopes
  BY RunIs
<1>2. PICK s \in Scopes : s = runs[r].scope
  BY <1>1
<1>3. Turns(runs, graph) /\ graph[0].at # "ended"
  BY DEF Agent, AgentInv, Streaming, SummarizerFails, ModelAnswers, ModelCalls
<1>4. CASE SummarizerFails(r)
  <2>1. /\ runs[r].at = "running" /\ runs[r].kind \in Streamers /\ End(r, "failed")
        /\ Reach(s, "agent") /\ UNCHANGED <<said, openTools, started, toApi>>
    BY <1>2, <1>4 DEF SummarizerFails, IsRunning, Streamers
  <2>2. Turns(runs', graph')
    BY <1>2, <1>3, <2>1, ReachMoves, StreamerEnds
  <2> QED
    BY <2>1, <2>2, EndQuiet
<1>5. CASE ModelAnswers(r)
  <2>1. /\ runs[r].at = "running" /\ runs[r].kind = "model" /\ End(r, "ended")
        /\ Reach(s, "ended") /\ UNCHANGED <<said, openTools, started>>
    BY <1>2, <1>5 DEF ModelAnswers, IsRunning
  <2>2. Moves(s, "ended")
    BY <2>1, ReachMoves
  <2>3. Turns(runs', graph')
    BY <1>2, <1>3, <2>1, <2>2, StreamerEnds DEF Streamers
  <2>4. \/ UNCHANGED toApi
        \/ graph'[0].at = "ended" /\ \E t \in ApiTails : toApi' = toApi \o t
    <3>1. CASE s = 0
      <4>1. toApi' = toApi \o <<FrameOf("end", NoNode), FrameOf("eof", NoNode)>>
        BY <1>2, <1>5, <3>1 DEF ModelAnswers, Emit
      <4>2. <<FrameOf("end", NoNode), FrameOf("eof", NoNode)>> \in ApiTails
        BY DEF ApiTails
      <4>3. graph'[0].at = "ended"
        BY <2>2, <3>1 DEF Moves
      <4> QED
        BY <4>1, <4>2, <4>3
    <3>2. CASE s # 0
      BY <1>2, <1>5, <3>2 DEF ModelAnswers
    <3> QED
      BY <3>1, <3>2
  <2> QED
    BY <2>1, <2>3, <2>4, EndQuiet
<1>6. ASSUME NEW n \in 0 .. MaxCalls, ModelCalls(r, n)
      PROVE  Continues(log, N, d)
  <2>1. /\ runs[r].at = "running" /\ runs[r].kind = "model" /\ End(r, "ended")
        /\ graph' = [graph EXCEPT ![s] = [at |-> "tools", calls |-> n]]
        /\ UNCHANGED <<said, openTools, started, toApi>>
    BY <1>2, <1>6 DEF ModelCalls, IsRunning
  <2>2. Moves(s, "tools")
    BY <2>1 DEF Moves, Typed, TypeOK
  <2>3. Turns(runs', graph')
    BY <1>2, <1>3, <2>1, <2>2, StreamerEnds DEF Streamers
  <2> QED
    BY <2>1, <2>3, EndQuiet
<1> QED
  BY <1>4, <1>5, <1>6

LEMMA ToolsQuietStep ==
  ASSUME Typed, NEW log, NEW N, NEW d, Agent(log, N, d)
  PROVE  /\ \A r \in DOMAIN runs : ToolRaises(r) => Continues(log, N, d)
         /\ \A s \in Scopes : ToolsAnswered(s) => Continues(log, N, d)
         /\ RunFails => Continues(log, N, d)
<1>1. ASSUME NEW r \in DOMAIN runs, ToolRaises(r)
      PROVE  Continues(log, N, d)
  <2>1. /\ Streaming /\ runs[r].at = "running" /\ runs[r].kind \in {"todo", "noplan", "search"}
        /\ End(r, "failed") /\ UNCHANGED <<graph, said, openTools, started, toApi>>
    BY <1>1 DEF ToolRaises, IsRunning
  <2>2. Turns(runs, graph)
    BY <2>1 DEF Streaming, Agent, AgentInv
  <2>3. runs[r].kind \in ToolKinds /\ runs[r].kind # "subagent"
    BY <2>1 DEF ToolKinds
  <2>4. Turns(runs', graph')
    BY <2>1, <2>2, <2>3, ToolStops
  <2> QED
    BY <2>1, <2>4, EndQuiet
<1>2. Grows(runs, runs, said, said)
  BY DEF Grows, Typed, TypeOK
<1>3. PICK L : L = N[Len(N)]
  OBVIOUS
<1>4. Latest(L, runs, said, openTools, started) /\ EndsLogged(log, runs)
  BY <1>3 DEF Agent, AgentInv
<1>5. ASSUME NEW s \in Scopes, ToolsAnswered(s)
      PROVE  Continues(log, N, d)
  <2>1. /\ Streaming /\ graph[s].at = "tools" /\ Running(s) = {} /\ Reach(s, "compact")
        /\ UNCHANGED <<runs, said, openTools, started, toApi>>
    BY <1>5 DEF ToolsAnswered
  <2>2. Turns(runs', graph')
    BY <2>1, ReachMoves, ToolsDone DEF Streaming, Agent, AgentInv
  <2> QED
    BY <1>2, <1>3, <1>4, <2>1, <2>2, QuietStep
<1>6. ASSUME RunFails
      PROVE  Continues(log, N, d)
  <2>1. Reach(0, "ended") /\ UNCHANGED <<runs, said, openTools, started>>
    BY <1>6 DEF RunFails
  <2>2. graph'[0].at = "ended"
    BY <2>1, Numbers, ReachMoves DEF Moves
  <2>3. \E t \in ApiTails : toApi' = toApi \o t
    BY <1>6 DEF RunFails, Emit, ApiTails
  <2> QED
    BY <1>2, <1>3, <1>4, <2>1, <2>2, <2>3, QuietStep
<1> QED
  BY <1>1, <1>5, <1>6

LEMMA EmitStep ==
  ASSUME Typed, NEW log, NEW N, NEW d, Agent(log, N, d),
         NEW L, NEW n, Tip(N, d, L, n),
         NEW f \in Frame, FrameOK(f), f.event \in Content,
         f.event = "delta" => Len(said') <= MaxChunks,
         said' \in Seq(NodeId), Grows(runs, runs', said, said'),
         FrameFits(f, L, n, runs', said'),
         f.event = "node" => NodeFits(f, L, n, runs', said'),
         Emit(<<f>>), Chunks(n, f) = Len(said'),
         Latest(Folds(L, f), runs', said', openTools', started'),
         EndsLogged(Append(log, f), runs'),
         graph'[0].at # "ended" => Turns(runs', graph')
  PROVE  Continues(log, N, d)
<1>1. PICK g, P, e : /\ g = Append(log, f) /\ P = Append(N, Folds(L, f))
                     /\ e = Append(d, Chunks(n, f))
  OBVIOUS
<1>2. said \in Seq(NodeId) /\ Past(log, N, d, runs, said)
  BY DEF Typed, TypeOK, Agent, AgentInv
<1>3. Past(log, N, d, runs', said')
  BY <1>2, PastKeeps
<1>4. PICK R, S : R = runs' /\ S = said'
  OBVIOUS
<1>5. Past(g, P, e, R, S) /\ Tip(P, e, Folds(L, f), Chunks(n, f))
  BY <1>1, <1>3, <1>4, PastGrows
<1>6. AgentInv(g, P, e, runs', said', graph', openTools', started')
  BY <1>1, <1>4, <1>5 DEF AgentInv, Tip
<1>7. Extends(log, N, d, g, P, e)
  BY <1>1, <1>2, PastTypes DEF Extends
<1>8. <<f>> \in Seq(Frame) /\ g = log \o <<f>>
  <2>1. log \in Seq(Frame)
    BY <1>2, PastTypes
  <2>2. f \in Frame
    OBVIOUS
  <2>3. Append(log, f) = log \o <<f>> /\ <<f>> \in Seq(Frame)
    BY ONLY <2>1, <2>2
  <2> QED
    BY ONLY <1>1, <2>3
<1>9. Wrote(log, g)
  BY <1>8 DEF Wrote, Emit
<1> QED
  BY <1>6, <1>7, <1>9 DEF Continues

\* The end of a step is in the log, and the rest as it was.
LEMMA EndStep ==
  ASSUME Typed, NEW log, NEW N, NEW d, Agent(log, N, d), NEW r \in DOMAIN runs,
         runs[r].at = "running", runs[r].kind # "model", End(r, "ended"),
         NEW f, NEW s \in Scopes,
         f = [FrameOf("node_end", <<r, PartOfEnd(runs[r].kind)>>) EXCEPT !.output = s],
         runs[r].kind = "summarizer" => s = 0 \/ (s = r /\ runs[r].scope = 0),
         Emit(<<f>>), UNCHANGED <<said, started>>, openTools' \in {openTools, openTools \ {r}},
         graph'[0].at # "ended" => Turns(runs', graph')
  PROVE  Continues(log, N, d)
<1>1. PICK part : part = PartOfEnd(runs[r].kind)
  OBVIOUS
<1>2. part \in Parts /\ (part = "compaction" => runs[r].kind = "summarizer")
  BY <1>1 DEF Parts, PartOfEnd
<1>3. PICK id \in NodeId : id = <<r, part>>
  BY <1>2, RunIs DEF NodeId
<1>4. f.event = "node_end" /\ f.id = id /\ f.output = s
  BY <1>1, <1>3 DEF FrameOf
<1>5. Frames(<<f>>)
  BY <1>1, <1>3, FrameTypes
<1>6. f \in Frame /\ FrameOK(f)
  BY <1>5, TailTypes
<1>7. said \in Seq(NodeId) /\ Past(log, N, d, runs, said) /\ d[Len(d)] = Len(said)
  BY DEF Typed, TypeOK, Agent, AgentInv
<1>8. PICK L, n : L = N[Len(N)] /\ n = d[Len(d)]
  OBVIOUS
<1>9. L \in Seq(Node) /\ n = Len(said)
  BY ONLY <1>7, <1>8, PastTypes
<1>10. Grows(runs, runs', said, said)
  BY EndGrows
<1>11. /\ DOMAIN runs' = DOMAIN runs /\ runs'[r].at = "ended"
       /\ runs'[r].kind = runs[r].kind /\ runs'[r].scope = runs[r].scope
  BY EndIs
<1>12. FrameFits(f, L, n, runs', said)
  <2>1. \A k \in DOMAIN said : k <= n
    BY <1>7, <1>9
  <2> QED
    BY <1>2, <1>3, <1>4, <1>11, <2>1 DEF FrameFits
<1>13. PICK M : M = Folds(L, f)
  OBVIOUS
<1>14. IdsOf(M) = IdsOf(L)
  <2>1. /\ M \in Seq(Node) /\ Len(M) = Len(L)
        /\ \A i \in 1 .. Len(L) : M[i].id = L[i].id /\ M[i].parent = L[i].parent
    <3>1. f \in Frame /\ f.event = "node_end" /\ L \in Seq(Node)
      BY <1>4, <1>6, <1>9
    <3>2. /\ Folds(L, f) \in Seq(Node) /\ Len(Folds(L, f)) = Len(L)
          /\ \A i \in 1 .. Len(L) :
               Folds(L, f)[i].id = L[i].id /\ Folds(L, f)[i].parent = L[i].parent
      BY ONLY <3>1, FoldsEnd
    <3> QED
      BY <1>13, <3>2
  <2> QED
    BY <1>9, <2>1, SameNodes
<1>15. PICK g : g = Append(log, f)
  OBVIOUS
<1>16. DOMAIN g = DOMAIN log \cup {Len(log) + 1} /\ g[Len(log) + 1] = f
       /\ \A q \in DOMAIN log : g[q] = log[q]
  <2>1. log \in Seq(Frame)
    BY <1>7, PastTypes
  <2>2. PICK m \in Nat : m = Len(log)
    BY <2>1
  <2>3. DOMAIN g = 1 .. m + 1 /\ DOMAIN log = 1 .. m /\ g[m + 1] = f
        /\ \A q \in 1 .. m : g[q] = log[q]
    BY ONLY <1>6, <1>15, <2>1, <2>2
  <2>4. 1 .. m + 1 = (1 .. m) \cup {m + 1}
    BY <2>2
  <2> QED
    BY <2>2, <2>3, <2>4
<1>17. EndsLogged(g, runs) /\ Latest(L, runs, said, openTools, started)
  <2>1. EndsLogged(log, runs) /\ Latest(L, runs, said, openTools, started)
    BY <1>8 DEF Agent, AgentInv
  <2>2. \A q \in DOMAIN log : q \in DOMAIN g /\ g[q] = log[q]
    BY <1>16
  <2>3. EndsLogged(g, runs)
    BY <2>1, <2>2 DEF EndsLogged
  <2> QED
    BY <2>1, <2>3
<1>18. EndsLogged(g, runs') /\ Latest(L, runs', said, openTools', started)
  <2>1. \E q \in DOMAIN g : g[q].event = "node_end" /\ g[q].id = <<r, PartOfEnd(runs[r].kind)>>
    BY <1>1, <1>3, <1>4, <1>16
  <2>2. /\ Latest(L, runs', said, openTools, started)
        /\ Latest(L, runs', said, openTools \ {r}, started)
        /\ EndsLogged(g, runs')
    BY <1>17, <2>1, EndLatest
  <2>3. CASE openTools' = openTools
    BY <2>2, <2>3
  <2>4. CASE openTools' = openTools \ {r}
    BY <2>2, <2>4
  <2> QED
    BY <2>2, <2>3, <2>4
<1>19. Latest(M, runs', said', openTools', started')
  BY <1>14, <1>18 DEF Latest
<1>20. Chunks(n, f) = Len(said')
  BY <1>4, <1>9 DEF Chunks
<1>21. Tip(N, d, L, n)
  BY <1>8 DEF Tip
<1> QED
  BY <1>4, <1>6, <1>7, <1>10, <1>12, <1>13, <1>15, <1>18, <1>19, <1>20, <1>21, EmitStep
     DEF Content

LEMMA SummarizerEndsStep ==
  ASSUME Typed, NEW log, NEW N, NEW d, Agent(log, N, d), NEW r \in DOMAIN runs,
         NEW through \in Scopes, SummarizerEnds(r, through)
  PROVE  Continues(log, N, d)
<1>1. /\ Streaming /\ runs[r].at = "running" /\ runs[r].kind = "summarizer" /\ End(r, "ended")
      /\ Reach(runs[r].scope, "agent") /\ UNCHANGED <<said, openTools, started>>
      /\ through = 0 \/ (through = r /\ runs[r].scope = 0)
      /\ Emit(<<[FrameOf("node_end", <<r, "compaction">>) EXCEPT !.output = through]>>)
  BY DEF SummarizerEnds, IsRunning
<1>2. Turns(runs, graph) /\ runs[r].scope \in Scopes
  BY <1>1, RunIs DEF Streaming, Agent, AgentInv
<1>3. Turns(runs', graph')
  BY <1>1, <1>2, ReachMoves, StreamerEnds DEF Streamers
<1>4. PartOfEnd(runs[r].kind) = "compaction"
  BY <1>1 DEF PartOfEnd
<1> QED
  BY <1>1, <1>3, <1>4, EndStep

LEMMA ToolEndsStep ==
  ASSUME Typed, NEW log, NEW N, NEW d, Agent(log, N, d), NEW r \in DOMAIN runs, ToolEnds(r)
  PROVE  Continues(log, N, d)
<1>1. /\ Streaming /\ runs[r].at = "running" /\ runs[r].kind \in ToolKinds /\ End(r, "ended")
      /\ runs[r].kind = "subagent" => graph[r].at = "ended"
      /\ openTools' = openTools \ {r} /\ UNCHANGED <<graph, said, started>>
      /\ Emit(<<[FrameOf("node_end", <<r, "tool">>) EXCEPT !.output = r]>>)
  BY DEF ToolEnds, IsRunning, ToolKinds
<1>2. Turns(runs, graph) /\ r \in Scopes
  BY <1>1, RunIs DEF Streaming, Agent, AgentInv
<1>3. Turns(runs', graph')
  BY <1>1, <1>2, ToolStops
<1>4. /\ PartOfEnd(runs[r].kind) = "tool"
      /\ runs[r].kind # "summarizer" /\ runs[r].kind # "model"
  BY <1>1 DEF PartOfEnd, ToolKinds
<1> QED
  BY <1>1, <1>2, <1>3, <1>4, EndStep

\* Where a step belongs that starts in the scope s.
LEMMA ParentIs ==
  ASSUME Typed, Turns(runs, graph), NEW s \in Scopes, graph[s].at \notin {"none", "ended"},
         NEW L, Latest(L, runs, said, openTools, started)
  PROVE  /\ Parent(s) = ParentOf(s) /\ Parent(s) \in NodeId \cup {NoNode}
         /\ s # 0 => s \in DOMAIN runs /\ runs[s].kind = "subagent" /\ <<s, "tool">> \in IdsOf(L)
<1>1. CASE s = 0
  <2>1. 0 \notin openTools
    BY RunLogAssumption DEF Typed, TypeOK, RunIds
  <2> QED
    BY <1>1, <2>1 DEF Parent, ParentOf
<1>2. CASE s # 0
  <2>1. s \in DOMAIN runs /\ runs[s].kind = "subagent" /\ runs[s].at = "running"
    BY <1>2, TurnsIs
  <2>2. s \in openTools /\ <<s, "tool">> \in started /\ started = IdsOf(L)
    BY <2>1 DEF Latest, ToolKinds
  <2>3. s \in RunIds
    BY <2>1, RunIs
  <2> QED
    BY <1>2, <2>1, <2>2, <2>3 DEF Parent, ParentOf, NodeId, Parts
<1> QED
  BY <1>1, <1>2

LEMMA ToolStartsStep ==
  ASSUME Typed, NEW log, NEW N, NEW d, Agent(log, N, d), NEW s \in Scopes,
         NEW kind \in Kinds, ToolStarts(s, kind)
  PROVE  Continues(log, N, d)
<1>1. PICK r : r = Len(runs) + 1
  OBVIOUS
<1>2. PICK f : f = [FrameOf("node", <<r, "tool">>) EXCEPT !.parent = Parent(s)]
  OBVIOUS
<1>3. /\ Streaming /\ graph[s].at = "tools" /\ graph[s].calls > 0 /\ Begin(kind, s)
      /\ openTools' = openTools \cup {r} /\ started' = started \cup {<<r, "tool">>}
      /\ UNCHANGED said /\ Emit(<<f>>)
  BY <1>1, <1>2 DEF ToolStarts
<1>4. kind \in ToolKinds
  BY DEF ToolStarts, ToolKinds
<1>5. /\ r \in RunIds /\ DOMAIN runs' = DOMAIN runs \cup {r} /\ r \notin DOMAIN runs
      /\ runs'[r] = [kind |-> kind, scope |-> s, at |-> "running"]
      /\ \A q \in DOMAIN runs : runs'[q] = runs[q]
  BY <1>1, <1>3, BeginIs
<1>6. Turns(runs, graph)
  BY <1>3 DEF Streaming, Agent, AgentInv
<1>7. PICK L, n : L = N[Len(N)] /\ n = d[Len(d)]
  OBVIOUS
<1>8. /\ said \in Seq(NodeId) /\ Past(log, N, d, runs, said) /\ n = Len(said)
      /\ Latest(L, runs, said, openTools, started) /\ EndsLogged(log, runs)
  BY <1>7 DEF Typed, TypeOK, Agent, AgentInv
<1>9. L \in Seq(Node) /\ ListOK(L, n, runs, said)
  <2>1. Past(log, N, d, runs, said)
    BY <1>8
  <2>2. N[Len(N)] \in Seq(Node) /\ ListOK(N[Len(N)], d[Len(d)], runs, said)
    BY ONLY <2>1, PastTypes
  <2> QED
    BY ONLY <1>7, <2>2
<1>10. /\ Parent(s) = ParentOf(s) /\ Parent(s) \in NodeId \cup {NoNode}
       /\ s # 0 => s \in DOMAIN runs /\ runs[s].kind = "subagent" /\ <<s, "tool">> \in IdsOf(L)
  BY <1>3, <1>6, <1>8, ParentIs
<1>11. PICK id \in NodeId : id = <<r, "tool">>
  BY <1>5 DEF NodeId, Parts
<1>12. f \in Frame /\ FrameOK(f)
  <2>1. Frames(<<f>>)
    BY <1>2, <1>10, <1>11, FrameTypes
  <2> QED
    BY <2>1, TailTypes
<1>13. f.event = "node" /\ f.id = id /\ f.parent = ParentOf(s)
  BY <1>2, <1>10, <1>11 DEF FrameOf
<1>14. Grows(runs, runs', said, said')
  BY <1>3, BeginGrows
<1>15. /\ \A i \in DOMAIN L : L[i].id[1] \in DOMAIN runs
       /\ \A q \in DOMAIN runs : q < r
  BY <1>1, <1>9 DEF ListOK, NodesOK, Typed, TypeOK
<1>16. id \notin IdsOf(L)
  <2>1. id[1] = r
    BY <1>11
  <2> QED
    BY <1>5, <1>15, <2>1 DEF IdsOf
<1>17. NodeFits(f, L, n, runs', said')
  <2>1. \A k \in 1 .. n : said'[k] # id
    BY <1>3, <1>8, <1>16 DEF Latest
  <2>2. id[1] = r /\ id[2] = "tool"
    BY <1>11
  <2>3. \A i \in Tools(L) : L[i].id[1] < r
    BY <1>15 DEF Tools
  <2> QED
    BY <1>4, <1>5, <1>10, <1>13, <1>16, <2>1, <2>2, <2>3 DEF NodeFits
<1>18. FrameFits(f, L, n, runs', said')
  BY <1>13 DEF FrameFits
<1>19. PICK M : M = Folds(L, f)
  OBVIOUS
<1>20. IdsOf(M) = IdsOf(L) \cup {id}
  <2>1. Past(log, N, d, runs', said')
    BY <1>3, <1>8, <1>14, PastKeeps
  <2>2. ListOK(L, n, runs', said')
    BY <1>7, <2>1, PastTypes
  <2>3. n \in Nat
    BY <1>8
  <2>4. PICK R, S : R = runs' /\ S = said'
    OBVIOUS
  <2> QED
    BY <1>9, <1>12, <1>13, <1>17, <1>19, <2>2, <2>3, <2>4, ListNode
<1>21. Latest(M, runs', said', openTools', started')
  <2>1. started' = IdsOf(M) /\ \A k \in DOMAIN said' : said'[k] \in started'
    BY <1>3, <1>8, <1>11, <1>20 DEF Latest
  <2>2. ASSUME NEW q \in DOMAIN runs', runs'[q].kind \in ToolKinds
        PROVE  <<q, "tool">> \in started' /\ (runs'[q].at = "running" => q \in openTools')
    BY <1>3, <1>5, <1>8, <2>2 DEF Latest
  <2>3. ASSUME NEW q \in DOMAIN runs', runs'[q].scope # 0
        PROVE  runs'[q].scope \in DOMAIN runs' /\ runs'[runs'[q].scope].kind = "subagent"
    BY <1>5, <1>8, <1>10, <2>3 DEF Latest
  <2> QED
    BY <2>1, <2>2, <2>3 DEF Latest
<1>22. EndsLogged(Append(log, f), runs')
  <2>1. log \in Seq(Frame)
    BY <1>8, PastTypes
  <2>2. PICK g : g = Append(log, f)
    OBVIOUS
  <2>3. \A q \in DOMAIN log : q \in DOMAIN g /\ g[q] = log[q]
    BY <1>12, <2>1, <2>2
  <2>4. \A q \in DOMAIN runs' : runs'[q].at = "ended" => q \in DOMAIN runs /\ runs'[q] = runs[q]
    BY <1>5
  <2>5. EndsLogged(g, runs')
    BY <1>8, <2>3, <2>4 DEF EndsLogged
  <2> QED
    BY <2>2, <2>5
<1>23. Turns(runs', graph')
  <2>1. graph' = [t \in Scopes |->
            CASE t = s -> [graph[s] EXCEPT !.calls = @ - 1]
              [] t = r /\ kind = "subagent" -> [at |-> "compact", calls |-> 0]
              [] OTHER -> graph[t]]
    BY <1>1 DEF ToolStarts
  <2>2. graph'[s].at = "tools"
    <3>1. graph[s] \in Graph
      BY DEF Typed, TypeOK
    <3>3. r # s
      BY <1>1, <1>5, <1>10 DEF Typed, TypeOK
    <3>2. graph'[s] = [graph[s] EXCEPT !.calls = @ - 1]
      BY <2>1, <3>3
    <3> QED
      BY <1>3, <3>1, <3>2 DEF Graph
  <2>3. r \in Scopes
    BY <1>5, Numbers
  <2>4. r # s => graph'[r].at = (IF kind = "subagent" THEN "compact" ELSE graph[r].at)
    BY <2>1, <2>3
  <2>5. \A t \in Scopes : t # s /\ t # r => graph'[t] = graph[t]
    BY <2>1
  <2>6. \A q \in DOMAIN runs : runs[q].scope # 0 => runs[q].scope \in DOMAIN runs
    BY <1>8 DEF Latest
  <2> QED
    BY <1>1, <1>3, <1>4, <1>6, <2>2, <2>4, <2>5, <2>6, ToolBegins
<1>24. Chunks(n, f) = Len(said')
  BY <1>3, <1>8, <1>13 DEF Chunks
<1>25. Tip(N, d, L, n)
  BY <1>7 DEF Tip
<1> QED
  BY <1>3, <1>8, <1>12, <1>13, <1>14, <1>17, <1>18, <1>19, <1>21, <1>22, <1>23, <1>24, <1>25,
     EmitStep DEF Content

\* No answer is of a run after the one that streams.
LEMMA AnswersBefore ==
  ASSUME Typed, Turns(runs, graph), NEW r \in DOMAIN runs, runs[r].at = "running",
         runs[r].kind \in Streamers, runs[r].scope = 0,
         NEW L \in Seq(Node), NodesOK(L, runs)
  PROVE  \A i \in Answers(L) : L[i].id[1] <= r /\ L[i].id = <<L[i].id[1], "text">>
<1>1. ASSUME NEW i \in Answers(L)
      PROVE  L[i].id[1] <= r /\ L[i].id = <<L[i].id[1], "text">>
  <2>1. i \in DOMAIN L /\ L[i].id[2] = "text" /\ L[i].parent = NoNode
    BY DEF Answers
  <2>2. PICK q : q = L[i].id[1]
    OBVIOUS
  <2>3. q \in DOMAIN runs /\ ParentOf(runs[q].scope) = NoNode
    BY <2>1, <2>2 DEF NodesOK
  <2>4. runs[q].scope = 0
    BY <2>3 DEF ParentOf, NoNode
  <2>5. q <= r
    BY <2>3, <2>4, TurnsIs
  <2>6. L[i].id \in NodeId
    <3>1. L[i] \in Node
      BY <2>1
    <3> QED
      BY <3>1 DEF Node
  <2> QED
    BY <2>1, <2>2, <2>5, <2>6 DEF NodeId
<1> QED
  BY <1>1

IsPart(id, r, part) == id = <<r, part>> /\ id \in NodeId
Chunk(S, id)        == S = Append(said, id)
Announces(f, id, s) == f = [FrameOf("node", id) EXCEPT !.parent = Parent(s)]
Carries(f, id)      == f = [FrameOf("delta", id) EXCEPT !.text = <<Len(said) + 1>>]

LEMMA ChunkGrows ==
  ASSUME Typed, NEW r \in DOMAIN runs, runs[r].at = "running", NEW part, NEW id,
         IsPart(id, r, part), NEW S, Chunk(S, id)
  PROVE  /\ Grows(runs, runs, said, S) /\ S \in Seq(NodeId) /\ Len(S) = Len(said) + 1
         /\ S[Len(said) + 1] = id /\ \A k \in 1 .. Len(said) : S[k] = said[k]
         /\ DOMAIN S = 1 .. Len(said) + 1 /\ Len(said) \in Nat /\ DOMAIN said = 1 .. Len(said)
<1> USE DEF IsPart, Chunk
<1>1. said \in Seq(NodeId)
  BY DEF Typed, TypeOK
<1>2. PICK n \in Nat : n = Len(said)
  BY <1>1
<1>3. /\ S \in Seq(NodeId) /\ Len(S) = n + 1 /\ S[n + 1] = id /\ \A k \in 1 .. n : S[k] = said[k]
      /\ DOMAIN S = 1 .. n + 1 /\ DOMAIN said = 1 .. n
  BY <1>1, <1>2
<1>4. \A k \in 1 .. n + 1 : k \in 1 .. n \/ k = n + 1
  BY <1>2
<1>5. Grows(runs, runs, said, S)
  BY <1>2, <1>3, <1>4 DEF Grows
<1> QED
  BY <1>2, <1>3, <1>5

\* The first chunk of a node announces it.
LEMMA AnnounceFits ==
  ASSUME Typed, NEW log, NEW N, NEW d, Agent(log, N, d), Turns(runs, graph),
         NEW r \in DOMAIN runs, runs[r].at = "running", NEW part \in PartsOf(r),
         runs[r].kind \in Streamers, NEW id, IsPart(id, r, part), id \notin started,
         NEW S, Chunk(S, id), NEW L, NEW n, Tip(N, d, L, n),
         NEW f, Announces(f, id, runs[r].scope)
  PROVE  /\ f \in Frame /\ FrameOK(f) /\ f.event = "node" /\ f.id = id
         /\ NodeFits(f, L, n, runs, S) /\ FrameFits(f, L, n, runs, S)
<1> USE DEF IsPart, Announces, Tip
<1>1. PICK s \in Scopes : s = runs[r].scope
  BY RunIs
<1>2. graph[s].at \in {"summary", "model"}
  BY <1>1, TurnsIs DEF StateOf, Streamers
<1>3. /\ said \in Seq(NodeId) /\ Past(log, N, d, runs, said) /\ n = Len(said)
      /\ Latest(L, runs, said, openTools, started)
  BY DEF Typed, TypeOK, Agent, AgentInv
<1>4. L \in Seq(Node) /\ ListOK(L, n, runs, said)
  <2>1. N[Len(N)] \in Seq(Node) /\ ListOK(N[Len(N)], d[Len(d)], runs, said)
    BY <1>3, PastTypes
  <2> QED
    BY <2>1
<1>5. /\ Parent(s) = ParentOf(s) /\ Parent(s) \in NodeId \cup {NoNode}
      /\ s # 0 => <<s, "tool">> \in IdsOf(L)
  BY <1>2, <1>3, ParentIs
<1>6. f \in Frame /\ FrameOK(f)
  <2>1. Frames(<<f>>)
    BY <1>1, <1>5, FrameTypes
  <2> QED
    BY ONLY <2>1, OneFrame
<1>7. f.event = "node" /\ f.id = id /\ f.parent = ParentOf(s)
  BY <1>1, <1>5 DEF FrameOf
<1>8. id[1] = r /\ id[2] = part /\ part # "tool" /\ (part = "compaction" => runs[r].kind = "summarizer")
  BY DEF PartsOf
<1>9. id \notin IdsOf(L)
  BY <1>3 DEF Latest
<1>10. \A k \in 1 .. n : S[k] # id
  <2>1. \A k \in 1 .. n : S[k] = said[k] /\ k \in DOMAIN said
    BY <1>3, <1>8, ChunkGrows
  <2> QED
    BY <1>3, <2>1 DEF Latest
<1>11. ASSUME part = "text", ParentOf(s) = NoNode
       PROVE  \A i \in Answers(L) : L[i].id[1] < r
  <2>1. s = 0
    BY <1>11 DEF ParentOf, NoNode
  <2>2. \A i \in Answers(L) : L[i].id[1] <= r /\ L[i].id = <<L[i].id[1], "text">>
    BY <1>1, <1>4, <2>1, AnswersBefore DEF ListOK
  <2>3. ASSUME NEW i \in Answers(L) PROVE L[i].id[1] # r /\ L[i].id[1] \in Nat /\ r \in Nat
    <3>1. i \in DOMAIN L
      BY DEF Answers
    <3>4. L[i] \in Node
      BY <1>4, <3>1
    <3>2. L[i].id # id /\ L[i].id \in NodeId
      BY <1>9, <3>1, <3>4 DEF IdsOf, Node
    <3>3. L[i].id[1] \in Nat /\ r \in Nat
      BY <3>2, RunIs, Numbers DEF NodeId
    <3> QED
      BY <1>11, <2>2, <3>2, <3>3
  <2> QED
    BY <2>2, <2>3
<1>12. NodeFits(f, L, n, runs, S)
  BY <1>1, <1>5, <1>7, <1>8, <1>9, <1>10, <1>11 DEF NodeFits
<1> QED
  BY <1>6, <1>7, <1>12 DEF FrameFits

\* A chunk is for the last answer.
LEMMA ChunkFits ==
  ASSUME Typed, Turns(runs, graph), NEW r \in DOMAIN runs, runs[r].at = "running",
         NEW part \in Parts, runs[r].kind \in Streamers,
         NEW id, IsPart(id, r, part), Len(said) < MaxChunks,
         NEW S, Chunk(S, id), NEW L \in Seq(Node), id \in IdsOf(L),
         ListOK(L, Len(said), runs, S),
         NEW f, Carries(f, id)
  PROVE  /\ f \in Frame /\ FrameOK(f) /\ f.event = "delta" /\ f.id = id
         /\ FrameFits(f, L, Len(said), runs, S)
<1> USE DEF IsPart, Carries
<1>1. PICK n \in Nat : n = Len(said)
  <2>1. Len(said) \in Nat
    BY ChunkGrows
  <2> QED
    BY ONLY <2>1
<1>2. f \in Frame /\ FrameOK(f)
  <2>1. n + 1 \in 1 .. MaxChunks
    BY <1>1, RunLogAssumption
  <2>2. Frames(<<f>>)
    BY <1>1, <2>1, FrameTypes
  <2> QED
    BY ONLY <2>2, OneFrame
<1>3. f.event = "delta" /\ f.id = id /\ f.text = <<n + 1>>
  BY <1>1 DEF FrameOf
<1>4. Len(S) = n + 1 /\ S[n + 1] = id /\ n + 1 <= Len(S)
  BY <1>1, ChunkGrows
<1>5. ASSUME NEW i \in Answers(L), NEW j \in Answers(L), L[i].id = id
      PROVE  j <= i
  <2>1. i \in DOMAIN L /\ j \in DOMAIN L /\ L[i].parent = NoNode /\ id[1] = r
    BY DEF Answers
  <2>2. ParentOf(runs[r].scope) = NoNode
    BY <1>5, <2>1 DEF ListOK, NodesOK
  <2>3. runs[r].scope = 0
    BY <2>2 DEF ParentOf, NoNode
  <2>4. L[j].id[1] <= r
    BY <2>3, AnswersBefore DEF ListOK
  <2>5. i < j => r < L[j].id[1]
    BY <1>5, <2>1 DEF ListOK, OrderOK
  <2>6. L[j].id[1] \in Nat /\ r \in Nat
    <3>1. L[j] \in Node
      BY <2>1
    <3>2. L[j].id \in NodeId
      BY <3>1 DEF Node
    <3> QED
      BY <3>2, RunIs, Numbers DEF NodeId
  <2>7. i \in Nat /\ j \in Nat
    BY <2>1
  <2> QED
    BY <2>4, <2>5, <2>6, <2>7
<1> QED
  BY <1>1, <1>2, <1>3, <1>4, <1>5 DEF FrameFits

LEMMA Joined2 ==
  ASSUME NEW e, NEW f
  PROVE  <<e>> \o <<f>> = <<e, f>>
<1>1. <<e>> \in Seq({e, f}) /\ <<f>> \in Seq({e, f}) /\ <<e, f>> \in Seq({e, f})
  OBVIOUS
<1>2. PICK q : q = <<e>> \o <<f>>
  OBVIOUS
<1>3. q \in Seq({e, f}) /\ Len(q) = 2 /\ q[1] = e /\ q[2] = f
  BY <1>1, <1>2
<1>4. q = <<q[1], q[2]>>
  BY <1>3
<1> QED
  BY <1>2, <1>3, <1>4

LEMMA StreamsStep ==
  ASSUME Typed, NEW log, NEW N, NEW d, Agent(log, N, d), NEW r \in DOMAIN runs,
         NEW part \in Parts, Streams(r, part)
  PROVE  Continues(log, N, d)
<1>1. PICK id : id = <<r, part>>
  OBVIOUS
<1>2. id \in NodeId /\ IsPart(id, r, part)
  BY <1>1, RunIs DEF NodeId, IsPart
<1>3. /\ Streaming /\ Len(said) < MaxChunks
      /\ runs[r].at = "running" /\ runs[r].kind \in Streamers /\ part \in PartsOf(r)
      /\ Emit(TextFrames(id, runs[r].scope))
      /\ started' = started \cup {id} /\ said' = Append(said, id)
      /\ UNCHANGED <<runs, graph, openTools>>
  BY <1>1 DEF Streams, IsRunning, Streamers
<1>4. PICK S : S = said'
  OBVIOUS
<1>5. PICK f : Carries(f, id)
  BY DEF Carries
<1>6. /\ Grows(runs, runs, said, S) /\ S \in Seq(NodeId) /\ Len(S) = Len(said) + 1
      /\ S[Len(said) + 1] = id /\ \A k \in 1 .. Len(said) : S[k] = said[k]
      /\ DOMAIN S = 1 .. Len(said) + 1 /\ Len(said) \in Nat /\ DOMAIN said = 1 .. Len(said)
  <2>1. Chunk(S, id) /\ runs[r].at = "running"
    BY <1>3, <1>4 DEF Chunk
  <2> QED
    BY <1>2, <2>1, ChunkGrows
<1>7. Turns(runs, graph)
  BY <1>3 DEF Streaming, Agent, AgentInv
<1>8. PICK L, n : L = N[Len(N)] /\ n = d[Len(d)] /\ Tip(N, d, L, n)
  BY DEF Tip
<1>9. /\ said \in Seq(NodeId) /\ Past(log, N, d, runs, said) /\ n = Len(said)
      /\ Latest(L, runs, said, openTools, started) /\ EndsLogged(log, runs)
  BY <1>8 DEF Typed, TypeOK, Agent, AgentInv
<1>10. Past(log, N, d, runs, S)
  BY <1>6, <1>9, PastKeeps
<1>11. L \in Seq(Node) /\ ListOK(L, n, runs, S) /\ IdsOf(L) = started
  <2>1. N[Len(N)] \in Seq(Node) /\ ListOK(N[Len(N)], d[Len(d)], runs, S)
    BY <1>10, PastTypes
  <2> QED
    BY <1>8, <1>9, <2>1 DEF Latest
<1>12. Len(S) <= MaxChunks /\ Chunk(S, id)
  BY <1>3, <1>4, <1>6, RunLogAssumption DEF Chunk
<1>13. ASSUME NEW M, IdsOf(M) = started \cup {id}
       PROVE  Latest(M, runs, S, openTools, started')
  <2>1. started' = IdsOf(M) /\ \A k \in DOMAIN S : S[k] \in started'
    <3>1. \A k \in DOMAIN S : k \in 1 .. Len(said) \/ k = Len(said) + 1
      BY <1>6
    <3> QED
      BY <1>3, <1>6, <1>9, <1>13, <3>1 DEF Latest
  <2> QED
    BY <1>3, <1>9, <2>1 DEF Latest
<1>14. ASSUME NEW g \in Seq(Frame), \A q \in DOMAIN log : q \in DOMAIN g /\ g[q] = log[q]
       PROVE  EndsLogged(g, runs)
  BY <1>9, <1>14 DEF EndsLogged
<1>15. log \in Seq(Frame) /\ toApi \in Seq(Frame)
  BY <1>9, PastTypes DEF Typed, TypeOK
<1>16. CASE id \in started
  <2>1. f \in Frame /\ FrameOK(f) /\ f.event = "delta" /\ f.id = id /\ FrameFits(f, L, n, runs, S)
    <3>1. /\ runs[r].at = "running" /\ runs[r].kind \in Streamers /\ Len(said) < MaxChunks
          /\ L \in Seq(Node) /\ id \in IdsOf(L)
          /\ ListOK(L, Len(said), runs, S)
      BY <1>3, <1>9, <1>11, <1>16
    <3>2. /\ f \in Frame /\ FrameOK(f) /\ f.event = "delta" /\ f.id = id
          /\ FrameFits(f, L, Len(said), runs, S)
      BY <1>2, <1>5, <1>7, <1>12, <3>1, ChunkFits
    <3> QED
      BY <1>9, <3>2
  <2>2. Emit(<<f>>)
    <3>1. TextFrames(id, runs[r].scope) = <<>> \o <<f>>
      BY <1>5, <1>16 DEF TextFrames, Carries
    <3>2. <<>> \o <<f>> = <<f>>
      BY <2>1
    <3> QED
      BY <1>3, <3>1, <3>2
  <2>3. IdsOf(Folds(L, f)) = started \cup {id}
    <3>1. n \in Nat /\ Len(S) \in Nat
      BY <1>6, <1>9
    <3>2. IdsOf(Folds(L, f)) = IdsOf(L)
      BY <1>11, <1>12, <2>1, <3>1, ListText
    <3> QED
      BY <1>11, <1>16, <3>2
  <2>4. EndsLogged(Append(log, f), runs)
    <3>1. Append(log, f) \in Seq(Frame)
          /\ \A q \in DOMAIN log : q \in DOMAIN Append(log, f) /\ Append(log, f)[q] = log[q]
      BY <1>15, <2>1
    <3> QED
      BY <1>14, <3>1
  <2>5. Latest(Folds(L, f), runs, S, openTools, started')
    BY <1>13, <2>3
  <2>6. Chunks(n, f) = Len(S)
    BY <1>6, <1>9, <2>1 DEF Chunks
  <2>7. said' \in Seq(NodeId) /\ runs' = runs /\ openTools' = openTools /\ graph' = graph
    BY <1>3, <1>4, <1>6
  <2> QED
    BY <1>4, <1>6, <1>7, <1>8, <1>12, <2>1, <2>2, <2>4, <2>5, <2>6, <2>7, EmitStep DEF Content
<1>17. CASE id \notin started
  <2>1. PICK e : Announces(e, id, runs[r].scope)
    BY DEF Announces
  <2>2. /\ e \in Frame /\ FrameOK(e) /\ e.event = "node" /\ e.id = id
        /\ NodeFits(e, L, n, runs, S) /\ FrameFits(e, L, n, runs, S)
    <3>1. runs[r].at = "running" /\ runs[r].kind \in Streamers /\ part \in PartsOf(r)
      BY <1>3
    <3> QED
      BY <1>2, <1>7, <1>8, <1>12, <1>17, <2>1, <3>1, AnnounceFits
  <2>3. PICK g, P, c, M : /\ g = Append(log, e) /\ P = Append(N, Folds(L, e))
                          /\ c = Append(d, Chunks(n, e)) /\ M = Folds(L, e)
    OBVIOUS
  <2>4. Chunks(n, e) = n
    BY <2>2 DEF Chunks
  <2>5. /\ Past(g, P, c, runs, S) /\ Tip(P, c, M, n)
        /\ IdsOf(M) = started \cup {id}
    <3>1. /\ e.event \in Content /\ S \in Seq(NodeId) /\ (e.event = "delta" => Len(S) <= MaxChunks)
          /\ (e.event = "node" => NodeFits(e, L, n, runs, S))
      BY <1>6, <2>2 DEF Content
    <3>2. /\ Past(Append(log, e), Append(N, Folds(L, e)), Append(d, Chunks(n, e)), runs, S)
          /\ IdsOf(Folds(L, e)) = IF e.event = "node" THEN IdsOf(L) \cup {e.id} ELSE IdsOf(L)
          /\ Tip(Append(N, Folds(L, e)), Append(d, Chunks(n, e)), Folds(L, e), Chunks(n, e))
      BY <1>8, <1>10, <2>2, <3>1, PastGrows
    <3> QED
      BY <1>11, <2>2, <2>3, <2>4, <3>2
  <2>6. M \in Seq(Node) /\ ListOK(M, n, runs, S)
    <3>1. P[Len(P)] \in Seq(Node) /\ ListOK(P[Len(P)], c[Len(c)], runs, S)
      BY <2>5, PastTypes
    <3> QED
      BY <2>5, <3>1 DEF Tip
  <2>7. f \in Frame /\ FrameOK(f) /\ f.event = "delta" /\ f.id = id /\ FrameFits(f, M, n, runs, S)
    <3>1. id \in IdsOf(M)
      BY <2>5
    <3>2. /\ runs[r].at = "running" /\ runs[r].kind \in Streamers /\ Len(said) < MaxChunks
          /\ ListOK(M, Len(said), runs, S) /\ M \in Seq(Node)
      BY <1>3, <1>9, <2>6
    <3>3. /\ f \in Frame /\ FrameOK(f) /\ f.event = "delta" /\ f.id = id
          /\ FrameFits(f, M, Len(said), runs, S)
      BY <1>2, <1>5, <1>7, <1>12, <3>1, <3>2, ChunkFits
    <3> QED
      BY <1>9, <3>3
  <2>8. PICK h, Q, b : /\ h = Append(g, f) /\ Q = Append(P, Folds(M, f))
                       /\ b = Append(c, Chunks(n, f))
    OBVIOUS
  <2>9. Chunks(n, f) = Len(S)
    BY <1>6, <1>9, <2>7 DEF Chunks
  <2>10. /\ Past(h, Q, b, runs, S) /\ Tip(Q, b, Folds(M, f), Len(S))
         /\ IdsOf(Folds(M, f)) = started \cup {id}
    <3>1. /\ f.event \in Content /\ S \in Seq(NodeId) /\ (f.event = "delta" => Len(S) <= MaxChunks)
          /\ (f.event = "node" => NodeFits(f, M, n, runs, S))
      BY <1>6, <1>12, <2>5, <2>7 DEF Content
    <3>2. /\ Past(Append(g, f), Append(P, Folds(M, f)), Append(c, Chunks(n, f)), runs, S)
          /\ IdsOf(Folds(M, f)) = IF f.event = "node" THEN IdsOf(M) \cup {f.id} ELSE IdsOf(M)
          /\ Tip(Append(P, Folds(M, f)), Append(c, Chunks(n, f)), Folds(M, f), Chunks(n, f))
      BY <2>5, <2>7, <3>1, PastGrows
    <3> QED
      BY <2>5, <2>7, <2>8, <2>9, <3>2
  <2>11. /\ g \in Seq(Frame) /\ h \in Seq(Frame) /\ <<e, f>> \in Seq(Frame)
         /\ h = log \o <<e, f>> /\ Len(log) <= Len(h)
         /\ \A q \in DOMAIN log : q \in DOMAIN h /\ h[q] = log[q]
    <3>1. PICK m \in Nat : m = Len(log)
      BY <1>15
    <3>2. g \in Seq(Frame) /\ h \in Seq(Frame) /\ <<e, f>> \in Seq(Frame)
      BY <1>15, <2>2, <2>3, <2>7, <2>8
    <3>3. Len(h) = m + 2 /\ DOMAIN h = 1 .. m + 2 /\ h[m + 1] = e /\ h[m + 2] = f
          /\ \A q \in 1 .. m : h[q] = log[q]
      <4>1. Len(g) = m + 1 /\ g[m + 1] = e /\ \A q \in 1 .. m : g[q] = log[q]
        BY <1>15, <2>2, <2>3, <3>1
      <4>2. /\ Len(h) = m + 2 /\ DOMAIN h = 1 .. m + 2 /\ h[m + 2] = f
            /\ \A q \in 1 .. m + 1 : h[q] = g[q]
        BY <2>7, <2>8, <3>1, <3>2, <4>1
      <4> QED
        BY <3>1, <4>1, <4>2
    <3>4. PICK k : k = log \o <<e, f>>
      OBVIOUS
    <3>5. /\ k \in Seq(Frame) /\ Len(k) = m + 2 /\ DOMAIN k = 1 .. m + 2
          /\ k[m + 1] = e /\ k[m + 2] = f /\ \A q \in 1 .. m : k[q] = log[q]
      BY <1>15, <2>2, <2>7, <3>1, <3>4
    <3>6. h = k
      <4>1. \A q \in 1 .. m + 2 : q \in 1 .. m \/ q = m + 1 \/ q = m + 2
        BY <3>1
      <4> QED
        BY <3>2, <3>3, <3>5, <4>1
    <3> QED
      BY <1>15, <3>1, <3>2, <3>3, <3>4, <3>6
  <2>12. \A p \in DOMAIN N : Q[p] = N[p] /\ b[p] = d[p]
    <3>1. /\ N \in Seq(Seq(Node)) /\ d \in Seq(Nat) /\ DOMAIN N = DOMAIN d
      BY <1>9, PastTypes
    <3>2. P \in Seq(Seq(Node)) /\ c \in Seq(Nat) /\ DOMAIN P = DOMAIN c
      BY <2>5, PastTypes
    <3>3. \A p \in DOMAIN N : p \in DOMAIN P /\ P[p] = N[p] /\ c[p] = d[p]
      BY <2>3, <3>1
    <3>4. \A p \in DOMAIN P : Q[p] = P[p] /\ b[p] = c[p]
      BY <2>8, <3>2
    <3> QED
      BY <3>3, <3>4
  <2>13. Extends(log, N, d, h, Q, b)
    BY <2>11, <2>12 DEF Extends
  <2>14. toApi' = toApi \o <<e, f>>
    <3>1. TextFrames(id, runs[r].scope) = <<e>> \o <<f>>
      BY <1>5, <1>17, <2>1 DEF TextFrames, Carries, Announces
    <3>2. <<e>> \o <<f>> = <<e, f>>
      BY Joined2
    <3> QED
      BY <1>3, <3>1, <3>2 DEF Emit
  <2>15. Wrote(log, h)
    BY <2>11, <2>14 DEF Wrote
  <2>16. EndsLogged(h, runs)
    BY <1>14, <2>11
  <2>17. Latest(Q[Len(Q)], runs, S, openTools, started')
    BY <1>13, <2>10 DEF Tip
  <2>18. AgentInv(h, Q, b, runs, S, graph, openTools, started')
    BY <1>7, <2>10, <2>16, <2>17 DEF AgentInv, Tip
  <2>19. AgentInv(h, Q, b, runs', said', graph', openTools', started')
    BY <1>3, <1>4, <2>18
  <2>20. Grows(runs, runs', said, said')
    BY <1>3, <1>4, <1>6
  <2> QED
    BY <2>13, <2>15, <2>19, <2>20 DEF Continues
<1> QED
  BY <1>16, <1>17

\* The log after a step of the agent.
LEMMA AgentContinues ==
  ASSUME Typed, NEW log, NEW N, NEW d, Agent(log, N, d), AgentStep
  PROVE  Continues(log, N, d)
BY StreamerBeginsStep, ToolStartsStep, StreamsStep, SummarizerEndsStep, StreamerEndsStep,
   ToolEndsStep, ToolsQuietStep DEF AgentStep

-----------------------------------------------------------------------------
(* The reply and the summary that the api makes of the log. *)

LEMMA ReplyNode ==
  ASSUME NEW L \in Seq(Node), NEW f \in Frame, FrameOK(f), f.event = "node",
         NEW text, NEW n, NEW R, NEW S, ReplyOK(text, L, n, R, S)
  PROVE  ReplyOK(text, Folds(L, f), n, R, S)
<1>1. PICK M : M = Folds(L, f)
  OBVIOUS
<1>2. /\ M \in Seq(Node) /\ Len(M) = Len(L) + 1 /\ M[Len(L) + 1] = NewNode(f)
      /\ \A i \in 1 .. Len(L) : M[i] = L[i]
  BY <1>1, FoldsNode
<1>3. Len(L) \in Nat /\ Len(L) <= Len(M)
  BY <1>2
<1>4. \A i \in Len(L) + 1 .. Len(M) : M[i].text = <<>>
  <2>1. \A i \in Len(L) + 1 .. Len(M) : i = Len(L) + 1
    BY <1>2, <1>3
  <2> QED
    BY <1>2, <2>1 DEF NewNode
<1>5. AnswerText(M) = AnswerText(L)
  BY <1>2, <1>3, <1>4, AnswerSame
<1> QED
  BY <1>1, <1>5 DEF ReplyOK

LEMMA ReplyEnd ==
  ASSUME NEW L \in Seq(Node), NEW f \in Frame, FrameOK(f), f.event = "node_end",
         NEW text, NEW n, NEW R, NEW S, ReplyOK(text, L, n, R, S)
  PROVE  ReplyOK(text, Folds(L, f), n, R, S)
<1>1. PICK M : M = Folds(L, f)
  OBVIOUS
<1>2. /\ M \in Seq(Node) /\ Len(M) = Len(L)
      /\ \A i \in 1 .. Len(L) : /\ M[i].id = L[i].id /\ M[i].parent = L[i].parent
                                /\ M[i].text = L[i].text
  BY <1>1, FoldsEnd
<1>3. Len(L) <= Len(M) /\ \A i \in Len(L) + 1 .. Len(M) : M[i].text = <<>>
  <2>1. Len(L) \in Nat
    OBVIOUS
  <2> QED
    BY <1>2, <2>1
<1>4. AnswerText(M) = AnswerText(L)
  BY <1>2, <1>3, AnswerSame
<1> QED
  BY <1>1, <1>4 DEF ReplyOK

IsAnswerOf(f, L) ==
  f.id[2] = "text" /\ \E i \in Find(L, f.id) : L[i].parent = NoNode

LEMMA ReplyText ==
  ASSUME NEW L \in Seq(Node), NEW f \in Frame, FrameOK(f), f.event = "delta",
         NEW n \in Nat, NEW R, NEW S,
         ListOK(L, n, R, S), FrameFits(f, L, n, R, S),
         NEW text \in Text, ReplyOK(text, L, n, R, S)
  PROVE  ReplyOK(IF IsAnswerOf(f, L) THEN text \o f.text ELSE text, Folds(L, f), n + 1, R, S)
<1>1. PICK M, l : M = Folds(L, f) /\ l = Len(L)
  OBVIOUS
<1>2. /\ M \in Seq(Node) /\ l \in Nat /\ Len(M) = l /\ DOMAIN L = 1 .. l
      /\ \A i \in 1 .. l :
           /\ M[i].id = L[i].id /\ M[i].parent = L[i].parent
           /\ M[i].text = IF L[i].id = f.id THEN L[i].text \o f.text ELSE L[i].text
  BY <1>1, FoldsText
<1>3. /\ n + 1 <= Len(S) /\ f.text = <<n + 1>> /\ S[n + 1] = f.id /\ f.id \in IdsOf(L)
      /\ \A i, j \in Answers(L) : L[i].id = f.id => j <= i
  BY DEF FrameFits
<1>4. PICK j \in 1 .. l : L[j].id = f.id
  BY <1>2, <1>3 DEF IdsOf
<1>5. \A i \in 1 .. l : L[i].id = f.id => i = j
  <2>1. \A i, k \in DOMAIN L : L[i].id = L[k].id => i = k
    BY DEF ListOK, NodesOK
  <2> QED
    BY <1>2, <1>4, <2>1
<1>6. L[j].parent = ParentOf(R[f.id[1]].scope)
  BY <1>2, <1>4 DEF ListOK, NodesOK
<1>7. (L[j].parent = NoNode) <=> (R[f.id[1]].scope = 0)
  BY <1>6 DEF ParentOf, NoNode
<1>8. IsAnswerOf(f, L) <=> j \in Answers(L)
  BY <1>2, <1>4, <1>5 DEF IsAnswerOf, Find, Answers
<1>9. IsAnswerOf(f, L) <=> f.id[2] = "text" /\ R[f.id[1]].scope = 0
  BY <1>2, <1>4, <1>7, <1>8 DEF Answers
<1>10. PICK C : C = Read(n, S, R)
  OBVIOUS
<1>11. InOrder(text, C) /\ AnswerText(L) = text /\ C \in SUBSET (1 .. n)
  BY <1>10 DEF ReplyOK, Read
<1>12. \A k \in 1 .. n + 1 : k \in 1 .. n \/ k = n + 1
  OBVIOUS
<1>13. n + 1 \in 1 .. MaxChunks /\ n + 1 \in 1 .. n + 1
  <2>1. <<n + 1>> \in Seq(1 .. MaxChunks)
    BY <1>3 DEF Frame, Text
  <2> QED
    BY <2>1
<1>14. CASE IsAnswerOf(f, L)
  <2>1. Read(n + 1, S, R) = C \cup {n + 1}
    BY <1>3, <1>9, <1>10, <1>12, <1>13, <1>14 DEF Read
  <2>2. InOrder(text \o <<n + 1>>, C \cup {n + 1})
    BY <1>11, <1>13, NextChunk
  <2>3. AnswerText(M) = AnswerText(L) \o f.text
    <3>1. j \in Answers(L) /\ \A i \in Answers(L) : i <= j
      BY <1>3, <1>4, <1>8, <1>14
    <3>2. \A i \in 1 .. Len(L) :
            /\ M[i].id = L[i].id /\ M[i].parent = L[i].parent
            /\ M[i].text = IF i = j THEN L[i].text \o f.text ELSE L[i].text
      BY <1>1, <1>2, <1>4, <1>5
    <3>3. f.text \in Text
      BY DEF Frame
    <3>4. Len(M) = Len(L) /\ M \in Seq(Node)
      BY <1>1, <1>2
    <3> QED
      BY <3>1, <3>2, <3>3, <3>4, AnswerGrows
  <2> QED
    BY <1>1, <1>3, <1>11, <1>14, <2>1, <2>2, <2>3 DEF ReplyOK
<1>15. CASE ~ IsAnswerOf(f, L)
  <2>1. Read(n + 1, S, R) = C
    BY <1>3, <1>9, <1>10, <1>12, <1>13, <1>15 DEF Read
  <2>2. AnswerText(M) = AnswerText(L)
    <3>1. \A i \in 1 .. Len(L) : i \in Answers(L) => i # j
      BY <1>8, <1>15
    <3>2. \A i \in 1 .. Len(L) : /\ M[i].id = L[i].id /\ M[i].parent = L[i].parent
                                 /\ i \in Answers(L) => M[i].text = L[i].text
      BY <1>1, <1>2, <1>5, <3>1
    <3>3. /\ M \in Seq(Node) /\ Len(L) <= Len(M)
          /\ \A i \in Len(L) + 1 .. Len(M) : M[i].text = <<>>
      BY <1>1, <1>2
    <3> QED
      BY <3>2, <3>3, AnswerSame
  <2> QED
    BY <1>1, <1>11, <1>15, <2>1, <2>2 DEF ReplyOK
<1> QED
  BY <1>14, <1>15

SummaryOf(f, L, sum) ==
  IF f.id[2] = "compaction" /\ f.output # 0 /\ Find(L, f.id) # {}
    THEN [through |-> f.output, text |-> L[CHOOSE i \in Find(L, f.id) : TRUE].text]
    ELSE sum

LEMMA SummaryEnds ==
  ASSUME NEW L \in Seq(Node), NEW f \in Frame, FrameOK(f), f.event = "node_end",
         NEW n \in Nat, NEW R, NEW S \in Seq(NodeId),
         ListOK(L, n, R, S), FrameFits(f, L, n, R, S), NEW sum, SummaryOK(sum, R, S)
  PROVE  SummaryOK(SummaryOf(f, L, sum), R, S)
<1>1. CASE f.id[2] = "compaction" /\ f.output # 0 /\ Find(L, f.id) # {}
  <2>1. PICK i : i = CHOOSE k \in Find(L, f.id) : TRUE
    OBVIOUS
  <2>2. i \in Find(L, f.id)
    BY <1>1, <2>1
  <2>3. i \in DOMAIN L /\ L[i].id = f.id
    BY <2>2 DEF Find
  <2>4. PICK r : r = f.id[1]
    OBVIOUS
  <2>5. f.id = <<r, "compaction">>
    BY <1>1, <2>4 DEF FrameOK, Content, NodeId
  <2>6. /\ f.output = r /\ R[r].scope = 0 /\ r \in DOMAIN R /\ R[r].at = "ended"
        /\ \A k \in DOMAIN S : S[k] = f.id => k <= n
    BY <1>1, <2>4 DEF FrameFits
  <2>7. InOrder(L[i].text, {k \in 1 .. n : S[k] = f.id})
    BY <2>3 DEF ListOK, TextOK
  <2>8. {k \in DOMAIN S : S[k] = <<r, "compaction">>} = {k \in 1 .. n : S[k] = f.id}
    <3>1. DOMAIN S = 1 .. Len(S) /\ Len(S) \in Nat /\ n <= Len(S)
      BY DEF ListOK
    <3> QED
      BY <2>5, <2>6, <3>1
  <2>9. SummaryOf(f, L, sum) = [through |-> r, text |-> L[i].text]
    BY <1>1, <2>1, <2>6 DEF SummaryOf
  <2>10. r # 0
    BY <1>1, <2>6
  <2>11. PICK x : x = SummaryOf(f, L, sum)
    OBVIOUS
  <2>12. x.through = r /\ x.text = L[i].text
    BY <2>9, <2>11
  <2>13. InOrder(x.text, {k \in DOMAIN S : S[k] = <<r, "compaction">>})
    BY <2>7, <2>8, <2>12
  <2>14. SummaryOK(x, R, S)
    BY <2>6, <2>10, <2>12, <2>13 DEF SummaryOK
  <2> QED
    BY <2>11, <2>14
<1>2. CASE ~ (f.id[2] = "compaction" /\ f.output # 0 /\ Find(L, f.id) # {})
  BY <1>2 DEF SummaryOf
<1> QED
  BY <1>1, <1>2

\* The agent goes on, and neither changes.
LEMMA ReplyKeeps ==
  ASSUME NEW L, NEW n \in Nat, NEW R, NEW Q, NEW S \in Seq(NodeId), NEW T \in Seq(NodeId),
         NEW text, ReplyOK(text, L, n, R, S), n <= Len(S), Grows(R, Q, S, T),
         \A k \in DOMAIN S : S[k][1] \in DOMAIN R
  PROVE  ReplyOK(text, L, n, Q, T)
<1>1. \A k \in 1 .. n : k \in DOMAIN S
  <2>1. Len(S) \in Nat /\ DOMAIN S = 1 .. Len(S)
    OBVIOUS
  <2> QED
    BY <2>1
<1>2. \A k \in 1 .. n : T[k] = S[k] /\ Q[S[k][1]].scope = R[S[k][1]].scope
  BY <1>1 DEF Grows
<1>3. Read(n, T, Q) = Read(n, S, R)
  BY <1>2 DEF Read
<1> QED
  BY <1>3 DEF ReplyOK

LEMMA SummaryKeeps ==
  ASSUME NEW R, NEW Q, NEW S \in Seq(NodeId), NEW T \in Seq(NodeId),
         NEW sum, SummaryOK(sum, R, S), Grows(R, Q, S, T)
  PROVE  SummaryOK(sum, Q, T)
<1> SUFFICES ASSUME sum.text # <<>> PROVE SummaryOK(sum, Q, T)
  BY DEF SummaryOK
<1>1. PICK r : r = sum.through
  OBVIOUS
<1>2. /\ r # 0 /\ r \in DOMAIN R /\ R[r].scope = 0 /\ R[r].at = "ended"
      /\ InOrder(sum.text, {k \in DOMAIN S : S[k] = <<r, "compaction">>})
  BY <1>1 DEF SummaryOK
<1>3. r \in DOMAIN Q /\ Q[r].scope = 0 /\ Q[r].at = "ended"
  BY <1>2 DEF Grows
<1>4. DOMAIN S \subseteq DOMAIN T
  <2>1. Len(S) \in Nat /\ Len(T) \in Nat /\ DOMAIN S = 1 .. Len(S) /\ DOMAIN T = 1 .. Len(T)
    OBVIOUS
  <2> QED
    BY <2>1 DEF Grows
<1>5. \A k \in DOMAIN T : T[k] = <<r, "compaction">> => k \in DOMAIN S
  <2>1. <<r, "compaction">>[1] = r
    OBVIOUS
  <2> QED
    BY <1>2, <2>1 DEF Grows
<1>6. \A k \in DOMAIN S : T[k] = S[k]
  BY DEF Grows
<1>7. {k \in DOMAIN T : T[k] = <<r, "compaction">>} = {k \in DOMAIN S : S[k] = <<r, "compaction">>}
  BY <1>4, <1>5, <1>6
<1> QED
  BY <1>1, <1>2, <1>3, <1>7 DEF SummaryOK

-----------------------------------------------------------------------------
(* What is on its way is the rest of the log. *)

LEMMA HoldsTail ==
  ASSUME NEW q \in Seq(Frame), NEW log, NEW t \in Seq(Frame), NEW i \in Nat, NEW j \in Nat, i < j,
         Holds(q, log, i, j, t)
  PROVE  q # <<>> /\ q[1] = log[i + 1] /\ Holds(Tail(q), log, i + 1, j, t)
<1>1. PICK m \in Nat : m = Len(t)
  OBVIOUS
<1>2. /\ Len(q) = j - i + m /\ \A k \in 1 .. j - i : q[k] = log[i + k]
      /\ \A k \in 1 .. m : q[j - i + k] = t[k]
  BY <1>1 DEF Holds
<1>3. PICK r : r = Tail(q)
  OBVIOUS
<1>4. Len(q) >= 1 /\ q # <<>> /\ 1 \in 1 .. j - i
  BY <1>2
<1>5. /\ r \in Seq(Frame) /\ Len(r) = j - (i + 1) + m
      /\ \A k \in 1 .. Len(r) : r[k] = q[k + 1]
  BY <1>2, <1>3, <1>4
<1>6. ASSUME NEW k \in 1 .. j - (i + 1)
      PROVE  r[k] = log[i + 1 + k]
  <2>1. k + 1 \in 1 .. j - i /\ k \in 1 .. Len(r) /\ i + (k + 1) = i + 1 + k
    BY <1>5
  <2> QED
    BY <1>2, <1>5, <2>1
<1>7. ASSUME NEW k \in 1 .. m
      PROVE  r[j - (i + 1) + k] = t[k]
  <2>1. /\ j - (i + 1) + k \in 1 .. Len(r) /\ j - (i + 1) + k + 1 = j - i + k
    BY <1>5
  <2> QED
    BY <1>2, <1>5, <2>1
<1> QED
  BY <1>1, <1>2, <1>3, <1>4, <1>5, <1>6, <1>7 DEF Holds

LEMMA HoldsLast ==
  ASSUME NEW q \in Seq(Frame), NEW log, NEW t \in Seq(Frame), NEW i \in Nat
  PROVE  /\ Holds(q, log, i, i, t) <=> q = t
<1>1. PICK m, n \in Nat : m = Len(t) /\ n = Len(q)
  OBVIOUS
<1>2. ASSUME Holds(q, log, i, i, t)
      PROVE  q = t
  <2>1. n = m /\ \A k \in 1 .. m : q[k] = t[k]
    BY <1>1, <1>2 DEF Holds
  <2>2. DOMAIN q = 1 .. m /\ DOMAIN t = 1 .. m
    <3>1. DOMAIN q = 1 .. Len(q)
      OBVIOUS
    <3>2. DOMAIN t = 1 .. Len(t)
      OBVIOUS
    <3> QED
      BY <1>1, <2>1, <3>1, <3>2
  <2>3. \A k \in DOMAIN q : q[k] = t[k]
    BY <2>1, <2>2
  <2> QED
    BY <2>2, <2>3
<1>3. Holds(t, log, i, i, t)
  BY <1>1 DEF Holds
<1> QED
  BY <1>2, <1>3

LEMMA HoldsSent ==
  ASSUME NEW q \in Seq(Frame), NEW log \in Seq(Frame), NEW i \in Nat, NEW j \in Nat, i <= j,
         j < Len(log), Holds(q, log, i, j, <<>>), NEW f, f = log[j + 1]
  PROVE  Holds(Append(q, f), log, i, j + 1, <<>>)
<1>1. Len(q) = j - i /\ \A k \in 1 .. j - i : q[k] = log[i + k]
  BY DEF Holds
<1>2. f \in Frame
  <2>1. j + 1 \in DOMAIN log
    OBVIOUS
  <2> QED
    BY <2>1
<1>3. PICK r : r = Append(q, f)
  OBVIOUS
<1>4. /\ r \in Seq(Frame) /\ Len(r) = j - i + 1 /\ r[j - i + 1] = f
      /\ \A k \in 1 .. j - i : r[k] = q[k]
  <2>1. PICK n \in Nat : n = Len(q)
    OBVIOUS
  <2>2. r \in Seq(Frame) /\ Len(r) = n + 1 /\ r[n + 1] = f /\ \A k \in 1 .. n : r[k] = q[k]
    BY <1>2, <1>3, <2>1
  <2> QED
    BY <1>1, <2>1, <2>2
<1>5. ASSUME NEW k \in 1 .. j + 1 - i
      PROVE  r[k] = log[i + k]
  <2>1. CASE k \in 1 .. j - i
    BY <1>1, <1>4, <2>1
  <2>2. CASE k = j - i + 1
    <3>1. i + k = j + 1
      BY <2>2
    <3> QED
      BY <1>4, <2>2, <3>1
  <2> QED
    BY <2>1, <2>2
<1>6. Len(<<>>) = 0 /\ Len(r) = j + 1 - i
  BY <1>4
<1> QED
  BY <1>3, <1>5, <1>6 DEF Holds

LEMMA HoldsJoin ==
  ASSUME NEW q \in Seq(Frame), NEW log, NEW i \in Nat, NEW j \in Nat, i <= j,
         Holds(q, log, i, j, <<>>), NEW t \in Seq(Frame)
  PROVE  Holds(q \o t, log, i, j, t)
<1>1. Len(q) = j - i /\ \A k \in 1 .. j - i : q[k] = log[i + k]
  BY DEF Holds
<1>2. PICK r, m : r = q \o t /\ m = Len(t)
  OBVIOUS
<1>3. m \in Nat /\ j - i \in Nat
  BY <1>2
<1>4. /\ Len(r) = j - i + m
      /\ \A k \in 1 .. j - i : r[k] = q[k]
      /\ \A k \in 1 .. m : r[j - i + k] = t[k]
  <2>1. PICK n \in Nat : n = Len(q)
    OBVIOUS
  <2>2. Len(r) = n + m /\ (\A k \in 1 .. n : r[k] = q[k]) /\ \A k \in 1 .. m : r[n + k] = t[k]
    BY <1>2, <2>1
  <2> QED
    BY <1>1, <2>1, <2>2
<1> QED
  BY <1>1, <1>2, <1>4 DEF Holds

LEMMA HoldsExt ==
  ASSUME NEW q, NEW log \in Seq(Frame), NEW g, NEW i \in Nat, NEW j \in Nat, NEW t,
         i <= j, j <= Len(log), \A p \in DOMAIN log : g[p] = log[p], Holds(q, log, i, j, t)
  PROVE  Holds(q, g, i, j, t)
<1>1. \A k \in 1 .. j - i : i + k \in DOMAIN log
  OBVIOUS
<1> QED
  BY <1>1 DEF Holds

LEMMA HoldsLog ==
  ASSUME NEW q \in Seq(Frame), NEW log \in Seq(Frame), NEW i \in Nat, i <= Len(log),
         Holds(q, log, i, Len(log), <<>>), NEW fs \in Seq(Frame), NEW g, g = log \o fs
  PROVE  Holds(q \o fs, g, i, Len(g), <<>>)
<1>1. PICK l, m \in Nat : l = Len(log) /\ m = Len(fs)
  OBVIOUS
<1>2. Len(q) = l - i /\ \A k \in 1 .. l - i : q[k] = log[i + k]
  BY <1>1 DEF Holds
<1>3. PICK r : r = q \o fs
  OBVIOUS
<1>4. /\ Len(r) = l - i + m
      /\ \A k \in 1 .. l - i : r[k] = q[k]
      /\ \A k \in 1 .. m : r[l - i + k] = fs[k]
  <2>1. PICK n \in Nat : n = Len(q)
    OBVIOUS
  <2>2. Len(r) = n + m /\ (\A k \in 1 .. n : r[k] = q[k]) /\ \A k \in 1 .. m : r[n + k] = fs[k]
    BY <1>1, <1>3, <2>1
  <2> QED
    BY <1>2, <2>1, <2>2
<1>5. /\ Len(g) = l + m
      /\ \A k \in 1 .. l : g[k] = log[k]
      /\ \A k \in 1 .. m : g[l + k] = fs[k]
  BY <1>1
<1>6. ASSUME NEW k \in 1 .. l + m - i
      PROVE  r[k] = g[i + k]
  <2>1. CASE k \in 1 .. l - i
    <3>1. i + k \in 1 .. l
      BY <1>1, <2>1
    <3> QED
      BY <1>2, <1>4, <1>5, <2>1, <3>1
  <2>2. CASE k \notin 1 .. l - i
    <3>1. PICK c : c = k - (l - i)
      OBVIOUS
    <3>2. c \in 1 .. m /\ k = l - i + c /\ i + k = l + c
      BY <1>1, <2>2, <3>1
    <3> QED
      BY <1>4, <1>5, <3>2
  <2> QED
    BY <2>1, <2>2
<1>7. Len(<<>>) = 0 /\ Len(r) = l + m - i + 0
  BY <1>1, <1>4
<1> QED
  BY <1>3, <1>5, <1>6, <1>7 DEF Holds

\* The tails are frames, and none of them is content.
LEMMA TailsAre ==
  /\ ApiTails \subseteq Seq(Frame)
  /\ \A e, f \in {"end", "error", "done", "eof"} :
       <<FrameOf(e, NoNode), FrameOf(f, NoNode)>> \in Seq(Frame) /\ <<FrameOf(e, NoNode)>> \in Seq(Frame)
  /\ \A e \in {"end", "error", "done", "eof"} : FrameOf(e, NoNode).event = e
  /\ <<>> \in Seq(Frame)
<1>1. \A e \in {"end", "error", "done", "eof"} : FrameOf(e, NoNode) \in Frame /\ FrameOf(e, NoNode).event = e
  <2>1. <<>> \in Text
    BY DEF Text
  <2> QED
    BY <2>1 DEF FrameOf, Frame
<1>2. <<>> \in Seq(Frame)
  OBVIOUS
<1>3. \A e, f \in {"end", "error", "done", "eof"} :
        <<FrameOf(e, NoNode), FrameOf(f, NoNode)>> \in Seq(Frame) /\ <<FrameOf(e, NoNode)>> \in Seq(Frame)
  BY <1>1
<1>4. <<FrameOf("error", NoNode), FrameOf("end", NoNode), FrameOf("eof", NoNode)>> \in Seq(Frame)
  BY <1>1
<1>5. ApiTails \subseteq Seq(Frame)
  BY <1>2, <1>3, <1>4 DEF ApiTails
<1> QED
  BY <1>1, <1>2, <1>3, <1>5

-----------------------------------------------------------------------------
(* The steps of the agent, the api and the browser, along the log. *)

Fine == \E log, N, d, a, w : Agent(log, N, d) /\ Passed(log, N, d, a, w)

\* The next frame of the log after p of them, and the list it is folded into.
Next1(log, N, d, p, f, L, n) ==
  /\ f = log[p + 1] /\ f \in Frame /\ FrameOK(f) /\ f.event \in Content
  /\ L = N[p + 1] /\ n = d[p + 1]
  /\ FrameFits(f, L, n, runs, said)
  /\ N[p + 2] = Folds(L, f) /\ d[p + 2] = Chunks(n, f)

LEMMA NextFrame ==
  ASSUME NEW log, NEW N, NEW d, Agent(log, N, d), NEW p \in 0 .. Len(log)
  PROVE  /\ N[p + 1] \in Seq(Node) /\ d[p + 1] \in Nat /\ d[p + 1] <= Len(said)
         /\ ListOK(N[p + 1], d[p + 1], runs, said)
         /\ log \in Seq(Frame) /\ Len(log) \in Nat
         /\ p + 1 \in DOMAIN N
         /\ p < Len(log) => Next1(log, N, d, p, log[p + 1], N[p + 1], d[p + 1])
<1>1. Past(log, N, d, runs, said)
  BY DEF Agent, AgentInv
<1>2. /\ log \in Seq(Frame) /\ Len(log) \in Nat
      /\ DOMAIN log = 1 .. Len(log) /\ DOMAIN N = 1 .. Len(log) + 1
      /\ \A k \in 1 .. Len(log) + 1 : N[k] \in Seq(Node) /\ d[k] \in Nat
  BY <1>1, PastTypes
<1>3. p + 1 \in 1 .. Len(log) + 1
  BY <1>2
<1>4. ListOK(N[p + 1], d[p + 1], runs, said)
  BY <1>1, <1>2, <1>3 DEF Past
<1>5. d[p + 1] <= Len(said)
  BY <1>4 DEF ListOK
<1>6. ASSUME p < Len(log)
      PROVE  Next1(log, N, d, p, log[p + 1], N[p + 1], d[p + 1])
  <2>1. p + 1 \in DOMAIN log /\ p + 1 + 1 = p + 2
    BY <1>2, <1>6
  <2>2. log[p + 1] \in Frame /\ log[p + 1].event \in Content /\ FrameOK(log[p + 1])
    BY <1>1, <2>1 DEF Past, Shape
  <2>3. /\ N[p + 1 + 1] = Folds(N[p + 1], log[p + 1])
        /\ d[p + 1 + 1] = Chunks(d[p + 1], log[p + 1])
    BY <1>1, <2>1 DEF Past, Shape
  <2>4. FrameFits(log[p + 1], N[p + 1], d[p + 1], runs, said)
    BY <1>1, <2>1 DEF Past
  <2> QED
    BY <2>1, <2>2, <2>3, <2>4 DEF Next1
<1> QED
  BY <1>2, <1>3, <1>4, <1>5, <1>6

\* What the api has not read.
LEMMA ApiReads ==
  ASSUME Typed, NEW log, NEW N, NEW d, Agent(log, N, d), NEW a, NEW w, Passed(log, N, d, a, w),
         toApi # <<>> \/ graph[0].at # "ended"
  PROVE  /\ a \in Nat /\ w \in Nat /\ a \in 0 .. Len(log) /\ w \in 0 .. Len(log) /\ w <= a
         /\ Holds(toWeb, log, w, a, <<>>)
         /\ stored = NoReply /\ ended = "no" /\ shown = N[w + 1]
         /\ \E t \in ApiTails : /\ t # <<>> => graph[0].at = "ended"
                                /\ Holds(toApi, log, a, Len(log), t)
                                /\ \/ a < Len(log)
                                   \/ a = Len(log) /\ toApi = t
<1>1. log \in Seq(Frame) /\ Len(log) \in Nat
  BY PastTypes DEF Agent, AgentInv
<1>2. a \in Nat /\ w \in Nat /\ a \in 0 .. Len(log) /\ w \in 0 .. Len(log) /\ w <= a
  BY <1>1 DEF Passed
<1>3. Open(log, N, a, w)
  BY DEF Passed, Broken, Kept
<1>4. PICK t \in ApiTails : /\ Holds(toApi, log, a, Len(log), t)
                            /\ t # <<>> => graph[0].at = "ended"
  BY <1>3 DEF Open
<1>5. a < Len(log) \/ (a = Len(log) /\ toApi = t)
  <2>1. toApi \in Seq(Frame) /\ t \in Seq(Frame)
    BY TailsAre DEF Typed, TypeOK
  <2>2. CASE a = Len(log)
    BY <1>2, <1>4, <2>1, <2>2, HoldsLast
  <2>3. CASE a # Len(log)
    BY <1>1, <1>2, <2>3
  <2> QED
    BY <2>2, <2>3
<1> QED
  BY <1>2, <1>3, <1>4, <1>5 DEF Open

LEMMA AgentFine ==
  ASSUME Typed, Fine, AgentStep
  PROVE  Fine'
<1>1. PICK log, N, d, a, w : Agent(log, N, d) /\ Passed(log, N, d, a, w)
  BY DEF Fine
<1>2. graph[0].at # "ended"
  BY DEF AgentStep, Streaming, SummarizerStarts, ModelStarts, ToolsAnswered, ToolStarts, Streams,
         SummarizerEnds, ModelCalls, SummarizerFails, ModelAnswers, ToolEnds, ToolRaises, RunFails
<1>3. /\ a \in Nat /\ w \in Nat /\ a \in 0 .. Len(log) /\ w \in 0 .. Len(log) /\ w <= a
      /\ Holds(toWeb, log, w, a, <<>>)
      /\ stored = NoReply /\ ended = "no" /\ shown = N[w + 1]
      /\ Holds(toApi, log, a, Len(log), <<>>)
  BY <1>1, <1>2, ApiReads
<1>4. PICK g, P, e : /\ AgentInv(g, P, e, runs', said', graph', openTools', started')
                     /\ Extends(log, N, d, g, P, e) /\ Wrote(log, g)
                     /\ Grows(runs, runs', said, said')
  BY <1>1, AgentContinues DEF Continues
<1>5. UNCHANGED <<nodes, reply, summary, stored, toWeb, shown, ended>>
  BY AgentLeaves
<1>6. Agent(g, P, e)'
  BY <1>4 DEF Agent
<1>7. /\ log \in Seq(Frame) /\ Len(log) \in Nat
      /\ a + 1 \in DOMAIN N /\ w + 1 \in DOMAIN N
      /\ d[a + 1] \in Nat /\ d[a + 1] <= Len(said)
  BY <1>1, <1>3, NextFrame
<1>8. P[a + 1] = N[a + 1] /\ e[a + 1] = d[a + 1] /\ P[w + 1] = N[w + 1]
      /\ Len(log) <= Len(g) /\ \A p \in DOMAIN log : g[p] = log[p]
  BY <1>4, <1>7 DEF Extends
<1>9. said \in Seq(NodeId) /\ said' \in Seq(NodeId) /\ toApi \in Seq(Frame)
  BY AgentTyped DEF Typed, TypeOK, AgentTypes
<1>10. \A k \in DOMAIN said : said[k][1] \in DOMAIN runs
  <2>1. PICK L : L = N[Len(N)]
    OBVIOUS
  <2>2. Latest(L, runs, said, openTools, started) /\ Past(log, N, d, runs, said)
    BY <1>1, <2>1 DEF Agent, AgentInv
  <2>3. \A i \in DOMAIN L : L[i].id[1] \in DOMAIN runs
    <3>1. ListOK(N[Len(N)], d[Len(d)], runs, said)
      BY <2>2, PastTypes
    <3> QED
      BY <2>1, <3>1 DEF ListOK, NodesOK
  <2> QED
    BY <2>2, <2>3 DEF Latest, IdsOf
<1>11. ReplyOK(reply, N[a + 1], d[a + 1], runs', said')
  <2>1. ReplyOK(reply, N[a + 1], d[a + 1], runs, said)
    BY <1>1 DEF Passed
  <2> QED
    BY <1>4, <1>7, <1>9, <1>10, <2>1, ReplyKeeps
<1>12. SummaryOK(summary, runs', said')
  BY <1>1, <1>4, <1>9, SummaryKeeps DEF Passed
<1>13. Holds(toWeb, g, w, a, <<>>)
  BY <1>3, <1>7, <1>8, HoldsExt
<1>14. \E t \in ApiTails : /\ Holds(toApi', g, a, Len(g), t)
                           /\ t # <<>> => graph'[0].at = "ended"
  <2>1. ASSUME NEW fs \in Seq(Frame), g = log \o fs, toApi' = toApi \o fs
        PROVE  Holds(toApi', g, a, Len(g), <<>>)
    <3>1. a <= Len(log)
      BY <1>3, <1>7
    <3> QED
      BY <1>3, <1>7, <1>9, <2>1, <3>1, HoldsLog
  <2>2. ASSUME NEW t \in ApiTails, g = log, toApi' = toApi \o t
        PROVE  Holds(toApi', g, a, Len(g), t)
    <3>1. t \in Seq(Frame) /\ a <= Len(log)
      BY <1>3, <1>7, TailsAre
    <3> QED
      BY <1>3, <1>7, <1>9, <2>2, <3>1, HoldsJoin
  <2>3. <<>> \in ApiTails
    BY DEF ApiTails
  <2> QED
    BY <1>4, <2>1, <2>2, <2>3 DEF Wrote
<1>15. Open(g, P, a, w)'
  BY <1>3, <1>5, <1>8, <1>13, <1>14 DEF Open
<1>16. a \in 0 .. Len(g) /\ w \in 0 .. a
  <2>1. Len(g) \in Nat
    BY <1>4, PastTypes DEF AgentInv
  <2> QED
    BY <1>3, <1>7, <1>8, <2>1
<1>17. Passed(g, P, e, a, w)'
  <2>1. nodes' = P[a + 1]
    BY <1>1, <1>5, <1>8 DEF Passed
  <2> QED
    BY <1>5, <1>8, <1>11, <1>12, <1>15, <1>16, <2>1 DEF Passed
<1> QED
  BY <1>6, <1>17 DEF Fine

\* The frames of the log are content, and those of the tails are not.
LEMMA HeadIs ==
  ASSUME Typed, NEW log, NEW N, NEW d, Agent(log, N, d), NEW a \in 0 .. Len(log),
         NEW t \in ApiTails, Holds(toApi, log, a, Len(log), t), toApi # <<>>
  PROVE  /\ a < Len(log) <=> Head1.event \in Content
         /\ a < Len(log) => /\ Head1 = log[a + 1]
                            /\ Holds(Tail(toApi), log, a + 1, Len(log), t)
         /\ a = Len(log) => /\ toApi = t /\ Head1.event \in {"error", "end", "eof"}
                            /\ Head1.event = "end" => Tail(toApi) = <<FrameOf("eof", NoNode)>>
                            /\ Head1.event = "eof" => Tail(toApi) = <<>>
<1>1. toApi \in Seq(Frame) /\ t \in Seq(Frame)
  BY TailsAre DEF Typed, TypeOK
<1>2. Len(log) \in Nat /\ a \in Nat /\ a <= Len(log)
  BY NextFrame
<1>3. ASSUME a < Len(log)
      PROVE  /\ Head1.event \in Content /\ Head1 = log[a + 1]
             /\ Holds(Tail(toApi), log, a + 1, Len(log), t)
  <2>1. Head1 = log[a + 1] /\ Holds(Tail(toApi), log, a + 1, Len(log), t)
    BY <1>1, <1>2, <1>3, HoldsTail DEF Head1
  <2>2. log[a + 1].event \in Content
    BY <1>3, NextFrame DEF Next1
  <2> QED
    BY <2>1, <2>2
<1>4. ASSUME a = Len(log)
      PROVE  /\ toApi = t /\ Head1.event \in {"error", "end", "eof"}
             /\ Head1.event = "end" => Tail(toApi) = <<FrameOf("eof", NoNode)>>
             /\ Head1.event = "eof" => Tail(toApi) = <<>>
  <2>1. toApi = t
    BY <1>1, <1>2, <1>4, HoldsLast
  <2>2. CASE t = <<FrameOf("error", NoNode), FrameOf("end", NoNode), FrameOf("eof", NoNode)>>
    <3>1. Head1.event = "error"
      BY <2>1, <2>2, TailsAre DEF Head1
    <3> QED
      BY <2>1, <3>1
  <2>3. CASE t = <<FrameOf("end", NoNode), FrameOf("eof", NoNode)>>
    <3>1. Head1.event = "end" /\ Tail(toApi) = <<FrameOf("eof", NoNode)>>
      BY <2>1, <2>3, TailsAre DEF Head1
    <3> QED
      BY <2>1, <3>1
  <2>4. CASE t = <<FrameOf("eof", NoNode)>>
    <3>1. Head1.event = "eof" /\ Tail(toApi) = <<>>
      BY <2>1, <2>4, TailsAre DEF Head1
    <3> QED
      BY <2>1, <3>1
  <2> QED
    BY <2>1, <2>2, <2>3, <2>4 DEF ApiTails
<1>5. a = Len(log) => Head1.event \notin Content
  BY <1>4 DEF Content
<1> QED
  BY <1>2, <1>3, <1>4, <1>5

\* What the api makes of a frame of the log.
ApiMakes(f, L, n) ==
  /\ nodes' = Folds(L, f)
  /\ ReplyOK(reply', Folds(L, f), Chunks(n, f), runs, said)
  /\ SummaryOK(summary', runs, said)

LEMMA ApiMakesOf ==
  ASSUME Typed, NEW log, NEW N, NEW d, Agent(log, N, d), NEW a, NEW w, Passed(log, N, d, a, w),
         OnNode \/ OnDelta \/ OnNodeEnd, NEW f, NEW L, NEW n, Next1(log, N, d, a, f, L, n),
         f = Head1, a \in 0 .. Len(log)
  PROVE  ApiMakes(f, L, n)
<1>1. /\ f \in Frame /\ FrameOK(f) /\ nodes = L /\ L \in Seq(Node) /\ n \in Nat
      /\ ListOK(L, n, runs, said) /\ FrameFits(f, L, n, runs, said)
      /\ ReplyOK(reply, L, n, runs, said) /\ SummaryOK(summary, runs, said)
  <2>1. /\ N[a + 1] \in Seq(Node) /\ d[a + 1] \in Nat
        /\ ListOK(N[a + 1], d[a + 1], runs, said)
    BY NextFrame
  <2> QED
    BY <2>1 DEF Next1, Passed
<1>2. said \in Seq(NodeId) /\ reply \in Text
  BY DEF Typed, TypeOK
<1>3. nodes' = Folds(L, f)
  BY <1>1, ApiFolds
<1>4. CASE OnNode
  <2>1. f.event = "node" /\ UNCHANGED <<reply, summary>>
    BY <1>4 DEF OnNode
  <2>2. ReplyOK(reply, Folds(L, f), n, runs, said)
    BY <1>1, <2>1, ReplyNode
  <2> QED
    BY <1>1, <1>3, <2>1, <2>2 DEF ApiMakes, Chunks
<1>5. CASE OnDelta
  <2>1. f.event = "delta" /\ UNCHANGED summary
    BY <1>5 DEF OnDelta
  <2>2. reply' = IF IsAnswerOf(f, L) THEN reply \o f.text ELSE reply
    BY <1>1, <1>5 DEF OnDelta, IsAnswer, IsAnswerOf
  <2>4. ReplyOK(IF IsAnswerOf(f, L) THEN reply \o f.text ELSE reply, Folds(L, f), n + 1, runs, said)
    BY <1>1, <1>2, <2>1, ReplyText
  <2> QED
    BY <1>1, <1>3, <2>1, <2>2, <2>4 DEF ApiMakes, Chunks
<1>6. CASE OnNodeEnd
  <2>1. f.event = "node_end" /\ UNCHANGED reply
    BY <1>6 DEF OnNodeEnd
  <2>2. summary' = SummaryOf(f, L, summary)
    BY <1>1, <1>6 DEF OnNodeEnd, NewSummary, SummaryOf
  <2>3. ReplyOK(reply, Folds(L, f), n, runs, said)
    BY <1>1, <2>1, ReplyEnd
  <2>4. SummaryOK(SummaryOf(f, L, summary), runs, said)
    BY <1>1, <1>2, <2>1, SummaryEnds
  <2> QED
    BY <1>3, <2>1, <2>2, <2>3, <2>4 DEF ApiMakes, Chunks
<1> QED
  BY <1>4, <1>5, <1>6

LEMMA FoldFine ==
  ASSUME Typed, Fine, OnNode \/ OnDelta \/ OnNodeEnd
  PROVE  Fine'
<1>1. PICK log, N, d, a, w : Agent(log, N, d) /\ Passed(log, N, d, a, w)
  BY DEF Fine
<1>2. toApi # <<>> /\ Head1.event \in Content /\ Took /\ Send(Head1)
  BY DEF OnNode, OnDelta, OnNodeEnd, Content
<1>3. /\ a \in Nat /\ w \in Nat /\ a \in 0 .. Len(log) /\ w \in 0 .. Len(log) /\ w <= a
      /\ Holds(toWeb, log, w, a, <<>>)
      /\ stored = NoReply /\ ended = "no" /\ shown = N[w + 1]
  BY <1>1, <1>2, ApiReads
<1>4. PICK t \in ApiTails : /\ t # <<>> => graph[0].at = "ended"
                            /\ Holds(toApi, log, a, Len(log), t)
  BY <1>1, <1>2, ApiReads
<1>5. /\ a < Len(log) /\ Head1 = log[a + 1]
      /\ Holds(Tail(toApi), log, a + 1, Len(log), t)
  BY <1>1, <1>2, <1>3, <1>4, HeadIs
<1>6. PICK f, L, n : f = log[a + 1] /\ L = N[a + 1] /\ n = d[a + 1]
  OBVIOUS
<1>7. log \in Seq(Frame) /\ Len(log) \in Nat /\ Next1(log, N, d, a, f, L, n)
  BY <1>1, <1>3, <1>5, <1>6, NextFrame
<1>8. ApiMakes(f, L, n)
  BY <1>1, <1>3, <1>5, <1>6, <1>7, ApiMakesOf
<1>9. /\ UNCHANGED <<agent, stored, web>>
      /\ toApi' = Tail(toApi) /\ toWeb' = Append(toWeb, f)
  BY <1>2, <1>5, <1>6 DEF OnNode, OnDelta, OnNodeEnd, Took, Send
<1>10. Agent(log, N, d)'
  BY <1>1, <1>9 DEF Agent, agent
<1>11. Holds(toWeb', log, w, a + 1, <<>>)
  <2>1. toWeb \in Seq(Frame)
    BY DEF Typed, TypeOK
  <2> QED
    BY <1>3, <1>5, <1>6, <1>7, <1>9, <2>1, HoldsSent
<1>12. Open(log, N, a + 1, w)'
  BY <1>3, <1>4, <1>5, <1>9, <1>11 DEF Open, agent, web
<1>13. a + 1 \in 0 .. Len(log) /\ w \in 0 .. a + 1 /\ a + 1 + 1 = a + 2
  BY <1>3, <1>5, <1>7
<1>14. /\ nodes' = N[a + 1 + 1] /\ ReplyOK(reply', N[a + 1 + 1], d[a + 1 + 1], runs', said')
       /\ SummaryOK(summary', runs', said')
  BY <1>7, <1>8, <1>9, <1>13 DEF ApiMakes, Next1, agent
<1>15. Passed(log, N, d, a + 1, w)'
  BY <1>12, <1>13, <1>14 DEF Passed
<1> QED
  BY <1>10, <1>15 DEF Fine

\* The agent's log stays right when its graph is stopped.
LEMMA AgentStops ==
  ASSUME NEW log, NEW N, NEW d, Agent(log, N, d), UNCHANGED <<runs, said, openTools, started>>,
         graph'[0].at = "ended" \/ UNCHANGED graph
  PROVE  Agent(log, N, d)'
BY DEF Agent, AgentInv

LEMMA EndFine ==
  ASSUME Typed, Fine, OnEnd
  PROVE  Fine'
<1>1. PICK log, N, d, a, w : Agent(log, N, d) /\ Passed(log, N, d, a, w)
  BY DEF Fine
<1>2. toApi # <<>> /\ Head1.event = "end" /\ Took /\ UNCHANGED <<agent, api, toWeb, web>>
  BY DEF OnEnd
<1>3. /\ a \in Nat /\ w \in Nat /\ a \in 0 .. Len(log) /\ w \in 0 .. Len(log) /\ w <= a
      /\ Holds(toWeb, log, w, a, <<>>)
      /\ stored = NoReply /\ ended = "no" /\ shown = N[w + 1]
  BY <1>1, <1>2, ApiReads
<1>4. PICK t \in ApiTails : /\ t # <<>> => graph[0].at = "ended"
                            /\ Holds(toApi, log, a, Len(log), t)
                            /\ a < Len(log) \/ (a = Len(log) /\ toApi = t)
  BY <1>1, <1>2, ApiReads
<1>5. a = Len(log) /\ Tail(toApi) = <<FrameOf("eof", NoNode)>> /\ t # <<>>
  BY <1>1, <1>2, <1>3, <1>4, HeadIs DEF Content
<1>6. toApi' = <<FrameOf("eof", NoNode)>> /\ toApi' \in ApiTails /\ toApi' \in Seq(Frame)
  BY <1>2, <1>5, TailsAre DEF Took, ApiTails
<1>7. Holds(toApi', log, a, Len(log), toApi')
  BY <1>3, <1>5, <1>6, HoldsLast
<1>8. Open(log, N, a, w)'
  BY <1>2, <1>3, <1>4, <1>5, <1>6, <1>7 DEF Open, agent, api, web
<1>9. Passed(log, N, d, a, w)'
  BY <1>1, <1>2, <1>8 DEF Passed, agent, api
<1>10. Agent(log, N, d)'
  BY <1>1, <1>2, AgentStops DEF agent
<1> QED
  BY <1>9, <1>10 DEF Fine

LEMMA FailsFine ==
  ASSUME Typed, Fine, OnError \/ AgentLost
  PROVE  Fine'
<1>1. PICK log, N, d, a, w : Agent(log, N, d) /\ Passed(log, N, d, a, w)
  BY DEF Fine
<1>2. /\ toApi # <<>> \/ graph[0].at # "ended"
      /\ Fails /\ UNCHANGED <<runs, said, openTools, started, api, web>>
  BY DEF OnError, AgentLost
<1>3. /\ a \in Nat /\ w \in Nat /\ a \in 0 .. Len(log) /\ w \in 0 .. Len(log) /\ w <= a
      /\ Holds(toWeb, log, w, a, <<>>)
      /\ stored = NoReply /\ ended = "no" /\ shown = N[w + 1]
  BY <1>1, <1>2, ApiReads
<1>4. /\ toWeb' = toWeb \o <<FrameOf("error", NoNode), FrameOf("eof", NoNode)>> /\ toApi' = <<>>
      /\ graph' = [graph EXCEPT ![0].at = "ended"]
  BY <1>2 DEF Fails
<1>5. graph'[0].at = "ended"
  BY <1>4, Numbers DEF Typed, TypeOK
<1>6. Holds(toWeb', log, w, a, <<FrameOf("error", NoNode), FrameOf("eof", NoNode)>>)
  <2>1. toWeb \in Seq(Frame) /\ <<FrameOf("error", NoNode), FrameOf("eof", NoNode)>> \in Seq(Frame)
    BY TailsAre DEF Typed, TypeOK
  <2> QED
    BY <1>3, <1>4, <2>1, HoldsJoin
<1>7. Broken(log, N, a, w)'
  BY <1>2, <1>3, <1>4, <1>5, <1>6 DEF Broken, api, web
<1>8. Passed(log, N, d, a, w)'
  BY <1>1, <1>2, <1>7 DEF Passed, api
<1>9. Agent(log, N, d)'
  BY <1>1, <1>2, <1>5, AgentStops
<1> QED
  BY <1>8, <1>9 DEF Fine

LEMMA FinishFine ==
  ASSUME Typed, Fine, Finish
  PROVE  Fine'
<1>1. PICK log, N, d, a, w : Agent(log, N, d) /\ Passed(log, N, d, a, w)
  BY DEF Fine
<1>2. /\ toApi # <<>> /\ Head1.event = "eof"
      /\ toApi' = Tail(toApi) /\ UNCHANGED <<agent, nodes, reply, summary, web>>
      /\ toWeb' = toWeb \o <<FrameOf("done", NoNode), FrameOf("eof", NoNode)>>
  BY DEF Finish, Took
<1>3. /\ a \in Nat /\ w \in Nat /\ a \in 0 .. Len(log) /\ w \in 0 .. Len(log) /\ w <= a
      /\ Holds(toWeb, log, w, a, <<>>)
      /\ stored = NoReply /\ ended = "no" /\ shown = N[w + 1]
  BY <1>1, <1>2, ApiReads
<1>4. PICK t \in ApiTails : /\ t # <<>> => graph[0].at = "ended"
                            /\ Holds(toApi, log, a, Len(log), t)
                            /\ a < Len(log) \/ (a = Len(log) /\ toApi = t)
  BY <1>1, <1>2, ApiReads
<1>5. a = Len(log) /\ Tail(toApi) = <<>> /\ t # <<>>
  BY <1>1, <1>2, <1>3, <1>4, HeadIs DEF Content
<1>6. Holds(toWeb', log, w, a, <<FrameOf("done", NoNode), FrameOf("eof", NoNode)>>)
  <2>1. toWeb \in Seq(Frame) /\ <<FrameOf("done", NoNode), FrameOf("eof", NoNode)>> \in Seq(Frame)
    BY TailsAre DEF Typed, TypeOK
  <2> QED
    BY <1>2, <1>3, <2>1, HoldsJoin
<1>7. stored' = Row(nodes)'
  BY <1>2 DEF Finish, Row, NonTrivial
<1>8. Kept(log, N, a, w)'
  BY <1>2, <1>3, <1>4, <1>5, <1>6, <1>7 DEF Kept, agent, web
<1>9. Passed(log, N, d, a, w)'
  BY <1>1, <1>2, <1>8 DEF Passed, agent
<1>10. Agent(log, N, d)'
  BY <1>1, <1>2, AgentStops DEF agent
<1> QED
  BY <1>9, <1>10 DEF Fine

\* What the browser is sent after the log, and what it has read of that.
WebTail(how) == <<FrameOf(how, NoNode), FrameOf("eof", NoNode)>>
WebRest == {<<>>, <<FrameOf("eof", NoNode)>>}

LEMMA WebTails ==
  /\ \A how \in {"done", "error"} :
       /\ WebTail(how) \in Seq(Frame) /\ Head(WebTail(how)) = FrameOf(how, NoNode)
       /\ Tail(WebTail(how)) = <<FrameOf("eof", NoNode)>>
  /\ Head(<<FrameOf("eof", NoNode)>>) = FrameOf("eof", NoNode)
  /\ Tail(<<FrameOf("eof", NoNode)>>) = <<>>
BY TailsAre DEF WebTail

\* A frame that ends the answer is not folded.
LEMMA ShowsEnd ==
  ASSUME NEW how \in {"done", "error", "eof"}
  PROVE  Show(FrameOf(how, NoNode)) = shown
BY DEF Show, FrameOf

\* The browser reads a frame of the log.
LEMMA ReadsLog ==
  ASSUME Typed, NEW log, NEW N, NEW d, Agent(log, N, d), NEW w \in Nat, NEW a \in 0 .. Len(log),
         w < a, NEW t \in Seq(Frame), Holds(toWeb, log, w, a, t), shown = N[w + 1], Reads
  PROVE  Holds(toWeb', log, w + 1, a, t) /\ shown' = N[w + 2] /\ UNCHANGED ended
<1>1. toWeb \in Seq(Frame) /\ a \in Nat /\ w \in 0 .. Len(log) /\ w < Len(log)
  <2>1. Len(log) \in Nat
    BY NextFrame
  <2> QED
    BY <2>1 DEF Typed, TypeOK
<1>2. toWeb # <<>> /\ toWeb[1] = log[w + 1] /\ Holds(Tail(toWeb), log, w + 1, a, t)
  BY <1>1, HoldsTail
<1>3. PICK f : f = log[w + 1]
  OBVIOUS
<1>4. f.event \in Content /\ N[w + 2] = Folds(N[w + 1], f)
  BY <1>1, <1>3, NextFrame DEF Next1
<1>5. Head(toWeb) = f
  BY <1>1, <1>2, <1>3
<1>6. shown' = Show(f) /\ ended' = ended /\ toWeb' = Tail(toWeb)
  BY <1>4, <1>5 DEF Reads, Content
<1> QED
  BY <1>2, <1>4, <1>6, ShowIs

\* After the log it reads the frames that end the answer.
LEMMA ReadsEnd ==
  ASSUME Typed, NEW log, NEW a \in Nat, NEW how \in {"done", "error"}, ended = "no",
         Holds(toWeb, log, a, a, WebTail(how)), Reads
  PROVE  /\ toWeb' = <<FrameOf("eof", NoNode)>> /\ ended' = how
         /\ shown' = IF how = "error" THEN <<>> ELSE shown
<1>1. toWeb = WebTail(how)
  BY WebTails, HoldsLast DEF Typed, TypeOK
<1>2. Head(toWeb) = FrameOf(how, NoNode) /\ Tail(toWeb) = <<FrameOf("eof", NoNode)>>
  BY <1>1, WebTails
<1>3. FrameOf(how, NoNode).event = how
  BY TailsAre
<1>4. Show(FrameOf(how, NoNode)) = shown
  BY ShowsEnd
<1> QED
  BY <1>2, <1>3, <1>4 DEF Reads

LEMMA ReadsRest ==
  ASSUME ended # "no", toWeb \in WebRest, Reads
  PROVE  toWeb' = <<>> /\ UNCHANGED <<shown, ended>>
<1>1. toWeb = <<FrameOf("eof", NoNode)>>
  BY DEF WebRest, Reads
<1>2. Head(toWeb) = FrameOf("eof", NoNode) /\ Tail(toWeb) = <<>>
  BY <1>1, WebTails
<1>3. FrameOf("eof", NoNode).event = "eof" /\ Show(FrameOf("eof", NoNode)) = shown
  BY TailsAre, ShowsEnd
<1> QED
  BY <1>2, <1>3 DEF Reads

LEMMA ReadsFine ==
  ASSUME Typed, Fine, Reads
  PROVE  Fine'
<1>1. PICK log, N, d, a, w : Agent(log, N, d) /\ Passed(log, N, d, a, w)
  BY DEF Fine
<1>2. /\ a \in 0 .. Len(log) /\ w \in 0 .. a /\ log \in Seq(Frame) /\ Len(log) \in Nat
      /\ a \in Nat /\ w \in Nat /\ w <= a
  <2>1. log \in Seq(Frame) /\ Len(log) \in Nat
    BY <1>1, PastTypes DEF Agent, AgentInv
  <2> QED
    BY <1>1, <2>1 DEF Passed
<1>3. UNCHANGED <<agent, toApi, api>>
  BY DEF Reads
<1>4. Agent(log, N, d)'
  BY <1>1, <1>3, AgentStops DEF agent
<1>5. ASSUME NEW v \in 0 .. a, Open(log, N, a, v)' \/ Broken(log, N, a, v)' \/ Kept(log, N, a, v)'
      PROVE  Fine'
  <2>1. Passed(log, N, d, a, v)'
    BY <1>1, <1>2, <1>3, <1>5 DEF Passed, agent, api
  <2> QED
    BY <1>4, <2>1 DEF Fine
<1>6. CASE Open(log, N, a, w)
  <2>1. Holds(toWeb, log, w, a, <<>>) /\ shown = N[w + 1] /\ <<>> \in Seq(Frame)
    BY <1>6, TailsAre DEF Open
  <2>2. w < a
    <3>1. ASSUME w = a PROVE FALSE
      BY <1>2, <2>1, <3>1, HoldsLast DEF Reads, Typed, TypeOK
    <3> QED
      BY <1>2, <3>1
  <2>3. Holds(toWeb', log, w + 1, a, <<>>) /\ shown' = N[w + 2] /\ UNCHANGED ended
    BY <1>1, <1>2, <2>1, <2>2, ReadsLog
  <2>4. w + 1 \in 0 .. a /\ w + 1 + 1 = w + 2
    BY <1>2, <2>2
  <2>5. Open(log, N, a, w + 1)'
    BY <1>3, <1>6, <2>3, <2>4 DEF Open, agent, api
  <2> QED
    BY <1>5, <2>4, <2>5
<1>7. CASE Broken(log, N, a, w)
  <2>1. CASE ended = "no"
    <3>1. Holds(toWeb, log, w, a, WebTail("error")) /\ shown = N[w + 1]
      BY <1>7, <2>1 DEF Broken, WebTail
    <3>2. CASE w < a
      <4>1. Holds(toWeb', log, w + 1, a, WebTail("error")) /\ shown' = N[w + 2] /\ UNCHANGED ended
        BY <1>1, <1>2, <3>1, <3>2, WebTails, ReadsLog
      <4>2. w + 1 \in 0 .. a /\ w + 1 + 1 = w + 2
        BY <1>2, <3>2
      <4>3. Broken(log, N, a, w + 1)'
        BY <1>3, <1>7, <2>1, <4>1, <4>2 DEF Broken, agent, api, WebTail
      <4> QED
        BY <1>5, <4>2, <4>3
    <3>3. CASE w = a
      <4>1. Holds(toWeb, log, a, a, WebTail("error"))
        BY <3>1, <3>3
      <4>2. toWeb' = <<FrameOf("eof", NoNode)>> /\ ended' = "error" /\ shown' = <<>>
        BY <1>2, <2>1, <4>1, ReadsEnd
      <4>3. Broken(log, N, a, w)'
        BY <1>3, <1>7, <4>2 DEF Broken, agent, api
      <4> QED
        BY <1>2, <1>5, <4>3
    <3> QED
      BY <1>2, <3>2, <3>3
  <2>2. CASE ended # "no"
    <3>1. toWeb \in WebRest /\ ended = "error" /\ shown = <<>>
      BY <1>7, <2>2 DEF Broken, WebRest
    <3>2. toWeb' = <<>> /\ UNCHANGED <<shown, ended>>
      BY <2>2, <3>1, ReadsRest
    <3>3. Broken(log, N, a, w)'
      BY <1>3, <1>7, <3>1, <3>2 DEF Broken, agent, api
    <3> QED
      BY <1>2, <1>5, <3>3
  <2> QED
    BY <2>1, <2>2
<1>8. CASE Kept(log, N, a, w)
  <2>3. Row(nodes)' = Row(nodes) /\ UNCHANGED <<toApi, graph, stored>>
    BY <1>3 DEF Row, agent, api
  <2>1. CASE ended = "no"
    <3>1. Holds(toWeb, log, w, a, WebTail("done")) /\ shown = N[w + 1]
      BY <1>8, <2>1 DEF Kept, WebTail
    <3>2. CASE w < a
      <4>1. Holds(toWeb', log, w + 1, a, WebTail("done")) /\ shown' = N[w + 2] /\ UNCHANGED ended
        BY <1>1, <1>2, <3>1, <3>2, WebTails, ReadsLog
      <4>2. w + 1 \in 0 .. a /\ w + 1 + 1 = w + 2
        BY <1>2, <3>2
      <4>3. Kept(log, N, a, w + 1)'
        BY <1>8, <2>1, <2>3, <4>1, <4>2 DEF Kept, WebTail
      <4> QED
        BY <1>5, <4>2, <4>3
    <3>3. CASE w = a
      <4>1. Holds(toWeb, log, a, a, WebTail("done"))
        BY <3>1, <3>3
      <4>2. toWeb' = <<FrameOf("eof", NoNode)>> /\ ended' = "done" /\ shown' = shown
        BY <1>2, <2>1, <4>1, ReadsEnd
      <4>3. Kept(log, N, a, w)'
        BY <1>8, <2>3, <3>3, <4>2 DEF Kept
      <4> QED
        BY <1>2, <1>5, <4>3
    <3> QED
      BY <1>2, <3>2, <3>3
  <2>2. CASE ended # "no"
    <3>1. toWeb \in WebRest /\ ended = "done" /\ w = a
      BY <1>8, <2>2 DEF Kept, WebRest
    <3>2. toWeb' = <<>> /\ UNCHANGED <<shown, ended>>
      BY <2>2, <3>1, ReadsRest
    <3>3. Kept(log, N, a, w)'
      BY <1>8, <2>3, <3>1, <3>2 DEF Kept
    <3> QED
      BY <1>2, <1>5, <3>3
  <2> QED
    BY <2>1, <2>2
<1> QED
  BY <1>1, <1>6, <1>7, <1>8 DEF Passed

LEMMA SameFine ==
  ASSUME Fine, UNCHANGED vars
  PROVE  Fine'
<1>1. PICK log, N, d, a, w : Agent(log, N, d) /\ Passed(log, N, d, a, w)
  BY DEF Fine
<1>2. Agent(log, N, d)' /\ Passed(log, N, d, a, w)'
  BY <1>1 DEF Agent, Passed, Open, Broken, Kept, Row, vars, agent, api, web
<1> QED
  BY <1>2 DEF Fine

LEMMA NothingAnswers == AnswerText(<<>>) = <<>>
<1>1. <<>> \in Seq(Node)
  OBVIOUS
<1>2. PICK s : s = AnswerTexts(<<>>)
  OBVIOUS
<1>3. s \in Seq(Text) /\ Len(s) = 0 /\ AnswerText(<<>>) = FlattenSeq(s)
  BY <1>1, <1>2, AnswerTextsAre
<1>4. PICK f : Flattens(f, s) /\ FlattenSeq(s) = f[Len(s)]
  BY <1>3, FlattenIs
<1> QED
  BY <1>3, <1>4 DEF Flattens

LEMMA InitFine == Init => Fine
<1> SUFFICES ASSUME Init PROVE Fine
  OBVIOUS
<1>1. /\ runs = <<>> /\ said = <<>> /\ started = {} /\ toApi = <<>> /\ toWeb = <<>>
      /\ nodes = <<>> /\ reply = <<>> /\ summary = NoSummary /\ stored = NoReply
      /\ shown = <<>> /\ ended = "no"
      /\ \A s \in Scopes : s # 0 => graph[s].at = "none"
  BY DEF Init
<1>2. PICK log, N, d : log = <<>> /\ N = << <<>> >> /\ d = <<0>>
  OBVIOUS
<1>3. Shape(log, N, d)
  <2>1. log \in Seq(Frame) /\ Len(log) = 0 /\ DOMAIN log = {}
    BY <1>2
  <2>2. N \in Seq(Seq(Node)) /\ Len(N) = 1 /\ N[1] = <<>>
    <3>1. <<>> \in Seq(Node)
      OBVIOUS
    <3> QED
      BY <1>2, <3>1
  <2>3. d \in Seq(Nat) /\ Len(d) = 1 /\ d[1] = 0
    BY <1>2
  <2> QED
    BY <2>1, <2>2, <2>3 DEF Shape
<1>4. ListOK(<<>>, 0, runs, said)
  BY <1>1 DEF ListOK, NodesOK, OrderOK, TextOK, OutputOK, Tools, Answers
<1>5. Past(log, N, d, runs, said)
  <2>1. \A p \in DOMAIN N : ListOK(N[p], d[p], runs, said)
    <3>1. \A p \in DOMAIN N : p = 1
      BY <1>2
    <3> QED
      BY <1>2, <1>4, <3>1
  <2>2. DOMAIN log = {}
    BY <1>2
  <2> QED
    BY <1>3, <2>1, <2>2 DEF Past, EndsSeen
<1>6. Turns(runs, graph)
  BY <1>1 DEF Turns
<1>7. d[Len(d)] = Len(said) /\ N[Len(N)] = <<>>
  BY <1>1, <1>2
<1>8. EndsLogged(log, runs) /\ Latest(<<>>, runs, said, openTools, started)
  BY <1>1 DEF EndsLogged, Latest, IdsOf
<1>9. Agent(log, N, d)
  BY <1>5, <1>6, <1>7, <1>8 DEF Agent, AgentInv
<1>10. N[0 + 1] = <<>> /\ d[0 + 1] = 0 /\ Len(log) = 0
  BY <1>2
<1>11. ReplyOK(reply, N[0 + 1], d[0 + 1], runs, said)
  <2>1. Read(0, said, runs) = {}
    BY DEF Read
  <2> QED
    BY <1>1, <1>10, <2>1, NoText, NothingAnswers DEF ReplyOK
<1>12. SummaryOK(summary, runs, said)
  BY <1>1 DEF SummaryOK, NoSummary
<1>13. Open(log, N, 0, 0)
  <2>1. Holds(<<>>, log, 0, 0, <<>>)
    BY TailsAre, HoldsLast
  <2>2. <<>> \in ApiTails
    BY DEF ApiTails
  <2> QED
    BY <1>1, <1>10, <2>1, <2>2 DEF Open
<1>14. Passed(log, N, d, 0, 0)
  BY <1>1, <1>10, <1>11, <1>12, <1>13 DEF Passed
<1> QED
  BY <1>9, <1>14 DEF Fine

IInv == Typed /\ Fine

LEMMA Invariant == Spec => []IInv
<1>1. Init => IInv
  BY InitTyped, InitFine DEF IInv
<1>2. IInv /\ [Next]_vars => IInv'
  <2> SUFFICES ASSUME IInv, [Next]_vars PROVE IInv'
    OBVIOUS
  <2>1. Typed /\ Fine /\ Typed'
    BY StepTyped DEF IInv
  <2>2. CASE AgentStep
    BY <2>1, <2>2, AgentFine DEF IInv
  <2>3. CASE ApiStep
    BY <2>1, <2>3, FoldFine, EndFine, FailsFine, FinishFine DEF IInv, ApiStep
  <2>4. CASE Reads
    BY <2>1, <2>4, ReadsFine DEF IInv
  <2>5. CASE UNCHANGED vars
    BY <2>1, <2>5, SameFine DEF IInv
  <2> QED
    BY <2>2, <2>3, <2>4, <2>5, NextIs
<1> QED
  BY <1>1, <1>2, PTL DEF Spec

-----------------------------------------------------------------------------
(* What the browser shows is one of the lists. *)

LEMMA ShownIs ==
  ASSUME IInv
  PROVE  /\ NodesOK(shown, runs) /\ OrderOK(shown) /\ OutputOK(shown, runs)
         /\ shown \in Seq(Node) /\ DOMAIN shown = 1 .. Len(shown) /\ Len(shown) \in Nat
<1>1. PICK log, N, d, a, w : Agent(log, N, d) /\ Passed(log, N, d, a, w)
  BY DEF IInv, Fine
<1>2. shown \in Seq(Node)
  BY DEF IInv, Typed, TypeOK
<1>3. /\ a \in 0 .. Len(log) /\ w \in 0 .. Len(log) /\ 0 \in 0 .. Len(log) /\ 0 + 1 = 1
  <2>1. Len(log) \in Nat
    BY <1>1, PastTypes DEF Agent, AgentInv
  <2> QED
    BY <1>1, <2>1 DEF Passed
<1>4. \A p \in 0 .. Len(log) : ListOK(N[p + 1], d[p + 1], runs, said)
  BY <1>1, NextFrame
<1>5. N[1] = <<>>
  BY <1>1 DEF Agent, AgentInv, Past, Shape
<1>6. shown = N[w + 1] \/ shown = N[0 + 1]
  BY <1>1, <1>3, <1>5 DEF Passed, Open, Broken, Kept
<1>7. \E n : ListOK(shown, n, runs, said)
  BY <1>3, <1>4, <1>6
<1> QED
  BY <1>2, <1>7 DEF ListOK

\* Once the reply is stored, the api has read all of the log.
LEMMA StoredIs ==
  ASSUME IInv, stored # NoReply
  PROVE  /\ stored = Row(nodes)
         /\ ReplyOK(reply, nodes, Len(said), runs, said) /\ SummaryOK(summary, runs, said)
         /\ ended = "done" => shown = nodes
<1>1. PICK log, N, d, a, w : Agent(log, N, d) /\ Passed(log, N, d, a, w)
  BY DEF IInv, Fine
<1>2. Kept(log, N, a, w)
  BY <1>1 DEF Passed, Open, Broken
<1>3. a = Len(log) /\ stored = Row(nodes) /\ shown = N[w + 1] /\ nodes = N[a + 1]
  BY <1>1, <1>2 DEF Kept, Passed
<1>4. d[a + 1] = Len(said)
  <2>1. Len(d) = Len(log) + 1
    BY <1>1, PastTypes DEF Agent, AgentInv
  <2> QED
    BY <1>1, <1>3, <2>1 DEF Agent, AgentInv
<1>5. ended = "done" => w = a
  BY <1>2 DEF Kept
<1> QED
  BY <1>1, <1>3, <1>4, <1>5 DEF Passed

LEMMA DoneIsStored ==
  ASSUME IInv, ended = "done"
  PROVE  stored # NoReply
<1>1. PICK log, N, d, a, w : Agent(log, N, d) /\ Passed(log, N, d, a, w)
  BY DEF IInv, Fine
<1>2. Kept(log, N, a, w)
  BY <1>1 DEF Passed, Open, Broken
<1>3. stored = Row(nodes) /\ summary \in Summary
  BY <1>2 DEF Kept, IInv, Typed, TypeOK
<1>4. stored.summary.through \in Nat
  BY <1>3, Numbers DEF Row, Summary
<1>5. NoReply.summary.through = -1
  BY DEF NoReply
<1> QED
  BY <1>4, <1>5

-----------------------------------------------------------------------------
(* The theorems. *)

LEMMA Reloads == IInv => ReloadShowsStream
<1> SUFFICES ASSUME IInv, ended = "done"
             PROVE  IF stored.trace # <<>> THEN shown = stored.trace
                    ELSE stored.content = FlattenSeq([i \in DOMAIN shown |-> shown[i].text])
  BY DEF ReloadShowsStream
<1>1. stored = Row(nodes) /\ ReplyOK(reply, nodes, Len(said), runs, said) /\ shown = nodes
  BY DoneIsStored, StoredIs
<1>2. PICK L : L = shown
  OBVIOUS
<1>3. /\ stored.trace = IF \E i \in DOMAIN L : L[i].id[2] # "text" \/ L[i].parent # NoNode
                          THEN L ELSE <<>>
      /\ stored.content = reply
  BY <1>1, <1>2 DEF Row
<1>4. CASE \E i \in DOMAIN L : L[i].id[2] # "text" \/ L[i].parent # NoNode
  BY <1>2, <1>3, <1>4
<1>5. CASE \A i \in DOMAIN L : L[i].id[2] = "text" /\ L[i].parent = NoNode
  <2>1. AnswerTexts(L) = [i \in DOMAIN L |-> L[i].text]
    BY <1>5 DEF AnswerTexts
  <2>2. AnswerText(L) = FlattenSeq(AnswerTexts(L)) /\ AnswerText(L) = reply
    BY <1>1, <1>2, AnswerTextsAre, ShownIs DEF ReplyOK
  <2>3. stored.content = FlattenSeq([i \in DOMAIN L |-> L[i].text])
    BY <1>3, <2>1, <2>2
  <2>4. stored.trace = <<>>
    BY <1>3, <1>5
  <2> QED
    BY <1>2, <2>3, <2>4
<1> QED
  BY <1>4, <1>5

LEMMA Nests == IInv => NestedAsRun
<1> SUFFICES ASSUME IInv PROVE NestedAsRun
  OBVIOUS
<1>1. PICK L, n : L = shown /\ n = Len(L)
  OBVIOUS
<1>2. NodesOK(L, runs) /\ L \in Seq(Node) /\ DOMAIN L = 1 .. n /\ n \in Nat
  BY <1>1, ShownIs
<1>3. PICK sc : sc = [i \in 1 .. n |-> runs[L[i].id[1]].scope]
  OBVIOUS
<1>4. ASSUME NEW i \in 1 .. n
      PROVE  L[i].id = <<L[i].id[1], L[i].id[2]>> /\ L[i].id[1] # 0 /\ L[i].id # NoNode
  <2>1. L[i] \in Node
    BY <1>2
  <2>2. L[i].id \in NodeId
    BY <2>1 DEF Node
  <2> QED
    BY <2>2 DEF NodeId, RunIds, Parts, NoNode
<1>5. ASSUME NEW i \in 1 .. n
      PROVE  /\ Under(L, i) = ParentOf(sc[i])
             /\ sc[i] # 0 => \E j \in 1 .. n : j < i /\ L[j].id = <<sc[i], "tool">>
  <2>1. /\ L[i].parent = ParentOf(sc[i])
        /\ sc[i] # 0 => \E j \in DOMAIN L : j < i /\ L[j].id = <<sc[i], "tool">>
    BY <1>2, <1>3 DEF NodesOK
  <2>2. CASE sc[i] = 0
    BY <2>1, <2>2 DEF Under, ParentOf
  <2>3. CASE sc[i] # 0
    BY <1>2, <2>1, <2>3 DEF Under, ParentOf
  <2> QED
    BY <2>2, <2>3
<1>6. \A i \in 1 .. n : ParentOf(sc[i]) = NoNode <=> sc[i] = 0
  BY DEF ParentOf, NoNode
<1>7. Roots(L) = {i \in DOMAIN L : runs[L[i].id[1]].scope = 0}
  BY <1>2, <1>3, <1>5, <1>6 DEF Roots, Children
<1>8. ASSUME NEW i \in DOMAIN L
      PROVE  Children(L, L[i].id) =
               {j \in i + 1 .. n : /\ runs[L[j].id[1]].scope = L[i].id[1]
                                   /\ L[i].id[2] = "tool"}
  <2>1. i \in 1 .. n
    BY <1>2
  <2>2. ASSUME NEW j \in 1 .. n
        PROVE  Under(L, j) = L[i].id <=> j \in i + 1 .. n /\ sc[j] = L[i].id[1] /\ L[i].id[2] = "tool"
    <3>1. ASSUME Under(L, j) = L[i].id
          PROVE  j \in i + 1 .. n /\ sc[j] = L[i].id[1] /\ L[i].id[2] = "tool"
      <4>1. sc[j] # 0 /\ L[i].id = <<sc[j], "tool">>
        BY <1>4, <1>5, <2>1, <3>1 DEF ParentOf
      <4>2. PICK k \in 1 .. n : k < j /\ L[k].id = L[i].id
        BY <1>5, <4>1
      <4>3. k = i
        <5>1. \A k1, k2 \in DOMAIN L : L[k1].id = L[k2].id => k1 = k2
          BY <1>2 DEF NodesOK
        <5> QED
          BY <1>2, <4>2, <5>1
      <4>4. j \in i + 1 .. n
        BY <1>2, <2>1, <4>2, <4>3
      <4> QED
        BY <4>1, <4>4
    <3>2. ASSUME sc[j] = L[i].id[1], L[i].id[2] = "tool"
          PROVE  Under(L, j) = L[i].id
      <4>1. L[i].id = <<sc[j], "tool">> /\ sc[j] # 0
        BY <1>4, <2>1, <3>2
      <4> QED
        BY <1>5, <4>1 DEF ParentOf
    <3> QED
      BY <3>1, <3>2
  <2>3. \A j \in i + 1 .. n : j \in 1 .. n
    BY <1>2, <2>1
  <2>4. \A j \in 1 .. n : sc[j] = runs[L[j].id[1]].scope
    BY <1>3
  <2> QED
    BY <1>2, <2>2, <2>3, <2>4 DEF Children
<1> QED
  BY <1>1, <1>7, <1>8 DEF NestedAsRun

LEMMA Stores == IInv => StoredAsSaid
<1> SUFFICES ASSUME IInv, stored # NoReply
             PROVE  /\ InOrder(stored.content,
                         {i \in DOMAIN said : said[i][2] = "text" /\ runs[said[i][1]].scope = 0})
                    /\ stored.summary.text # <<>> =>
                         LET r == stored.summary.through IN
                           /\ r # 0 /\ runs[r].scope = 0
                           /\ InOrder(stored.summary.text,
                                      {i \in DOMAIN said : said[i] = <<r, "compaction">>})
  BY DEF StoredAsSaid
<1>1. /\ stored = Row(nodes) /\ ReplyOK(reply, nodes, Len(said), runs, said)
      /\ SummaryOK(summary, runs, said)
  BY StoredIs
<1>2. stored.content = reply /\ stored.summary = summary
  BY <1>1 DEF Row
<1>3. DOMAIN said = 1 .. Len(said)
  BY DEF IInv, Typed, TypeOK
<1>4. InOrder(reply, {i \in DOMAIN said : said[i][2] = "text" /\ runs[said[i][1]].scope = 0})
  BY <1>1, <1>3 DEF ReplyOK, Read
<1> QED
  BY <1>1, <1>2, <1>4 DEF SummaryOK

EndIn(q, id) == \E k \in DOMAIN q : q[k].event = "node_end" /\ q[k].id = id

\* A frame of the log after i of them is on its way, or the end is.
LEMMA EndHeld ==
  ASSUME NEW q \in Seq(Frame), NEW log, NEW i \in Nat, NEW j \in Nat, NEW t \in Seq(Frame),
         Holds(q, log, i, j, t), NEW p \in i + 1 .. j, NEW id,
         log[p].event = "node_end", log[p].id = id
  PROVE  EndIn(q, id)
<1>1. PICK k : k = p - i
  OBVIOUS
<1>2. k \in 1 .. j - i /\ i + k = p
  BY <1>1
<1>3. k \in DOMAIN q
  BY <1>2 DEF Holds
<1>4. q[k] = log[p]
  BY <1>2 DEF Holds
<1> QED
  BY <1>3, <1>4 DEF EndIn

LEMMA ErrorHeld ==
  ASSUME NEW log, NEW i \in Nat, NEW j \in Nat, i <= j, toWeb \in Seq(Frame),
         Holds(toWeb, log, i, j, WebTail("error"))
  PROVE  Failing
<1>1. PICK k : k = j - i + 1
  OBVIOUS
<1>2. Len(WebTail("error")) = 2 /\ WebTail("error")[1].event = "error"
  BY TailsAre DEF WebTail
<1>3. Len(toWeb) = j - i + 2 /\ toWeb[j - i + 1] = WebTail("error")[1]
  <2>1. PICK t : t = WebTail("error")
    OBVIOUS
  <2>2. Len(toWeb) = j - i + Len(t) /\ \A c \in 1 .. Len(t) : toWeb[j - i + c] = t[c]
    BY <2>1 DEF Holds
  <2>3. Len(t) = 2 /\ 1 \in 1 .. Len(t)
    BY <1>2, <2>1
  <2> QED
    BY <2>1, <2>2, <2>3
<1>4. k \in DOMAIN toWeb
  BY <1>1, <1>3
<1> QED
  BY <1>1, <1>2, <1>3, <1>4 DEF Failing

\* The end of a step that ended was seen, or is on its way.
LEMMA EndComes ==
  ASSUME IInv, ended = "no", NEW i \in DOMAIN shown, shown[i].id[2] \in {"compaction", "tool"},
         runs[shown[i].id[1]].at = "ended", shown[i].output = NoOutput
  PROVE  EndIn(toApi, shown[i].id) \/ EndIn(toWeb, shown[i].id) \/ Failing
<1>1. PICK log, N, d, a, w : Agent(log, N, d) /\ Passed(log, N, d, a, w)
  BY DEF IInv, Fine
<1>2. PICK id, r : id = shown[i].id /\ r = id[1]
  OBVIOUS
<1>3. id = <<r, PartOfEnd(runs[r].kind)>> /\ r \in DOMAIN runs /\ runs[r].kind # "model"
  <2>1. /\ r \in DOMAIN runs
        /\ id[2] = "tool" => runs[r].kind \in ToolKinds
        /\ id[2] = "compaction" => runs[r].kind = "summarizer"
    BY <1>2, ShownIs DEF NodesOK
  <2>2. id \in NodeId
    <3>1. shown[i] \in Node
      BY ShownIs
    <3> QED
      BY <1>2, <3>1 DEF Node
  <2>3. id = <<id[1], id[2]>>
    BY <2>2 DEF NodeId
  <2> QED
    BY <1>2, <2>1, <2>3 DEF PartOfEnd, ToolKinds
<1>4. PICK q \in DOMAIN log : log[q].event = "node_end" /\ log[q].id = id
  BY <1>1, <1>2, <1>3 DEF Agent, AgentInv, EndsLogged
<1>5. /\ log \in Seq(Frame) /\ Len(log) \in Nat /\ DOMAIN log = 1 .. Len(log)
      /\ DOMAIN N = 1 .. Len(log) + 1 /\ q \in 1 .. Len(log)
  BY <1>1, <1>4, PastTypes DEF Agent, AgentInv
<1>6. a \in Nat /\ w \in Nat /\ w <= a /\ a <= Len(log) /\ w + 1 \in DOMAIN N
  <2>1. a \in 0 .. Len(log) /\ w \in 0 .. a
    BY <1>1 DEF Passed
  <2> QED
    BY <1>5, <2>1
<1>7. shown = N[w + 1]
  BY <1>1 DEF Passed, Open, Broken, Kept
<1>8. ~ (q < w + 1)
  <2>1. EndsSeen(log, N)
    BY <1>1 DEF Agent, AgentInv, Past
  <2> QED
    BY <1>2, <1>4, <1>6, <1>7, <2>1 DEF EndsSeen
<1>9. toWeb \in Seq(Frame) /\ toApi \in Seq(Frame)
  BY DEF IInv, Typed, TypeOK
<1>10. ASSUME NEW t \in Seq(Frame), Holds(toWeb, log, w, a, t), q <= a
       PROVE  EndIn(toWeb, id)
  <2>1. q \in w + 1 .. a
    BY <1>5, <1>6, <1>8, <1>10
  <2> QED
    BY <1>4, <1>6, <1>9, <1>10, <2>1, EndHeld
<1>11. CASE Open(log, N, a, w)
  <2>1. CASE q <= a
    BY <1>2, <1>10, <1>11, <2>1, TailsAre DEF Open
  <2>2. CASE q > a
    <3>1. PICK t \in ApiTails : Holds(toApi, log, a, Len(log), t)
      BY <1>11 DEF Open
    <3>2. t \in Seq(Frame) /\ q \in a + 1 .. Len(log)
      BY <1>5, <1>6, <2>2, <3>1, TailsAre
    <3> QED
      BY <1>2, <1>4, <1>5, <1>6, <1>9, <3>1, <3>2, EndHeld
  <2> QED
    BY <1>5, <1>6, <2>1, <2>2
<1>12. CASE Broken(log, N, a, w)
  <2>1. Holds(toWeb, log, w, a, WebTail("error"))
    BY <1>12 DEF Broken, WebTail
  <2> QED
    BY <1>6, <1>9, <2>1, ErrorHeld
<1>13. CASE Kept(log, N, a, w)
  <2>1. Holds(toWeb, log, w, a, WebTail("done")) /\ a = Len(log)
    BY <1>13 DEF Kept, WebTail
  <2>2. q <= a
    BY <1>5, <2>1
  <2> QED
    BY <1>2, <1>10, <2>1, <2>2, WebTails
<1> QED
  BY <1>1, <1>11, <1>12, <1>13 DEF Passed

LEMMA Pulses == IInv => PulsesAsRuns
<1> SUFFICES ASSUME IInv PROVE PulsesAsRuns
  OBVIOUS
<1>1. ASSUME NEW i \in StepRows(shown)
      PROVE  /\ TurnStreaming /\ runs[shown[i].id[1]].at # "ended" => Active(shown, i)
             /\ Active(shown, i) => TurnStreaming
             /\ Active(shown, i) /\ runs[shown[i].id[1]].at = "ended" =>
                  EndIn(toApi, shown[i].id) \/ EndIn(toWeb, shown[i].id) \/ Failing
  <2>1. i \in DOMAIN shown /\ shown[i].id[2] \in {"compaction", "tool"}
    BY <1>1 DEF StepRows
  <2>2. shown[i].output # NoOutput => runs[shown[i].id[1]].at = "ended"
    BY <2>1, ShownIs DEF OutputOK
  <2> QED
    BY <2>1, <2>2, EndComes DEF Active, TurnStreaming
<1> QED
  BY <1>1 DEF PulsesAsRuns, EndIn

-----------------------------------------------------------------------------
(* The plan that is docked. *)

Plans(L) == {i \in DOMAIN L : L[i].id[2] = "tool" /\ runs[L[i].id[1]].kind = "todo"}

LEMMA PlansAre ==
  ASSUME NEW L \in Seq(Node), NEW i \in DOMAIN L
  PROVE  /\ L[i].id[1] \in Nat /\ L[i].id[1] # 0
         /\ (i \in Todos(L) /\ PlanFromNode(L, i) # 0) <=> i \in Plans(L)
         /\ i \in Plans(L) => PlanFromNode(L, i) = L[i].id[1]
<1>1. L[i] \in Node
  OBVIOUS
<1>2. L[i].id \in NodeId
  BY <1>1 DEF Node
<1>3. L[i].id[1] \in Nat /\ L[i].id[1] # 0
  BY <1>2, RunLogAssumption DEF NodeId, RunIds
<1> QED
  BY <1>3 DEF Todos, PlanFromNode, Plans

\* f is the plan after each node.
PlanIs(f, L) ==
  /\ f[0] = 0
  /\ \A i \in 1 .. Len(L) : f[i] = IF i \in Plans(L) THEN L[i].id[1] ELSE f[i - 1]

LEMMA LatestIs ==
  ASSUME NEW L \in Seq(Node)
  PROVE  \E f : PlanIs(f, L) /\ LatestPlan(L) = f[Len(L)]
<1>1. PICK n \in Nat : n = Len(L)
  OBVIOUS
<1>2. DOMAIN L = 1 .. n
  BY <1>1
<1>3. PICK G : G = [p \in (1 .. n) \X Nat |-> IF p[1] \in Plans(L) THEN L[p[1]].id[1] ELSE p[2]]
  OBVIOUS
<1>4. G \in [(1 .. n) \X Nat -> Nat]
  <2>1. \A p \in (1 .. n) \X Nat :
          (IF p[1] \in Plans(L) THEN L[p[1]].id[1] ELSE p[2]) \in Nat
    BY <1>2, PlansAre
  <2> QED
    BY <1>3, <2>1
<1>5. PICK f \in [0 .. n -> Nat] : Recursion(f, n, 0, G)
  BY <1>4, Recurs
<1>6. \A i \in 1 .. n : f[i] = IF i \in Plans(L) THEN L[i].id[1] ELSE f[i - 1]
  <2>1. ASSUME NEW i \in 1 .. n
        PROVE  f[i] = IF i \in Plans(L) THEN L[i].id[1] ELSE f[i - 1]
    <3>1. f[i - 1] \in Nat
      <4>1. i - 1 \in 0 .. n
        OBVIOUS
      <4> QED
        BY <1>5, <4>1
    <3>2. f[i] = G[<<i, f[i - 1]>>]
      BY <1>5 DEF Recursion
    <3> QED
      BY <1>3, <3>1, <3>2
  <2> QED
    BY <2>1
<1>7. f[0] = 0
  BY <1>5 DEF Recursion
<1>8. f = [i \in 0 .. n |->
             IF i = 0 THEN 0
             ELSE IF i \in Todos(L) /\ PlanFromNode(L, i) # 0 THEN PlanFromNode(L, i)
             ELSE f[i - 1]]
  <2>1. ASSUME NEW i \in 0 .. n
        PROVE  f[i] = IF i = 0 THEN 0
                      ELSE IF i \in Todos(L) /\ PlanFromNode(L, i) # 0 THEN PlanFromNode(L, i)
                      ELSE f[i - 1]
    <3>1. CASE i = 0
      BY <1>7, <3>1
    <3>2. CASE i # 0
      <4>1. i \in 1 .. n /\ i \in DOMAIN L
        BY <1>2, <3>2
      <4> QED
        BY <1>6, <3>2, <4>1, PlansAre
    <3> QED
      BY <3>1, <3>2
  <2> QED
    BY <1>5, <2>1
<1>9. LatestPlan(L) =
        (CHOOSE g : g = [i \in 0 .. Len(L) |->
                           IF i = 0 THEN 0
                           ELSE IF i \in Todos(L) /\ PlanFromNode(L, i) # 0 THEN PlanFromNode(L, i)
                           ELSE g[i - 1]])[Len(L)]
  BY DEF LatestPlan
<1>10. PICK g : /\ g = [i \in 0 .. n |->
                          IF i = 0 THEN 0
                          ELSE IF i \in Todos(L) /\ PlanFromNode(L, i) # 0 THEN PlanFromNode(L, i)
                          ELSE g[i - 1]]
                /\ LatestPlan(L) = g[n]
  <2>1. PICK g : g = CHOOSE k : k = [i \in 0 .. n |->
                          IF i = 0 THEN 0
                          ELSE IF i \in Todos(L) /\ PlanFromNode(L, i) # 0 THEN PlanFromNode(L, i)
                          ELSE k[i - 1]]
    OBVIOUS
  <2>2. g = [i \in 0 .. n |->
               IF i = 0 THEN 0
               ELSE IF i \in Todos(L) /\ PlanFromNode(L, i) # 0 THEN PlanFromNode(L, i)
               ELSE g[i - 1]]
    BY <1>8, <2>1
  <2>3. LatestPlan(L) =
        (CHOOSE k : k = [i \in 0 .. n |->
                           IF i = 0 THEN 0
                           ELSE IF i \in Todos(L) /\ PlanFromNode(L, i) # 0 THEN PlanFromNode(L, i)
                           ELSE k[i - 1]])[n]
    BY <1>1, <1>9
  <2>4. LatestPlan(L) = g[n]
    BY Zenon, <2>1, <2>3
  <2> QED
    BY <2>2, <2>4
<1>11. PlanIs(g, L)
  <2>1. g[0] = 0
    BY <1>10
  <2>2. ASSUME NEW i \in 1 .. n
        PROVE  g[i] = IF i \in Plans(L) THEN L[i].id[1] ELSE g[i - 1]
    <3>1. i \in 0 .. n /\ i # 0 /\ i \in DOMAIN L
      BY <1>2
    <3>2. g[i] = IF i \in Todos(L) /\ PlanFromNode(L, i) # 0 THEN PlanFromNode(L, i) ELSE g[i - 1]
      BY <1>10, <3>1
    <3> QED
      BY <3>1, <3>2, PlansAre
  <2> QED
    BY <1>1, <2>1, <2>2 DEF PlanIs
<1> QED
  BY <1>1, <1>10, <1>11

\* The last of the plans, as tools come in the order of their runs.
LEMMA LatestIsLast ==
  ASSUME NEW L \in Seq(Node), OrderOK(L)
  PROVE  /\ Plans(L) = {} => LatestPlan(L) = 0
         /\ Plans(L) # {} => /\ \E i \in Plans(L) : LatestPlan(L) = L[i].id[1]
                             /\ \A i \in Plans(L) : L[i].id[1] <= LatestPlan(L)
<1>1. PICK n \in Nat : n = Len(L)
  OBVIOUS
<1>2. DOMAIN L = 1 .. n
  BY <1>1
<1>3. PICK f : PlanIs(f, L) /\ LatestPlan(L) = f[n]
  BY <1>1, LatestIs
<1>4. PICK T : T = {i \in 0 .. n :
                      \/ f[i] = 0 /\ \A k \in 1 .. i : k \notin Plans(L)
                      \/ /\ \E k \in 1 .. i : k \in Plans(L) /\ f[i] = L[k].id[1]
                         /\ \A k \in 1 .. i : k \in Plans(L) => L[k].id[1] <= f[i]}
  OBVIOUS
<1>5. 0 \in T /\ 0 \in 0 .. n
  BY <1>3, <1>4 DEF PlanIs
<1>6. ASSUME NEW i \in 0 + 1 .. n, i - 1 \in T
      PROVE  i \in T
  <2>1. /\ i \in 1 .. n /\ i \in 0 .. n /\ i \in DOMAIN L
        /\ \A k \in 1 .. i : k \in 1 .. i - 1 \/ k = i
        /\ \A k \in 1 .. i - 1 : k \in 1 .. i /\ k < i
        /\ i \in 1 .. i
    BY <1>2, <1>6
  <2>2. f[i] = IF i \in Plans(L) THEN L[i].id[1] ELSE f[i - 1]
    BY <1>1, <1>3, <2>1 DEF PlanIs
  <2>3. CASE i \in Plans(L)
    <3>1. \A k \in 1 .. i - 1 : k \in Plans(L) => L[k].id[1] < L[i].id[1]
      BY <2>1, <2>3 DEF Plans, Tools, OrderOK
    <3>2. L[i].id[1] \in Nat /\ f[i] = L[i].id[1]
      BY <2>1, <2>2, <2>3, PlansAre
    <3>3. \A k \in 1 .. i : k \in Plans(L) => L[k].id[1] <= f[i]
      <4>1. ASSUME NEW k \in 1 .. i, k \in Plans(L)
            PROVE  L[k].id[1] <= f[i]
        <5>1. CASE k = i
          BY <3>2, <5>1
        <5>2. CASE k # i
          <6>1. L[k].id[1] < L[i].id[1] /\ k \in DOMAIN L
            BY <2>1, <3>1, <4>1, <5>2 DEF Plans
          <6>2. L[k].id[1] \in Nat
            BY <6>1, PlansAre
          <6> QED
            BY <3>2, <6>1, <6>2
        <5> QED
          BY <5>1, <5>2
      <4> QED
        BY <4>1
    <3> QED
      BY <1>4, <2>1, <2>3, <3>2, <3>3
  <2>4. CASE i \notin Plans(L)
    <3>1. f[i] = f[i - 1]
      BY <2>2, <2>4
    <3>2. \A k \in 1 .. i : k \in Plans(L) => k \in 1 .. i - 1
      BY <2>1, <2>4
    <3> QED
      BY <1>4, <1>6, <2>1, <3>1, <3>2
  <2> QED
    BY <2>3, <2>4
<1>7. \A i \in 0 .. n : i \in T
  BY <1>5, <1>6, UpTo
<1>8. n \in T /\ Plans(L) \subseteq 1 .. n
  BY <1>2, <1>7 DEF Plans
<1>9. CASE Plans(L) = {}
  BY <1>3, <1>4, <1>8, <1>9
<1>10. CASE Plans(L) # {}
  <2>1. PICK p : p = LatestPlan(L)
    OBVIOUS
  <2>2. /\ \E k \in 1 .. n : k \in Plans(L) /\ p = L[k].id[1]
        /\ \A k \in 1 .. n : k \in Plans(L) => L[k].id[1] <= p
    BY <1>3, <1>4, <1>8, <1>10, <2>1
  <2> QED
    BY <1>8, <1>10, <2>1, <2>2
<1> QED
  BY <1>9, <1>10

LEMMA Copies == IInv => CopyIsReply
<1> SUFFICES ASSUME IInv PROVE CopyIsReply
  OBVIOUS
<1>1. ended = "done" => AnswerText(shown) = stored.content
  BY DoneIsStored, StoredIs DEF Row, ReplyOK
<1>2. PICK L : L = shown
  OBVIOUS
<1>3. L \in Seq(Node) /\ NodesOK(L, runs) /\ OrderOK(L)
  BY <1>2, ShownIs
<1>4. PICK plans : plans = {r \in DOMAIN runs : /\ runs[r].kind = "todo"
                                                /\ Find(L, <<r, "tool">>) # {}}
  OBVIOUS
<1>5. ASSUME NEW i \in Plans(L)
      PROVE  L[i].id[1] \in plans
  <2>1. PICK r : r = L[i].id[1]
    OBVIOUS
  <2>2. i \in DOMAIN L /\ L[i].id[2] = "tool" /\ runs[r].kind = "todo" /\ r \in DOMAIN runs
    BY <1>3, <1>5, <2>1 DEF Plans, NodesOK
  <2>3. L[i] \in Node
    BY <1>3, <2>2
  <2>4. L[i].id = <<r, "tool">>
    BY <2>1, <2>2, <2>3 DEF Node, NodeId
  <2> QED
    BY <1>4, <2>1, <2>2, <2>4 DEF Find
<1>6. ASSUME NEW r \in plans
      PROVE  \E i \in Plans(L) : L[i].id[1] = r
  <2>1. PICK i \in Find(L, <<r, "tool">>) : TRUE
    BY <1>4, <1>6
  <2>2. i \in DOMAIN L /\ L[i].id = <<r, "tool">> /\ runs[r].kind = "todo"
    BY <1>4, <1>6, <2>1 DEF Find
  <2> QED
    BY <2>2 DEF Plans
<1>7. IF plans = {} THEN LatestPlan(L) = 0
      ELSE LatestPlan(L) \in plans /\ \A r \in plans : r <= LatestPlan(L)
  <2>1. plans = {} <=> Plans(L) = {}
    BY <1>5, <1>6
  <2> QED
    BY <1>3, <1>5, <1>6, <2>1, LatestIsLast
<1> QED
  BY <1>1, <1>2, <1>4, <1>7 DEF CopyIsReply

(***************************************************************************)
(* What a page shows of a reply when it is loaded again is what it showed  *)
(* when the reply was streamed, however far the browser was behind the api *)
(* and the api behind the agent: both folded the same log.                 *)
(***************************************************************************)
THEOREM ReloadIsStream == Spec => []ReloadShowsStream
BY Invariant, Reloads, PTL

(***************************************************************************)
(* Every step is drawn once, in the row of the tool it ran in and after    *)
(* that row, for any number of tools and subagents at the same time.       *)
(***************************************************************************)
THEOREM StepsAreNested == Spec => []NestedAsRun
BY Invariant, Nests, PTL

(***************************************************************************)
(* The stored reply is the agent's own text, chunk by chunk in the order   *)
(* it was streamed in, and the stored summary is its run's, complete.      *)
(***************************************************************************)
THEOREM StoredIsSaid == Spec => []StoredAsSaid
BY Invariant, Stores, PTL

(***************************************************************************)
(* A step that ended pulses only while its end, or the error that clears   *)
(* the message, is on its way, and none after the message ended.           *)
(***************************************************************************)
THEOREM StepsPulse == Spec => []PulsesAsRuns
BY Invariant, Pulses, PTL

(***************************************************************************)
(* The copied text of a finished reply is the stored one, and the docked   *)
(* plan that of the last set_todos call with one.                          *)
(***************************************************************************)
THEOREM CopiedIsStored == Spec => []CopyIsReply
BY Invariant, Copies, PTL
=============================================================================
