---------------------------- MODULE AgentRunProofs ----------------------------
(***************************************************************************)
(* Theorems about a run of the agent, for every conversation, threshold,   *)
(* budget and limit: its messages stand for the whole conversation that no *)
(* lost summary took away, what a model is given has every call with its   *)
(* results and keeps within the context window, and the run is the stream  *)
(* that a Send of the api expects.                                         *)
(*                                                                         *)
(* What the fold in Size comes to is proved from the least set, or the     *)
(* shortest suffix, for which it would not: induction by Least.            *)
(***************************************************************************)
EXTENDS AgentRun, FiniteSetTheorems, WellFoundedInduction, TLAPS

-----------------------------------------------------------------------------
(* Where the history is cut. *)

LEMMA Least ==
  ASSUME NEW S, S \subseteq Nat, S # {}
  PROVE  \E m \in S : \A k \in S : m <= k
<1>1. PICK R : R = OpToRel(<, Nat)
  OBVIOUS
<1>2. IsWellFoundedOn(R, Nat)
  BY <1>1, NatLessThanWellFounded
<1>3. \A a, b \in Nat : a < b => <<a, b>> \in R
  BY <1>1 DEF OpToRel
<1>4. PICK x \in S : \A y \in S : ~ (<<y, x>> \in R)
  BY <1>2, WFMin
<1>5. \A y \in S : ~ (y < x)
  BY <1>3, <1>4
<1> QED
  BY <1>5

LEMMA Greatest ==
  ASSUME NEW n \in Nat, NEW S, S \subseteq 0 .. n, S # {}
  PROVE  \E m \in S : \A k \in S : k <= m
<1>1. PICK D : D = {n - k : k \in S}
  OBVIOUS
<1>2. D \subseteq Nat /\ D # {}
  <2>1. \A k \in S : k \in Nat /\ n - k \in Nat
    OBVIOUS
  <2> QED
    BY <1>1, <2>1
<1>3. PICK d \in D : \A e \in D : d <= e
  BY <1>2, Least
<1>4. PICK m \in S : d = n - m
  BY <1>1, <1>3
<1>5. ASSUME NEW k \in S
      PROVE  k <= m
  <2>1. n - k \in D
    BY <1>1
  <2> QED
    BY <1>3, <1>4, <2>1
<1> QED
  BY <1>5

LEMMA NewestType ==
  ASSUME NEW s \in Seq(Message), Len(s) >= 1
  PROVE  Newest(s) \in 1 .. Len(s) /\ Fits(s, Newest(s))
<1>1. PICK S : S = {k \in 1 .. Len(s) : Fits(s, k)}
  OBVIOUS
<1>2. S \subseteq Nat /\ Len(s) \in S
  BY <1>1 DEF Fits
<1>3. PICK k \in S : \A j \in S : k <= j
  BY <1>2, Least
<1>4. k \in 1 .. Len(s) /\ Fits(s, k) /\ \A j \in 1 .. k - 1 : ~ Fits(s, j)
  BY <1>1, <1>3
<1> QED
  BY <1>4 DEF Newest

\* From the newest that fit, the cut goes back over the results of a call.
LEMMA CutIs ==
  ASSUME NEW s \in Seq(Message), Len(s) >= 1
  PROVE  /\ Cut(s) \in 1 .. Newest(s) /\ (Cut(s) = 1 \/ s[Cut(s)].kind # "tool")
         /\ \A i \in Cut(s) + 1 .. Newest(s) : s[i].kind = "tool"
<1>1. PICK n : n = Newest(s)
  OBVIOUS
<1>2. n \in 1 .. Len(s)
  BY <1>1, NewestType
<1>3. PICK S : S = {j \in 1 .. n : j = 1 \/ s[j].kind # "tool"}
  OBVIOUS
<1>4. n \in Nat /\ S \subseteq 0 .. n /\ 1 \in S
  BY <1>2, <1>3
<1>5. PICK j \in S : \A k \in S : k <= j
  BY <1>4, Greatest
<1>6. \A i \in j + 1 .. n : s[i].kind = "tool"
  <2>1. TAKE i \in j + 1 .. n
  <2>2. i \in 1 .. n /\ i # 1 /\ i \notin S
    BY <1>2, <1>3, <1>5
  <2> QED
    BY <1>3, <2>2
<1>7. j \in 1 .. n /\ (j = 1 \/ s[j].kind # "tool")
  BY <1>3
<1>8. /\ Cut(s) \in 1 .. n /\ (Cut(s) = 1 \/ s[Cut(s)].kind # "tool")
      /\ \A i \in Cut(s) + 1 .. n : s[i].kind = "tool"
  BY <1>1, <1>6, <1>7, Zenon DEF Cut
<1> QED
  BY <1>1, <1>8

\* The cut is a message, and no result of a call unless it is the first.
LEMMA CutType ==
  ASSUME NEW s \in Seq(Message), Len(s) >= 1
  PROVE  Cut(s) \in 1 .. Len(s) /\ (Cut(s) = 1 \/ s[Cut(s)].kind # "tool")
BY NewestType, CutIs

LEMMA FoldedMessages ==
  ASSUME NEW s \in Seq(Message), Len(s) >= 1
  PROVE  /\ Folded(s) \in Seq(Message) /\ Len(Folded(s)) = Cut(s) - 1
         /\ \A i \in 1 .. Cut(s) - 1 : Folded(s)[i] = s[i]
<1>1. PICK c : c = Cut(s)
  OBVIOUS
<1>2. c \in 1 .. Len(s)
  BY <1>1, CutType
<1>3. /\ SubSeq(s, 1, c - 1) \in Seq(Message) /\ Len(SubSeq(s, 1, c - 1)) = c - 1
      /\ \A i \in 1 .. c - 1 : SubSeq(s, 1, c - 1)[i] = s[i]
  BY <1>2
<1> QED
  BY <1>1, <1>3 DEF Folded

\* A summary and the messages that are kept.
LEMMA Compacted ==
  ASSUME NEW s \in Seq(Message), Len(s) >= 1, NEW t \in Message
  PROVE  LET c == Cut(s)
             n == <<t>> \o Kept(s)
         IN  /\ n \in Seq(Message) /\ Len(n) = Len(s) - c + 2 /\ n[1] = t
             /\ \A i \in 2 .. Len(n) : n[i] = s[c + i - 2]
<1>1. PICK c : c = Cut(s)
  OBVIOUS
<1>2. c \in 1 .. Len(s)
  BY <1>1, CutType
<1>3. PICK k : k = SubSeq(s, c, Len(s))
  OBVIOUS
<1>4. /\ k \in Seq(Message) /\ Len(k) = Len(s) - c + 1
      /\ \A i \in 1 .. Len(k) : k[i] = s[c + i - 1]
  BY <1>2, <1>3
<1>5. PICK n : n = <<t>> \o k
  OBVIOUS
<1>6. /\ n \in Seq(Message) /\ Len(n) = Len(k) + 1 /\ n[1] = t
      /\ \A i \in 2 .. Len(n) : n[i] = k[i - 1]
  BY <1>4, <1>5
<1>7. Len(n) = Len(s) - c + 2 /\ \A i \in 2 .. Len(n) : n[i] = s[c + i - 2]
  BY <1>2, <1>4, <1>6
<1>8. n = <<t>> \o Kept(s)
  BY <1>1, <1>3, <1>5 DEF Kept, Suffix
<1> QED
  BY <1>1, <1>6, <1>7, <1>8

-----------------------------------------------------------------------------
(* Types. *)

Typed == TypeOK /\ Len(messages) >= 1 /\ searches <= MaxSearches

\* What a step appends stands for no row.
Added(m) == m.row = 0 /\ m.stands = {}

LEMMA MessageTypes ==
  ASSUME NEW size \in Sizes
  PROVE  /\ \A st \in SUBSET Ids : /\ Turn(0, size, st) \in Message
                                   /\ Turn(0, size, st).kind = "turn"
                                   /\ Turn(0, size, st).calls = 0
                                   /\ Turn(0, size, st).row = 0
                                   /\ Turn(0, size, st).stands = st
         /\ \A n \in 0 .. MaxCalls : /\ Calling(n, size) \in Message
                                     /\ Calling(n, size).kind = "calls"
                                     /\ Calling(n, size).calls = n
                                     /\ Added(Calling(n, size))
         /\ Result(size) \in Message /\ Result(size).kind = "tool"
         /\ Result(size).calls = 0 /\ Added(Result(size))
BY RunAssumption DEF Turn, Calling, Result, Message, Added

LEMMA StandsOf == \A s, a : a \in Stands(s) <=> \E i \in 1 .. Len(s) : a \in s[i].stands
BY DEF Stands

LEMMA StandsType ==
  ASSUME NEW s \in Seq(Message)
  PROVE  Stands(s) \subseteq Ids
<1>1. \A i \in 1 .. Len(s) : s[i] \in Message
  OBVIOUS
<1> QED
  BY <1>1, StandsOf DEF Message

\* The newest of the rows, or none.
LEMMA NewestRowIs ==
  ASSUME NEW s \in Seq(Message)
  PROVE  \/ NewestRow(s) = 0 /\ \A i \in 1 .. Len(s) : s[i].row = 0
         \/ /\ NewestRow(s) \in Ids
            /\ \E p \in 1 .. Len(s) : s[p].row = NewestRow(s)
            /\ \A q \in 1 .. Len(s) : s[q].row <= NewestRow(s)
<1>1. \A i \in 1 .. Len(s) : s[i].row \in 0 .. Rows
  <2>1. \A i \in 1 .. Len(s) : s[i] \in Message
    OBVIOUS
  <2> QED
    BY <2>1 DEF Message
<1>2. CASE RowsIn(s) = {}
  BY <1>2 DEF RowsIn, NewestRow
<1>3. CASE RowsIn(s) # {}
  <2>1. PICK S : S = RowsIn(s)
    OBVIOUS
  <2>2. S \subseteq 0 .. Rows /\ S # {}
    BY <1>1, <1>3, <2>1 DEF RowsIn
  <2>3. PICK m \in S : \A k \in S : k <= m
    BY <2>2, Greatest, RunAssumption
  <2>4. NewestRow(s) \in S /\ \A k \in S : k <= NewestRow(s)
    BY <1>3, <2>1, <2>3 DEF NewestRow
  <2>5. PICK r : r = NewestRow(s)
    OBVIOUS
  <2>6. r \in Ids /\ \E p \in 1 .. Len(s) : s[p].row = r
    BY <1>1, <2>1, <2>4, <2>5, RunAssumption DEF RowsIn, Ids
  <2>7. \A q \in 1 .. Len(s) : s[q].row <= r
    BY <1>1, <2>1, <2>4, <2>5, <2>6 DEF RowsIn, Ids
  <2> QED
    BY <2>5, <2>6, <2>7
<1> QED
  BY <1>2, <1>3

LEMMA RunningType ==
  ASSUME TypeOK, NEW node, Running(node)
  PROVE  steps' \in 0 .. RecursionLimit
BY RunAssumption DEF TypeOK, Running

\* The messages of a run that starts.
LEMMA InitMessages ==
  ASSUME Init
  PROVE  /\ start \in 0 .. Rows /\ (searching => start = Rows) /\ searching \in BOOLEAN
         /\ messages \in Seq(Message) /\ Len(messages) >= 1
         /\ \A i \in 1 .. Len(messages) : messages[i].kind = "turn" /\ messages[i].calls = 0
         /\ start = 0 =>
              /\ Len(messages) = Rows
              /\ \A i \in 1 .. Rows : messages[i].row = i /\ messages[i].stands = {i}
         /\ start # 0 =>
              /\ Len(messages) = Rows - start + 1
              /\ messages[1].row = 0 /\ messages[1].stands = 1 .. start
              /\ \A i \in 2 .. Rows - start + 1 : /\ messages[i].row = start + i - 1
                                                  /\ messages[i].stands = {start + i - 1}
<1>1. start \in 0 .. Rows /\ (searching => start = Rows) /\ searching \in BOOLEAN
  BY RunAssumption DEF Init
<1>2. PICK size \in [0 .. Rows -> Sizes] :
        LET tail    == [i \in 1 .. Rows - start |-> Turn(start + i, size[start + i], {start + i})]
            opening == <<Turn(0, size[0], 1 .. start)>>
        IN messages = IF start = 0 THEN tail ELSE opening \o tail
  BY DEF Init
<1>3. PICK tail : tail = [i \in 1 .. Rows - start |->
                            Turn(start + i, size[start + i], {start + i})]
  OBVIOUS
<1>4. PICK first : first = Turn(0, size[0], 1 .. start)
  OBVIOUS
<1>5. messages = IF start = 0 THEN tail ELSE <<first>> \o tail
  BY <1>2, <1>3, <1>4, Zenon
<1>6. /\ first \in Message /\ first.kind = "turn" /\ first.calls = 0
      /\ first.row = 0 /\ first.stands = 1 .. start
  BY <1>1, <1>4, RunAssumption DEF Turn, Message, Ids
<1>7. \A i \in 1 .. Rows - start :
        /\ Turn(start + i, size[start + i], {start + i}) \in Message
        /\ Turn(start + i, size[start + i], {start + i}).kind = "turn"
        /\ Turn(start + i, size[start + i], {start + i}).calls = 0
        /\ Turn(start + i, size[start + i], {start + i}).row = start + i
        /\ Turn(start + i, size[start + i], {start + i}).stands = {start + i}
  <2>1. TAKE i \in 1 .. Rows - start
  <2>2. start + i \in 1 .. Rows /\ start + i \in 0 .. Rows
    BY <1>1, RunAssumption
  <2>3. size[start + i] \in Sizes
    BY <2>2
  <2> QED
    BY <2>2, <2>3, RunAssumption DEF Turn, Message, Ids
<1>8. Rows - start \in Nat
  BY <1>1, RunAssumption
<1>9. tail \in Seq(Message) /\ Len(tail) = Rows - start
  <2>1. PICK m : m = Rows - start
    OBVIOUS
  <2>2. m \in Nat /\ tail \in [1 .. m -> Message]
    BY <1>3, <1>7, <1>8, <2>1
  <2> QED
    BY <2>1, <2>2
<1>10. \A i \in 1 .. Rows - start :
         /\ tail[i].kind = "turn" /\ tail[i].calls = 0
         /\ tail[i].row = start + i /\ tail[i].stands = {start + i}
  BY <1>3, <1>7
<1>11. CASE start = 0
  BY <1>1, <1>5, <1>9, <1>10, <1>11, RunAssumption
<1>12. CASE start # 0
  <2>1. messages = <<first>> \o tail
    BY <1>5, <1>12
  <2>2. /\ messages \in Seq(Message) /\ Len(messages) = Rows - start + 1 /\ messages[1] = first
        /\ \A i \in 2 .. Rows - start + 1 : messages[i] = tail[i - 1]
    BY <1>1, <1>6, <1>8, <1>9, <2>1
  <2>3. \A i \in 2 .. Rows - start + 1 :
          /\ messages[i].kind = "turn" /\ messages[i].calls = 0
          /\ messages[i].row = start + i - 1 /\ messages[i].stands = {start + i - 1}
    <3>1. TAKE i \in 2 .. Rows - start + 1
    <3>2. i - 1 \in 1 .. Rows - start /\ start + (i - 1) = start + i - 1
      BY <1>1, <1>8
    <3> QED
      BY <2>2, <3>2, <1>10
  <2> QED
    BY <1>1, <1>6, <1>8, <1>12, <2>2, <2>3, RunAssumption
<1> QED
  BY <1>11, <1>12

LEMMA InitTyped == Init => Typed
<1> SUFFICES ASSUME Init PROVE Typed
  OBVIOUS
<1>1. /\ messages \in Seq(Message) /\ Len(messages) >= 1 /\ start \in 0 .. Rows
      /\ searching \in BOOLEAN
  BY InitMessages
<1>2. pc = "compact" /\ steps = 0 /\ searches = 0 /\ report = NoReport /\ lost = {}
  BY DEF Init
<1>3. NoReport \in [through : 0 .. Rows, covers : SUBSET Ids]
  BY RunAssumption DEF NoReport
<1> QED
  BY <1>1, <1>2, <1>3, RunAssumption DEF Typed, TypeOK, Nodes

\* The results of a turn's calls.
LEMMA ToolsMessages ==
  ASSUME Typed, Tools
  PROVE  LET n == messages[Len(messages)].calls
         IN  /\ n \in 0 .. MaxCalls
             /\ messages' \in Seq(Message) /\ Len(messages') = Len(messages) + n
             /\ \A i \in 1 .. Len(messages) : messages'[i] = messages[i]
             /\ \A i \in Len(messages) + 1 .. Len(messages') :
                  messages'[i].kind = "tool" /\ messages'[i].calls = 0 /\ Added(messages'[i])
<1>1. PICK n : n = messages[Len(messages)].calls
  OBVIOUS
<1>2. n \in 0 .. MaxCalls
  <2>1. messages[Len(messages)] \in Message
    BY DEF Typed, TypeOK
  <2> QED
    BY <1>1, <2>1 DEF Message
<1>3. PICK size \in [1 .. n -> Sizes] :
        messages' = messages \o [i \in 1 .. n |-> Result(size[i])]
  BY <1>1 DEF Tools, Answered, Asked
<1>4. PICK r : r = [i \in 1 .. n |-> Result(size[i])]
  OBVIOUS
<1>5. n \in Nat
  BY <1>2, RunAssumption
<1>6. r \in Seq(Message) /\ Len(r) = n
  BY <1>4, <1>5, MessageTypes
<1>7. \A i \in 1 .. n : r[i].kind = "tool" /\ r[i].calls = 0 /\ Added(r[i])
  BY <1>4, MessageTypes
<1>8. messages \in Seq(Message) /\ messages' = messages \o r
  BY <1>3, <1>4 DEF Typed, TypeOK
<1>9. /\ messages' \in Seq(Message) /\ Len(messages') = Len(messages) + n
      /\ \A i \in 1 .. Len(messages) : messages'[i] = messages[i]
      /\ \A i \in Len(messages) + 1 .. Len(messages') : messages'[i] = r[i - Len(messages)]
  <2>1. PICK s, q : s = messages /\ q = s \o r
    OBVIOUS
  <2>2. s \in Seq(Message) /\ messages' = q
    BY <1>8, <2>1
  <2>3. /\ q \in Seq(Message) /\ Len(q) = Len(s) + Len(r)
        /\ \A i \in 1 .. Len(s) : q[i] = s[i]
        /\ \A i \in Len(s) + 1 .. Len(q) : q[i] = r[i - Len(s)]
    BY <1>6, <2>1, <2>2
  <2> QED
    BY <1>6, <2>1, <2>2, <2>3
<1>10. \A i \in Len(messages) + 1 .. Len(messages') : i - Len(messages) \in 1 .. n
  BY <1>5, <1>8, <1>9
<1> QED
  BY <1>1, <1>2, <1>7, <1>9, <1>10

\* What the summarizer leaves: the summary t and the messages kept.
LEMMA CompactStep ==
  ASSUME Typed, NEW size \in Sizes, Summarize(size) \/ SummaryLost(size)
  PROVE  \E t \in Message :
           /\ Cut(messages) \in 2 .. Len(messages) /\ messages[Cut(messages)].kind # "tool"
           /\ t.kind = "turn" /\ t.calls = 0 /\ t.row = 0
           /\ Summarize(size) => t.stands = Stands(Folded(messages))
           /\ ~ Summarize(size) => t.stands = {}
           /\ messages' \in Seq(Message) /\ Len(messages') = Len(messages) - Cut(messages) + 2
           /\ messages'[1] = t
           /\ \A i \in 2 .. Len(messages') : messages'[i] = messages[Cut(messages) + i - 2]
<1>1. messages \in Seq(Message) /\ Len(messages) >= 1
  BY DEF Typed, TypeOK
<1>2. Cut(messages) \in 2 .. Len(messages) /\ messages[Cut(messages)].kind # "tool"
  BY <1>1, CutType DEF Summarize, SummaryLost, Due
<1>3. PICK st : st = IF Summarize(size) THEN Stands(Folded(messages)) ELSE {}
  OBVIOUS
<1>4. st \in SUBSET Ids
  BY <1>1, <1>3, FoldedMessages, StandsType
<1>5. PICK t : t = Turn(0, size, st)
  OBVIOUS
<1>6. t \in Message /\ t.kind = "turn" /\ t.calls = 0 /\ t.row = 0 /\ t.stands = st
  BY <1>4, <1>5, MessageTypes
<1>7. messages' = <<t>> \o Kept(messages)
  <2>1. CASE Summarize(size)
    BY <1>3, <1>5, <2>1 DEF Summarize, SummaryOf
  <2>2. CASE ~ Summarize(size)
    BY <1>3, <1>5, <2>2 DEF SummaryLost
  <2> QED
    BY <2>1, <2>2
<1>8. /\ messages' \in Seq(Message) /\ Len(messages') = Len(messages) - Cut(messages) + 2
      /\ messages'[1] = t
      /\ \A i \in 2 .. Len(messages') : messages'[i] = messages[Cut(messages) + i - 2]
  BY <1>1, <1>6, <1>7, Compacted
<1> QED
  BY <1>2, <1>3, <1>6, <1>8

\* A turn of the model.
LEMMA ModelStep ==
  ASSUME Typed, NEW size \in Sizes,
         ModelAnswers(size) \/ \E n \in 1 .. MaxCalls : ModelCalls(n, size)
  PROVE  \E m \in Message :
           /\ Added(m) /\ m.kind # "tool" /\ (m.calls # 0 => m.kind = "calls")
           /\ messages' \in Seq(Message) /\ Len(messages') = Len(messages) + 1
           /\ messages'[Len(messages) + 1] = m
           /\ \A i \in 1 .. Len(messages) : messages'[i] = messages[i]
<1>1. PICK m \in Message : /\ Added(m) /\ m.kind # "tool" /\ (m.calls # 0 => m.kind = "calls")
                          /\ messages' = Append(messages, m)
  <2>1. CASE ModelAnswers(size)
    BY <2>1, MessageTypes DEF ModelAnswers, Added
  <2>2. ASSUME NEW n \in 1 .. MaxCalls, ModelCalls(n, size)
        PROVE  \E m \in Message : /\ Added(m) /\ m.kind # "tool"
                                  /\ m.calls # 0 => m.kind = "calls"
                                  /\ messages' = Append(messages, m)
    <3>1. n \in 0 .. MaxCalls
      BY RunAssumption
    <3> QED
      BY <2>2, <3>1, MessageTypes DEF ModelCalls
  <2> QED
    BY <2>1, <2>2
<1>2. messages \in Seq(Message)
  BY DEF Typed, TypeOK
<1>3. /\ messages' \in Seq(Message) /\ Len(messages') = Len(messages) + 1
      /\ messages'[Len(messages) + 1] = m
      /\ \A i \in 1 .. Len(messages) : messages'[i] = messages[i]
  BY <1>1, <1>2
<1> QED
  BY <1>1, <1>3

LEMMA StepTyped == Typed /\ [Next]_vars => Typed'
<1> SUFFICES ASSUME Typed, [Next]_vars PROVE Typed'
  OBVIOUS
<1>1. CASE UNCHANGED vars
  BY <1>1 DEF Typed, TypeOK, vars
<1>2. CASE PassOn
  BY <1>2, RunningType DEF Typed, TypeOK, PassOn, Nodes
<1>3. ASSUME NEW size \in Sizes, Summarize(size) \/ SummaryLost(size)
      PROVE  Typed'
  <2>1. PICK t \in Message :
          /\ Cut(messages) \in 2 .. Len(messages)
          /\ messages' \in Seq(Message) /\ Len(messages') = Len(messages) - Cut(messages) + 2
    BY <1>3, CompactStep
  <2>2. Len(messages') >= 1
    BY <2>1 DEF Typed, TypeOK
  <2>3. PICK F : F = Folded(messages)
    OBVIOUS
  <2>4. F \in Seq(Message) /\ Stands(F) \subseteq Ids
    BY <2>3, FoldedMessages, StandsType DEF Typed, TypeOK
  <2>5. report' \in [through : 0 .. Rows, covers : SUBSET Ids] /\ lost' \subseteq Ids
    <3>1. CASE Summarize(size)
      <4>1. NewestRow(F) \in 0 .. Rows
        BY <2>4, NewestRowIs, RunAssumption DEF Ids
      <4>2. UNCHANGED lost /\ (report' = report
              \/ report' = [through |-> NewestRow(F), covers |-> Stands(F)])
        BY <2>3, <3>1 DEF Summarize, SummaryOf
      <4> QED
        BY <2>4, <4>1, <4>2 DEF Typed, TypeOK
    <3>2. CASE SummaryLost(size)
      BY <2>3, <2>4, <3>2 DEF SummaryLost, Typed, TypeOK
    <3> QED
      BY <1>3, <3>1, <3>2
  <2>6. /\ steps' \in 0 .. RecursionLimit /\ pc' = "agent"
        /\ UNCHANGED <<searching, start, searches>>
    BY <1>3, RunningType DEF Summarize, SummaryLost, Typed
  <2> QED
    BY <2>1, <2>2, <2>5, <2>6 DEF Typed, TypeOK, Nodes
<1>4. ASSUME NEW size \in Sizes,
             ModelAnswers(size) \/ \E n \in 1 .. MaxCalls : ModelCalls(n, size)
      PROVE  Typed'
  <2>1. messages' \in Seq(Message) /\ Len(messages') = Len(messages) + 1
    BY <1>4, ModelStep
  <2>2. /\ steps' \in 0 .. RecursionLimit /\ pc' \in Nodes \cup {"ended", "failed"}
        /\ UNCHANGED <<searching, start, searches, report, lost>>
    BY <1>4, RunningType DEF ModelAnswers, ModelCalls, Nodes, Typed
  <2>3. Len(messages') >= 1
    BY <2>1 DEF Typed, TypeOK
  <2> QED
    BY <2>1, <2>2, <2>3 DEF Typed, TypeOK
<1>5. CASE Tools
  <2>1. PICK n : n = messages[Len(messages)].calls
    OBVIOUS
  <2>2. n \in Nat /\ messages' \in Seq(Message) /\ Len(messages') = Len(messages) + n
    BY <1>5, <2>1, ToolsMessages, RunAssumption
  <2>3. Len(messages') >= 1
    BY <2>2 DEF Typed, TypeOK
  <2>4. searches' \in Nat /\ searches' <= MaxSearches
    BY <1>5, <2>1, <2>2, RunAssumption DEF Tools, Made, Asked, Typed, TypeOK
  <2>5. /\ steps' \in 0 .. RecursionLimit /\ pc' = "compact"
        /\ UNCHANGED <<searching, start, report, lost>>
    BY <1>5, RunningType DEF Tools, Typed
  <2> QED
    BY <2>2, <2>3, <2>4, <2>5 DEF Typed, TypeOK, Nodes
<1>6. CASE RunFails
  BY <1>6 DEF Typed, TypeOK, RunFails
<1> QED
  BY <1>1, <1>2, <1>3, <1>4, <1>5, <1>6 DEF Next, Terminating

(***************************************************************************)
(* The types, and the limits of the loop: a run executes no more nodes and *)
(* makes no more searches than it is allowed.                              *)
(***************************************************************************)
THEOREM TypeCorrect == Spec => [](TypeOK /\ searches <= MaxSearches)
<1>1. Spec => []Typed
  BY InitTyped, StepTyped, PTL DEF Spec
<1>2. Typed => TypeOK /\ searches <= MaxSearches
  BY DEF Typed
<1> QED
  BY <1>1, <1>2, PTL

-----------------------------------------------------------------------------
(* The history. *)

Ordered ==
  \A i, j \in 1 .. Len(messages) :
    i < j => \A a \in messages[i].stands, b \in messages[j].stands : a < b

\* A row stands for itself; only the first message is a summary.
Shape ==
  /\ \A i \in 1 .. Len(messages) :
       /\ messages[i].row # 0 => messages[i].stands = {messages[i].row} /\ messages[i].row > start
       /\ messages[i].row = 0 /\ messages[i].stands # {} => i = 1
  /\ searching => start = Rows
  /\ start = 0 \/ 1 .. start \subseteq messages[1].stands \cup lost
  /\ lost # {} => SummaryFaults /\ 1 .. start \subseteq lost

HistoryInv == HistoryKept /\ Shape

LEMMA InitHistory == Init => HistoryInv
<1> SUFFICES ASSUME Init PROVE HistoryInv
  OBVIOUS
<1>1. lost = {}
  BY DEF Init
<1>2. CASE start = 0
  <2>1. /\ Len(messages) = Rows
        /\ \A i \in 1 .. Rows : messages[i].row = i /\ messages[i].stands = {i}
    BY <1>2, InitMessages
  <2>2. Stands(messages) = Ids
    <3>1. ASSUME NEW a \in Stands(messages)
          PROVE  a \in Ids
      <4>1. PICK i \in 1 .. Len(messages) : a \in messages[i].stands
        BY <3>1, StandsOf
      <4> QED
        BY <2>1, <4>1 DEF Ids
    <3>2. ASSUME NEW a \in Ids
          PROVE  a \in Stands(messages)
      <4>1. a \in 1 .. Len(messages) /\ a \in messages[a].stands
        BY <2>1, <3>2 DEF Ids
      <4> QED
        BY <4>1, StandsOf
    <3> QED
      BY <3>1, <3>2
  <2>3. HistoryKept
    BY <1>1, <2>1, <2>2, RunAssumption DEF HistoryKept
  <2>4. Shape
    BY <1>1, <1>2, <2>1, InitMessages, RunAssumption DEF Shape
  <2> QED
    BY <2>3, <2>4 DEF HistoryInv
<1>3. CASE start # 0
  <2>1. /\ Len(messages) = Rows - start + 1
        /\ messages[1].row = 0 /\ messages[1].stands = 1 .. start
        /\ \A i \in 2 .. Rows - start + 1 : /\ messages[i].row = start + i - 1
                                            /\ messages[i].stands = {start + i - 1}
        /\ start \in 1 .. Rows /\ (searching => start = Rows)
    BY <1>3, InitMessages, RunAssumption
  <2>2. Stands(messages) = Ids
    <3>1. ASSUME NEW a \in Stands(messages)
          PROVE  a \in Ids
      <4>1. PICK i \in 1 .. Len(messages) : a \in messages[i].stands
        BY <3>1, StandsOf
      <4> QED
        BY <2>1, <4>1, RunAssumption DEF Ids
    <3>2. ASSUME NEW a \in Ids
          PROVE  a \in Stands(messages)
      <4>1. CASE a <= start
        <5>1. 1 \in 1 .. Len(messages) /\ a \in messages[1].stands
          BY <2>1, <4>1, RunAssumption DEF Ids
        <5> QED
          BY <5>1, StandsOf
      <4>2. CASE a > start
        <5>1. PICK i : i = a - start + 1
          OBVIOUS
        <5>2. i \in 2 .. Rows - start + 1 /\ start + i - 1 = a
          BY <2>1, <4>2, <5>1, RunAssumption DEF Ids
        <5>3. i \in 1 .. Len(messages) /\ a \in messages[i].stands
          BY <2>1, <5>2, RunAssumption
        <5> QED
          BY <5>3, StandsOf
      <4> QED
        BY <2>1, <4>1, <4>2, RunAssumption DEF Ids
    <3> QED
      BY <3>1, <3>2
  <2>3. HistoryKept
    <3>1. ASSUME NEW i \in 1 .. Len(messages), NEW j \in 1 .. Len(messages), i < j,
                 NEW a \in messages[i].stands, NEW b \in messages[j].stands
          PROVE  a < b
      <4>1. b = start + j - 1 /\ j \in 2 .. Rows - start + 1
        BY <2>1, <3>1, RunAssumption
      <4>2. CASE i = 1
        BY <2>1, <4>1, <4>2, RunAssumption
      <4>3. CASE i # 1
        BY <2>1, <3>1, <4>1, <4>3, RunAssumption
      <4> QED
        BY <4>2, <4>3
    <3> QED
      BY <1>1, <2>2, <3>1 DEF HistoryKept
  <2>4. Shape
    BY <1>1, <1>3, <2>1, RunAssumption DEF Shape
  <2> QED
    BY <2>3, <2>4 DEF HistoryInv
<1> QED
  BY <1>2, <1>3

\* What is appended stands for nothing.
LEMMA AppendHistory ==
  ASSUME Typed, HistoryInv, UNCHANGED <<searching, start, lost>>,
         Len(messages') \in Nat, Len(messages') >= Len(messages),
         \A i \in 1 .. Len(messages) : messages'[i] = messages[i],
         \A i \in Len(messages) + 1 .. Len(messages') : Added(messages'[i])
  PROVE  HistoryInv'
<1>1. Len(messages) \in Nat /\ Len(messages) >= 1
  BY DEF Typed, TypeOK
<1>2. \A i \in 1 .. Len(messages') : \/ i \in 1 .. Len(messages) /\ messages'[i] = messages[i]
                                     \/ messages'[i].row = 0 /\ messages'[i].stands = {}
  <2>1. TAKE i \in 1 .. Len(messages')
  <2>2. i \in 1 .. Len(messages) \/ i \in Len(messages) + 1 .. Len(messages')
    BY <1>1
  <2> QED
    BY <2>2 DEF Added
<1>3. Stands(messages)' = Stands(messages)
  <2>1. ASSUME NEW a \in Stands(messages)'
        PROVE  a \in Stands(messages)
    <3>1. PICK i \in 1 .. Len(messages') : a \in messages'[i].stands
      BY <2>1 DEF Stands
    <3> QED
      BY <1>2, <3>1, StandsOf
  <2>2. ASSUME NEW a \in Stands(messages)
        PROVE  a \in Stands(messages)'
    <3>1. PICK i \in 1 .. Len(messages) : a \in messages[i].stands
      BY <2>2, StandsOf
    <3>2. i \in 1 .. Len(messages') /\ a \in messages'[i].stands
      BY <1>1, <3>1
    <3> QED
      BY <3>2 DEF Stands
  <2> QED
    BY <2>1, <2>2
<1>4. Ordered /\ Ordered' => HistoryKept'
  BY <1>3 DEF HistoryInv, HistoryKept, Ordered, Ids
<1>5. Ordered
  BY DEF HistoryInv, HistoryKept, Ordered
<1>6. Ordered'
  BY <1>2, <1>5 DEF Ordered
<1>7. Shape'
  BY <1>1, <1>2 DEF HistoryInv, Shape
<1> QED
  BY <1>4, <1>5, <1>6, <1>7 DEF HistoryInv

\* The rows of the folded messages are the oldest of those that are left.
LEMMA FoldedRows ==
  ASSUME Typed, HistoryInv, Cut(messages) \in 2 .. Len(messages)
  PROVE  /\ \A a : a \in Stands(Folded(messages))
                     <=> \E i \in 1 .. Cut(messages) - 1 : a \in messages[i].stands
         /\ \A a \in Stands(Folded(messages)) :
              \A j \in Cut(messages) .. Len(messages) : \A b \in messages[j].stands : a < b
<1>1. messages \in Seq(Message) /\ Len(messages) >= 1
  BY DEF Typed, TypeOK
<1>2. PICK F : F = Folded(messages)
  OBVIOUS
<1>3. Len(F) = Cut(messages) - 1 /\ \A i \in 1 .. Cut(messages) - 1 : F[i] = messages[i]
  BY <1>1, <1>2, FoldedMessages
<1>4. \A a : a \in Stands(F) <=> \E i \in 1 .. Cut(messages) - 1 : a \in messages[i].stands
  BY <1>3, StandsOf
<1>5. ASSUME NEW a \in Stands(F), NEW j \in Cut(messages) .. Len(messages),
             NEW b \in messages[j].stands
      PROVE  a < b
  <2>1. PICK i \in 1 .. Cut(messages) - 1 : a \in messages[i].stands
    BY <1>4, <1>5
  <2>2. i \in 1 .. Len(messages) /\ j \in 1 .. Len(messages) /\ i < j
    BY <1>1, <2>1
  <2> QED
    BY <1>5, <2>1, <2>2 DEF HistoryInv, HistoryKept
<1> QED
  BY <1>2, <1>4, <1>5

LEMMA CompactHistory ==
  ASSUME Typed, HistoryInv, NEW size \in Sizes, Summarize(size) \/ SummaryLost(size)
  PROVE  HistoryInv'
<1>1. PICK t \in Message :
        /\ Cut(messages) \in 2 .. Len(messages) /\ t.row = 0
        /\ Summarize(size) => t.stands = Stands(Folded(messages))
        /\ ~ Summarize(size) => t.stands = {}
        /\ messages' \in Seq(Message) /\ Len(messages') = Len(messages) - Cut(messages) + 2
        /\ messages'[1] = t
        /\ \A i \in 2 .. Len(messages') : messages'[i] = messages[Cut(messages) + i - 2]
  BY CompactStep
<1>2. PICK c : c = Cut(messages)
  OBVIOUS
<1>3. c \in 2 .. Len(messages) /\ Len(messages) \in Nat
  BY <1>1, <1>2 DEF Typed, TypeOK
<1>4. PICK old : old = Stands(Folded(messages))
  OBVIOUS
<1>5. /\ \A a : a \in old <=> \E i \in 1 .. c - 1 : a \in messages[i].stands
      /\ \A a \in old : \A j \in c .. Len(messages) : \A b \in messages[j].stands : a < b
  BY <1>1, <1>2, <1>4, FoldedRows
<1>6. old \subseteq Ids
  BY <1>4, FoldedMessages, StandsType DEF Typed, TypeOK
<1>7. \A i \in 2 .. Len(messages') : c + i - 2 \in c .. Len(messages)
  BY <1>1, <1>2, <1>3
<1>8. \A i \in c .. Len(messages) : i - c + 2 \in 2 .. Len(messages')
                                    /\ messages'[i - c + 2] = messages[i]
  <2>1. TAKE i \in c .. Len(messages)
  <2>2. i - c + 2 \in 2 .. Len(messages') /\ c + (i - c + 2) - 2 = i
    BY <1>1, <1>2, <1>3
  <2> QED
    BY <1>1, <1>2, <2>2
<1>9. PICK new : new = t.stands
  OBVIOUS
<1>10. /\ messages'[1].stands = new /\ messages'[1].row = 0
       /\ \/ new = old /\ lost' = lost
          \/ new = {} /\ lost' = lost \cup old /\ SummaryFaults
  BY <1>1, <1>4, <1>9 DEF Summarize, SummaryLost
<1>11. \A a : a \in Stands(messages)'
                <=> a \in new \/ \E j \in c .. Len(messages) : a \in messages[j].stands
  <2>1. TAKE a
  <2>2. ASSUME a \in Stands(messages)'
        PROVE  a \in new \/ \E j \in c .. Len(messages) : a \in messages[j].stands
    <3>1. PICK i \in 1 .. Len(messages') : a \in messages'[i].stands
      BY <2>2 DEF Stands
    <3>2. CASE i = 1
      BY <1>10, <3>1, <3>2
    <3>3. CASE i # 1
      <4>1. i \in 2 .. Len(messages')
        BY <1>1, <3>3
      <4> QED
        BY <1>1, <1>2, <1>7, <3>1, <4>1
    <3> QED
      BY <3>2, <3>3
  <2>3. ASSUME a \in new
        PROVE  a \in Stands(messages)'
    <3>1. 1 \in 1 .. Len(messages') /\ a \in messages'[1].stands
      BY <1>1, <1>2, <1>3, <1>10, <2>3
    <3> QED
      BY <3>1 DEF Stands
  <2>4. ASSUME NEW j \in c .. Len(messages), a \in messages[j].stands
        PROVE  a \in Stands(messages)'
    <3>1. j - c + 2 \in 1 .. Len(messages') /\ a \in messages'[j - c + 2].stands
      BY <1>8, <2>4
    <3> QED
      BY <3>1 DEF Stands
  <2> QED
    BY <2>2, <2>3, <2>4
<1>12. \A a : a \in Stands(messages)
                <=> a \in old \/ \E j \in c .. Len(messages) : a \in messages[j].stands
  <2>1. \A i : i \in 1 .. Len(messages) <=> i \in 1 .. c - 1 \/ i \in c .. Len(messages)
    BY <1>3
  <2> QED
    BY <1>5, <2>1, StandsOf
<1>13. /\ Stands(messages) = Ids \ lost
       /\ \A a \in Stands(messages) : \A b \in Ids : a < b => b \in Stands(messages)
  BY DEF HistoryInv, HistoryKept
<1>14. Stands(messages)' = Ids \ lost'
  <2>1. \A a \in old : ~ \E j \in c .. Len(messages) : a \in messages[j].stands
    <3>1. SUFFICES ASSUME NEW a \in old, NEW j \in c .. Len(messages), a \in messages[j].stands
                   PROVE  FALSE
      OBVIOUS
    <3>2. a < a /\ a \in Ids
      BY <1>5, <1>6, <3>1
    <3> QED
      BY <3>2, RunAssumption DEF Ids
  <2> QED
    BY <1>10, <1>11, <1>12, <1>13, <2>1
<1>15. \A a \in Stands(messages)' : \A b \in Ids : a < b => b \in Stands(messages)'
  <2>1. SUFFICES ASSUME NEW a \in Stands(messages)', NEW b \in Ids, a < b
                 PROVE  b \in Stands(messages)'
    OBVIOUS
  <2>2. a \in Stands(messages)
    BY <1>10, <1>11, <1>12
  <2>3. b \in Stands(messages)
    BY <1>13, <2>1, <2>2
  <2>4. CASE b \in old
    <3>1. a \in new
      <4>1. ASSUME NEW j \in c .. Len(messages), a \in messages[j].stands
            PROVE  FALSE
        <5>1. b < a /\ a \in Ids
          BY <1>5, <1>13, <2>2, <2>4, <4>1
        <5> QED
          BY <2>1, <5>1, RunAssumption DEF Ids
      <4> QED
        BY <1>11, <2>1, <4>1
    <3> QED
      BY <1>10, <1>11, <2>4, <3>1
  <2> QED
    BY <1>11, <1>12, <2>3, <2>4
<1>16. ASSUME NEW i \in 1 .. Len(messages'), NEW j \in 1 .. Len(messages'), i < j,
              NEW a \in messages'[i].stands, NEW b \in messages'[j].stands
       PROVE  a < b
  <2>1. j \in 2 .. Len(messages')
    BY <1>1, <1>16
  <2>2. PICK q : q = c + j - 2
    OBVIOUS
  <2>3. q \in c .. Len(messages) /\ b \in messages[q].stands
    BY <1>1, <1>2, <1>7, <1>16, <2>1, <2>2
  <2>4. CASE i = 1
    BY <1>5, <1>10, <1>16, <2>3, <2>4
  <2>5. CASE i # 1
    <3>1. i \in 2 .. Len(messages')
      BY <1>1, <2>5
    <3>2. PICK p : p = c + i - 2
      OBVIOUS
    <3>3. p \in c .. Len(messages) /\ a \in messages[p].stands
      BY <1>1, <1>2, <1>7, <1>16, <3>1, <3>2
    <3>4. p \in 1 .. Len(messages) /\ q \in 1 .. Len(messages) /\ p < q
      BY <1>3, <1>16, <2>2, <2>3, <3>2, <3>3
    <3> QED
      BY <2>3, <3>3, <3>4 DEF HistoryInv, HistoryKept
  <2> QED
    BY <2>4, <2>5
<1>17. HistoryKept'
  BY <1>14, <1>15, <1>16 DEF HistoryKept, Ids
<1>18. UNCHANGED <<searching, start>>
  BY DEF Summarize, SummaryLost
<1>19. messages[1].stands \subseteq old
  <2>1. 1 \in 1 .. c - 1
    BY <1>3
  <2> QED
    BY <1>5, <2>1
<1>20. \A i \in 1 .. Len(messages') :
         /\ messages'[i].row # 0 => /\ messages'[i].stands = {messages'[i].row}
                                    /\ messages'[i].row > start'
         /\ messages'[i].row = 0 /\ messages'[i].stands # {} => i = 1
  <2>1. TAKE i \in 1 .. Len(messages')
  <2>2. CASE i = 1
    BY <1>10, <2>2
  <2>3. CASE i # 1
    <3>1. i \in 2 .. Len(messages')
      BY <1>1, <2>3
    <3>2. PICK p : p = c + i - 2
      OBVIOUS
    <3>3. p \in 2 .. Len(messages) /\ messages'[i] = messages[p]
      BY <1>1, <1>2, <1>3, <1>7, <3>1, <3>2
    <3>4. p \in 1 .. Len(messages) /\ p # 1
      BY <3>3
    <3> QED
      BY <1>18, <3>3, <3>4 DEF HistoryInv, Shape
  <2> QED
    BY <2>2, <2>3
<1>21. Shape'
  <2>1. start = 0 \/ 1 .. start \subseteq old \cup lost
    BY <1>19 DEF HistoryInv, Shape
  <2>2. start' = 0 \/ 1 .. start' \subseteq messages'[1].stands \cup lost'
    BY <1>10, <1>18, <2>1
  <2>3. lost' # {} => SummaryFaults /\ 1 .. start' \subseteq lost'
    <3>1. start \in 0 .. Rows
      BY DEF Typed, TypeOK
    <3> QED
      BY <1>10, <1>18, <2>1, <3>1 DEF HistoryInv, Shape
  <2> QED
    BY <1>18, <1>20, <2>2, <2>3 DEF HistoryInv, Shape
<1> QED
  BY <1>17, <1>21 DEF HistoryInv

LEMMA StepHistory == Typed /\ HistoryInv /\ [Next]_vars => HistoryInv'
<1> SUFFICES ASSUME Typed, HistoryInv, [Next]_vars PROVE HistoryInv'
  OBVIOUS
<1>1. CASE UNCHANGED <<searching, start, messages, lost>>
  <2>1. HistoryKept'
    BY <1>1, ZenonT(40) DEF HistoryInv, HistoryKept, Stands
  <2>2. Shape'
    BY <1>1 DEF HistoryInv, Shape
  <2> QED
    BY <2>1, <2>2 DEF HistoryInv
<1>2. ASSUME NEW size \in Sizes, Summarize(size) \/ SummaryLost(size)
      PROVE  HistoryInv'
  BY <1>2, CompactHistory
<1>3. ASSUME NEW size \in Sizes,
             ModelAnswers(size) \/ \E n \in 1 .. MaxCalls : ModelCalls(n, size)
      PROVE  HistoryInv'
  <2>1. PICK m \in Message :
          /\ Added(m) /\ messages' \in Seq(Message) /\ Len(messages') = Len(messages) + 1
          /\ messages'[Len(messages) + 1] = m
          /\ \A i \in 1 .. Len(messages) : messages'[i] = messages[i]
    BY <1>3, ModelStep
  <2>2. Len(messages) \in Nat
    BY DEF Typed, TypeOK
  <2>3. \A i \in Len(messages) + 1 .. Len(messages') : Added(messages'[i])
    <3>1. TAKE i \in Len(messages) + 1 .. Len(messages')
    <3>2. i = Len(messages) + 1
      BY <2>1, <2>2
    <3> QED
      BY <2>1, <3>2
  <2>4. UNCHANGED <<searching, start, lost>>
    BY <1>3 DEF ModelAnswers, ModelCalls
  <2> QED
    BY <2>1, <2>2, <2>3, <2>4, AppendHistory
<1>4. CASE Tools
  <2>1. PICK n : n = messages[Len(messages)].calls
    OBVIOUS
  <2>2. /\ n \in Nat /\ Len(messages') = Len(messages) + n /\ messages' \in Seq(Message)
        /\ \A i \in 1 .. Len(messages) : messages'[i] = messages[i]
        /\ \A i \in Len(messages) + 1 .. Len(messages') : Added(messages'[i])
    BY <1>4, <2>1, ToolsMessages, RunAssumption
  <2>3. Len(messages) \in Nat
    BY DEF Typed, TypeOK
  <2>4. UNCHANGED <<searching, start, lost>>
    BY <1>4 DEF Tools
  <2> QED
    BY <2>2, <2>3, <2>4, AppendHistory
<1> QED
  BY <1>1, <1>2, <1>3, <1>4 DEF Next, PassOn, RunFails, Terminating, vars

(***************************************************************************)
(* Compaction keeps the conversation: the messages stand for each row that *)
(* no lost summary took away once and in order, wherever compact cuts and  *)
(* however often.                                                          *)
(***************************************************************************)
THEOREM HistoryHolds == Spec => []HistoryKept
<1>1. Init => Typed /\ HistoryInv
  BY InitTyped, InitHistory
<1>2. Typed /\ HistoryInv /\ [Next]_vars => (Typed /\ HistoryInv)'
  BY StepTyped, StepHistory
<1>3. Spec => [](Typed /\ HistoryInv)
  BY <1>1, <1>2, PTL DEF Spec
<1>4. HistoryInv => HistoryKept
  BY DEF HistoryInv
<1> QED
  BY <1>3, <1>4, PTL

-----------------------------------------------------------------------------
(* Calls and results. *)

\* Calls are answered among the first n messages, and results have their call.
PairedUpTo(s, n) ==
  /\ \A i \in 1 .. n :
       i + s[i].calls <= n /\ \A j \in i + 1 .. i + s[i].calls : s[j].kind = "tool"
  /\ \A i \in 1 .. n : s[i].kind = "tool" => \E j \in 1 .. i - 1 : i <= j + s[j].calls

\* Before the tools run, all but the newest message are paired.
PairsInv ==
  /\ pc \in {"compact", "agent"} => PairedUpTo(messages, Len(messages))
  /\ pc = "tools" => /\ messages[Len(messages)].kind # "tool"
                     /\ PairedUpTo(messages, Len(messages) - 1)

LEMMA PairedIs == \A s : Paired(s) <=> PairedUpTo(s, Len(s))
BY DEF Paired, PairedUpTo

LEMMA MessageCalls ==
  ASSUME NEW s \in Seq(Message), NEW i \in 1 .. Len(s)
  PROVE  s[i].calls \in Nat
<1>1. s[i] \in Message
  OBVIOUS
<1> QED
  BY <1>1, RunAssumption DEF Message

\* What is folded at a cut is paired.
LEMMA FoldedPaired ==
  ASSUME NEW s \in Seq(Message), Len(s) >= 1, PairedUpTo(s, Len(s)), Cut(s) # 1
  PROVE  Paired(Folded(s))
<1>1. PICK c : c = Cut(s)
  OBVIOUS
<1>2. c \in 2 .. Len(s) /\ s[c].kind # "tool"
  BY <1>1, CutType
<1>3. PICK F : F = Folded(s)
  OBVIOUS
<1>4. Len(F) = c - 1 /\ \A i \in 1 .. c - 1 : F[i] = s[i]
  BY <1>1, <1>3, FoldedMessages
<1>5. ASSUME NEW i \in 1 .. c - 1
      PROVE  i + s[i].calls <= c - 1 /\ \A j \in i + 1 .. i + s[i].calls : s[j].kind = "tool"
  <2>1. i \in 1 .. Len(s)
    BY <1>2, <1>5
  <2>2. s[i].calls \in Nat
    BY <2>1, MessageCalls
  <2>3. \A j \in i + 1 .. i + s[i].calls : s[j].kind = "tool"
    BY <2>1 DEF PairedUpTo
  <2>4. c \notin i + 1 .. i + s[i].calls
    BY <1>2, <2>3
  <2> QED
    BY <1>2, <1>5, <2>2, <2>3, <2>4
<1>6. \A i \in 1 .. c - 1 :
        i + F[i].calls <= c - 1 /\ \A j \in i + 1 .. i + F[i].calls : F[j].kind = "tool"
  <2>1. TAKE i \in 1 .. c - 1
  <2>2. PICK k : k = s[i].calls
    OBVIOUS
  <2>3. k \in Nat /\ F[i].calls = k
    BY <1>2, <1>4, <2>2, MessageCalls
  <2>4. i + k <= c - 1 /\ \A j \in i + 1 .. i + k : s[j].kind = "tool"
    BY <1>5, <2>2
  <2>5. \A j \in i + 1 .. i + k : F[j].kind = "tool"
    BY <1>2, <1>4, <2>3, <2>4
  <2> QED
    BY <2>3, <2>4, <2>5
<1>7. \A i \in 1 .. c - 1 : F[i].kind = "tool" => \E j \in 1 .. i - 1 : i <= j + F[j].calls
  <2>1. TAKE i \in 1 .. c - 1
  <2>2. i \in 1 .. Len(s)
    BY <1>2
  <2>3. s[i].kind = "tool" => \E j \in 1 .. i - 1 : i <= j + s[j].calls
    BY <2>2 DEF PairedUpTo
  <2>4. \A j \in 1 .. i - 1 : F[j] = s[j]
    BY <1>2, <1>4
  <2> QED
    BY <1>4, <2>3, <2>4
<1>8. PairedUpTo(F, Len(F))
  BY <1>4, <1>6, <1>7 DEF PairedUpTo
<1> QED
  BY <1>3, <1>8, PairedIs

\* The messages kept have their calls with them.
LEMMA CompactPairs ==
  ASSUME Typed, PairsInv, NEW size \in Sizes, Summarize(size) \/ SummaryLost(size)
  PROVE  PairsInv'
<1>1. PICK t \in Message :
        /\ Cut(messages) \in 2 .. Len(messages) /\ messages[Cut(messages)].kind # "tool"
        /\ t.kind = "turn" /\ t.calls = 0
        /\ messages' \in Seq(Message) /\ Len(messages') = Len(messages) - Cut(messages) + 2
        /\ messages'[1] = t
        /\ \A i \in 2 .. Len(messages') : messages'[i] = messages[Cut(messages) + i - 2]
  BY CompactStep
<1>2. PICK c : c = Cut(messages)
  OBVIOUS
<1>3. PICK n : n = Len(messages)
  OBVIOUS
<1>4. n \in Nat /\ c \in 2 .. n /\ messages[c].kind # "tool" /\ Len(messages') = n - c + 2
  BY <1>1, <1>2, <1>3 DEF Typed, TypeOK
<1>5. pc = "compact" /\ pc' = "agent"
  BY DEF Summarize, SummaryLost, Running
<1>6. PairedUpTo(messages, n)
  BY <1>3, <1>5 DEF PairsInv
<1>7. \A i \in 1 .. n : messages[i].calls \in Nat
  BY <1>3, MessageCalls DEF Typed, TypeOK
<1>8. \A i \in 2 .. n - c + 2 : /\ c + i - 2 \in c .. n /\ c + i - 2 \in 1 .. n
                                /\ messages'[i] = messages[c + i - 2]
  BY <1>1, <1>2, <1>4, SMTT(30)
<1>9. ASSUME NEW i \in 1 .. n - c + 2
      PROVE  /\ i + messages'[i].calls <= n - c + 2
             /\ \A j \in i + 1 .. i + messages'[i].calls : messages'[j].kind = "tool"
  <2>1. CASE i = 1
    BY <1>1, <1>4, <2>1
  <2>2. CASE i # 1
    <3>1. PICK p : p = c + i - 2
      OBVIOUS
    <3>2. p \in 1 .. n /\ p \in c .. n /\ messages'[i] = messages[p]
      BY <1>4, <1>8, <1>9, <2>2, <3>1
    <3>3. PICK k : k = messages[p].calls
      OBVIOUS
    <3>4. k \in Nat /\ p + k <= n /\ \A j \in p + 1 .. p + k : messages[j].kind = "tool"
      BY <1>6, <1>7, <3>2, <3>3 DEF PairedUpTo
    <3>5. i + k <= n - c + 2
      BY <1>4, <1>9, <3>1, <3>2, <3>4
    <3>6. \A j \in i + 1 .. i + k : messages'[j].kind = "tool"
      <4>1. TAKE j \in i + 1 .. i + k
      <4>2. j \in 2 .. n - c + 2 /\ c + j - 2 \in p + 1 .. p + k
        BY <1>4, <1>9, <3>1, <3>4, <3>5
      <4> QED
        BY <1>8, <3>4, <4>2
    <3> QED
      BY <3>2, <3>3, <3>5, <3>6
  <2> QED
    BY <2>1, <2>2
<1>10. ASSUME NEW i \in 1 .. n - c + 2, messages'[i].kind = "tool"
       PROVE  \E j \in 1 .. i - 1 : i <= j + messages'[j].calls
  <2>1. i \in 2 .. n - c + 2
    BY <1>1, <1>4, <1>10
  <2>2. PICK p : p = c + i - 2
    OBVIOUS
  <2>3. p \in 1 .. n /\ p \in c .. n /\ messages[p].kind = "tool"
    BY <1>8, <1>10, <2>1, <2>2
  <2>4. PICK q \in 1 .. p - 1 : p <= q + messages[q].calls
    BY <1>6, <2>3 DEF PairedUpTo
  <2>5. q \in 1 .. n /\ p # c
    BY <1>4, <2>3, <2>4
  <2>6. PICK k : k = messages[q].calls
    OBVIOUS
  <2>7. k \in Nat /\ \A j \in q + 1 .. q + k : messages[j].kind = "tool"
    BY <1>6, <1>7, <2>5, <2>6 DEF PairedUpTo
  <2>8. q >= c
    <3>1. SUFFICES ASSUME q < c PROVE FALSE
      BY <1>4, <2>5
    <3>2. c \in q + 1 .. q + k
      BY <1>4, <2>3, <2>4, <2>5, <2>6, <2>7, <3>1
    <3> QED
      BY <1>4, <2>7, <3>2
  <2>9. PICK j : j = q - c + 2
    OBVIOUS
  <2>10. j \in 2 .. n - c + 2 /\ c + j - 2 = q /\ j \in 1 .. i - 1 /\ i <= j + k
    BY <1>4, <2>1, <2>2, <2>3, <2>4, <2>5, <2>6, <2>7, <2>8, <2>9
  <2> QED
    BY <1>8, <2>6, <2>10
<1>11. PairedUpTo(messages, Len(messages))'
  BY <1>4, <1>9, <1>10 DEF PairedUpTo
<1> QED
  BY <1>5, <1>11 DEF PairsInv

LEMMA StepPairs == Typed /\ PairsInv /\ [Next]_vars => PairsInv'
<1> SUFFICES ASSUME Typed, PairsInv, [Next]_vars PROVE PairsInv'
  OBVIOUS
<1>1. CASE UNCHANGED vars
  BY <1>1 DEF PairsInv, PairedUpTo, vars
<1>2. CASE PassOn
  BY <1>2 DEF PassOn, Running, PairsInv, PairedUpTo
<1>3. ASSUME NEW size \in Sizes, Summarize(size) \/ SummaryLost(size)
      PROVE  PairsInv'
  BY <1>3, CompactPairs
<1>4. ASSUME NEW size \in Sizes, ModelAnswers(size)
      PROVE  PairsInv'
  BY <1>4 DEF ModelAnswers, PairsInv
<1>5. ASSUME NEW size \in Sizes, NEW n \in 1 .. MaxCalls, ModelCalls(n, size)
      PROVE  PairsInv'
  <2>1. PICK m \in Message :
          /\ m.kind # "tool" /\ Len(messages') = Len(messages) + 1
          /\ messages'[Len(messages) + 1] = m
          /\ \A i \in 1 .. Len(messages) : messages'[i] = messages[i]
    BY <1>5, ModelStep
  <2>2. pc = "agent" /\ pc' = "tools"
    BY <1>5 DEF ModelCalls, Running
  <2>3. PICK l : l = Len(messages)
    OBVIOUS
  <2>4. l \in Nat /\ PairedUpTo(messages, l) /\ \A i \in 1 .. l : messages[i].calls \in Nat
    BY <2>2, <2>3, MessageCalls DEF PairsInv, Typed, TypeOK
  <2>5. Len(messages') - 1 = l /\ Len(messages') = l + 1
    BY <2>1, <2>3, <2>4
  <2>6. \A i \in 1 .. l :
          /\ i + messages'[i].calls <= l
          /\ \A j \in i + 1 .. i + messages'[i].calls : messages'[j].kind = "tool"
    <3>1. TAKE i \in 1 .. l
    <3>2. PICK k : k = messages[i].calls
      OBVIOUS
    <3>3. k \in Nat /\ i + k <= l /\ \A j \in i + 1 .. i + k : messages[j].kind = "tool"
      BY <2>4, <3>2 DEF PairedUpTo
    <3>4. \A j \in i + 1 .. i + k : j \in 1 .. l
      BY <2>4, <3>3
    <3> QED
      BY <2>1, <2>3, <3>2, <3>3, <3>4
  <2>7. \A i \in 1 .. l :
          messages'[i].kind = "tool" => \E j \in 1 .. i - 1 : i <= j + messages'[j].calls
    <3>1. TAKE i \in 1 .. l
    <3>2. \A j \in 1 .. i - 1 : messages'[j] = messages[j]
      BY <2>1, <2>3, <2>4
    <3> QED
      BY <2>1, <2>3, <2>4, <3>2 DEF PairedUpTo
  <2>8. messages'[Len(messages')].kind # "tool"
    BY <2>1, <2>3, <2>5
  <2> QED
    BY <2>2, <2>5, <2>6, <2>7, <2>8 DEF PairsInv, PairedUpTo
<1>6. CASE Tools
  <2>1. PICK l : l = Len(messages)
    OBVIOUS
  <2>2. PICK n : n = messages[l].calls
    OBVIOUS
  <2>3. /\ n \in Nat /\ Len(messages') = l + n
        /\ \A i \in 1 .. l : messages'[i] = messages[i]
        /\ \A i \in l + 1 .. l + n : messages'[i].kind = "tool" /\ messages'[i].calls = 0
    BY <1>6, <2>1, <2>2, ToolsMessages, RunAssumption
  <2>4. /\ l \in Nat /\ l >= 1 /\ messages[l].kind # "tool" /\ PairedUpTo(messages, l - 1)
        /\ \A i \in 1 .. l : messages[i].calls \in Nat
    BY <1>6, <2>1, MessageCalls DEF PairsInv, Tools, Running, Typed, TypeOK
  <2>5. ASSUME NEW i \in 1 .. l + n
        PROVE  /\ i + messages'[i].calls <= l + n
               /\ \A j \in i + 1 .. i + messages'[i].calls : messages'[j].kind = "tool"
    <3>1. CASE i \in 1 .. l - 1
      <4>1. PICK k : k = messages[i].calls
        OBVIOUS
      <4>2. k \in Nat /\ i + k <= l - 1 /\ \A j \in i + 1 .. i + k : messages[j].kind = "tool"
        BY <2>4, <3>1, <4>1 DEF PairedUpTo
      <4>3. messages'[i] = messages[i] /\ \A j \in i + 1 .. i + k : messages'[j] = messages[j]
        BY <2>3, <2>4, <3>1, <4>2
      <4>4. messages'[i].calls = k
        BY <4>1, <4>3
      <4>5. i + messages'[i].calls <= l + n
        BY <2>3, <2>4, <3>1, <4>2, <4>4
      <4>6. \A j \in i + 1 .. i + messages'[i].calls : messages'[j].kind = "tool"
        <5>1. TAKE j \in i + 1 .. i + messages'[i].calls
        <5>2. j \in i + 1 .. i + k
          BY <4>4
        <5> QED
          BY <4>2, <4>3, <5>2
      <4> QED
        BY <4>5, <4>6
    <3>2. CASE i = l
      <4>1. l \in 1 .. l
        BY <2>4
      <4>2. messages'[l].calls = n
        BY <2>2, <2>3, <4>1
      <4> QED
        BY <2>3, <2>4, <3>2, <4>2
    <3>3. CASE i \in l + 1 .. l + n
      BY <2>3, <2>4, <3>3
    <3> QED
      BY <2>3, <2>4, <2>5, <3>1, <3>2, <3>3
  <2>6. ASSUME NEW i \in 1 .. l + n, messages'[i].kind = "tool"
        PROVE  \E j \in 1 .. i - 1 : i <= j + messages'[j].calls
    <3>1. CASE i \in 1 .. l - 1
      <4>1. PICK j \in 1 .. i - 1 : i <= j + messages[j].calls
        BY <2>3, <2>4, <2>6, <3>1 DEF PairedUpTo
      <4>2. messages'[j] = messages[j]
        BY <2>3, <2>4, <3>1
      <4> QED
        BY <4>1, <4>2
    <3>2. CASE i = l
      BY <2>3, <2>4, <2>6, <3>2
    <3>3. CASE i \in l + 1 .. l + n
      <4>1. l \in 1 .. i - 1 /\ messages'[l] = messages[l] /\ i <= l + n
        BY <2>3, <2>4, <3>3
      <4> QED
        BY <2>2, <4>1
    <3> QED
      BY <2>3, <2>4, <2>6, <3>1, <3>2, <3>3
  <2>7. PairedUpTo(messages, Len(messages))'
    BY <2>3, <2>5, <2>6 DEF PairedUpTo
  <2>8. pc' = "compact"
    BY <1>6 DEF Tools
  <2> QED
    BY <2>7, <2>8 DEF PairsInv
<1>7. CASE RunFails
  BY <1>7 DEF RunFails, PairsInv
<1> QED
  BY <1>1, <1>2, <1>3, <1>4, <1>5, <1>6, <1>7 DEF Next, Terminating

LEMMA InitPairs == Init => PairsInv
<1> SUFFICES ASSUME Init PROVE PairsInv
  OBVIOUS
<1>1. \A i \in 1 .. Len(messages) : messages[i].kind = "turn" /\ messages[i].calls = 0
  BY InitMessages
<1>2. Len(messages) \in Nat
  BY InitMessages
<1>3. pc = "compact"
  BY DEF Init
<1> QED
  BY <1>1, <1>2, <1>3 DEF PairsInv, PairedUpTo

LEMMA PairsKept == Typed /\ PairsInv => CallsPaired
<1> SUFFICES ASSUME Typed, PairsInv PROVE CallsPaired
  OBVIOUS
<1>1. messages \in Seq(Message) /\ Len(messages) >= 1
  BY DEF Typed, TypeOK
<1>2. pc = "agent" => Paired(messages)
  BY PairedIs DEF PairsInv
<1>3. pc = "compact" /\ Due => Paired(Folded(messages))
  <2>1. SUFFICES ASSUME pc = "compact", Cut(messages) > 1 PROVE Paired(Folded(messages))
    BY DEF Due
  <2> QED
    BY <1>1, <2>1, FoldedPaired, CutType DEF PairsInv
<1> QED
  BY <1>2, <1>3 DEF CallsPaired

(***************************************************************************)
(* Neither the agent's model nor the summarizer is ever given a result     *)
(* without its call or a call without all its results.                     *)
(***************************************************************************)
THEOREM PairsHold == Spec => []CallsPaired
<1>1. Init => Typed /\ PairsInv
  BY InitTyped, InitPairs
<1>2. Typed /\ PairsInv /\ [Next]_vars => (Typed /\ PairsInv)'
  BY StepTyped, StepPairs
<1>3. Spec => [](Typed /\ PairsInv)
  BY <1>1, <1>2, PTL DEF Spec
<1> QED
  BY <1>3, PairsKept, PTL
-----------------------------------------------------------------------------
(* Sizes: what the fold that adds them up comes to. *)

Pick(t) == CHOOSE x \in t : TRUE

\* The fold of s over sets of its positions, as far as it is defined on D.
SumsOn(s, it, D) ==
  \A t \in D : it[t] = IF t = {} THEN 0 ELSE s[Pick(t)].size + it[t \ {Pick(t)}]

Sums(s, it) ==
  it = [t \in SUBSET DOMAIN s |->
          IF t = {} THEN 0 ELSE s[Pick(t)].size + it[t \ {Pick(t)}]]

LEMMA SizeIs == \A s : Size(s) = (CHOOSE it : Sums(s, it))[DOMAIN s]
BY DEF Size, FoldFunction, FoldFunctionOnSet, MapThenFoldSet, Sums, Pick

\* Sets of at most n positions.
Small(s, n) == {t \in SUBSET DOMAIN s : Cardinality(t) <= n}

LEMMA Positions ==
  ASSUME NEW s \in Seq(Message)
  PROVE  /\ DOMAIN s = 1 .. Len(s)
         /\ \A t \in SUBSET DOMAIN s : IsFiniteSet(t) /\ Cardinality(t) \in 0 .. Len(s)
         /\ \A t \in SUBSET DOMAIN s :
              t # {} => /\ Pick(t) \in t /\ t \ {Pick(t)} \in SUBSET DOMAIN s
                        /\ Cardinality(t \ {Pick(t)}) = Cardinality(t) - 1
         /\ \A i \in DOMAIN s : s[i].size \in Nat
<1>1. DOMAIN s = 1 .. Len(s) /\ Len(s) \in Nat
  OBVIOUS
<1>2. IsFiniteSet(1 .. Len(s)) /\ Cardinality(1 .. Len(s)) = Len(s)
  BY <1>1, FS_Interval
<1>3. ASSUME NEW t \in SUBSET DOMAIN s
      PROVE  IsFiniteSet(t) /\ Cardinality(t) \in 0 .. Len(s)
  <2>1. IsFiniteSet(t) /\ Cardinality(t) <= Len(s)
    BY <1>1, <1>2, <1>3, FS_Subset
  <2>2. Cardinality(t) \in Nat
    BY <2>1, FS_CardinalityType
  <2> QED
    BY <1>1, <2>1, <2>2
<1>4. ASSUME NEW t \in SUBSET DOMAIN s, t # {}
      PROVE  /\ Pick(t) \in t /\ t \ {Pick(t)} \in SUBSET DOMAIN s
             /\ Cardinality(t \ {Pick(t)}) = Cardinality(t) - 1
  <2>1. Pick(t) \in t
    BY <1>4 DEF Pick
  <2>2. Cardinality(t \ {Pick(t)}) = Cardinality(t) - 1
    BY <1>3, <2>1, FS_RemoveElement
  <2> QED
    BY <2>1, <2>2
<1>5. \A i \in DOMAIN s : s[i].size \in Nat
  <2>1. \A i \in DOMAIN s : s[i] \in Message
    BY <1>1
  <2> QED
    BY <2>1, RunAssumption DEF Message
<1> QED
  BY <1>1, <1>3, <1>4, <1>5

\* The fold is defined on the small sets, and so on all.
FoldTo(s, n) == \E it \in [Small(s, n) -> Nat] : SumsOn(s, it, Small(s, n))

LEMMA FoldNone ==
  ASSUME NEW s \in Seq(Message)
  PROVE  FoldTo(s, 0)
<1>1. \A t \in Small(s, 0) : t = {}
  BY Positions, FS_EmptySet DEF Small
<1>2. [t \in Small(s, 0) |-> 0] \in [Small(s, 0) -> Nat]
  OBVIOUS
<1>3. SumsOn(s, [t \in Small(s, 0) |-> 0], Small(s, 0))
  BY <1>1 DEF SumsOn
<1> QED
  BY <1>2, <1>3, Zenon DEF FoldTo

LEMMA FoldOneMore ==
  ASSUME NEW s \in Seq(Message), NEW n \in Nat, FoldTo(s, n)
  PROVE  FoldTo(s, n + 1)
<1>1. PICK it \in [Small(s, n) -> Nat] : SumsOn(s, it, Small(s, n))
  BY DEF FoldTo
<1>2. ASSUME NEW t \in Small(s, n + 1), t # {}
      PROVE  t \ {Pick(t)} \in Small(s, n) /\ s[Pick(t)].size \in Nat
  BY <1>2, Positions DEF Small
<1>3. \A t \in Small(s, n) : t \in Small(s, n + 1)
  BY Positions DEF Small
<1>4. PICK jt : jt = [t \in Small(s, n + 1) |->
                       IF t = {} THEN 0 ELSE s[Pick(t)].size + it[t \ {Pick(t)}]]
  OBVIOUS
<1>5. jt \in [Small(s, n + 1) -> Nat]
  <2>1. \A t \in Small(s, n + 1) :
          (IF t = {} THEN 0 ELSE s[Pick(t)].size + it[t \ {Pick(t)}]) \in Nat
    <3>1. TAKE t \in Small(s, n + 1)
    <3>2. t # {} => it[t \ {Pick(t)}] \in Nat /\ s[Pick(t)].size \in Nat
      BY <1>1, <1>2
    <3> QED
      BY <3>2
  <2> QED
    BY <1>4, <2>1
<1>6. \A t \in Small(s, n) : jt[t] = it[t]
  BY <1>1, <1>3, <1>4 DEF SumsOn
<1>7. SumsOn(s, jt, Small(s, n + 1))
  BY <1>2, <1>4, <1>6 DEF SumsOn
<1> QED
  BY <1>5, <1>7, Zenon DEF FoldTo

LEMMA FoldAll ==
  ASSUME NEW s \in Seq(Message)
  PROVE  FoldTo(s, Len(s))
<1>1. PICK F : F = {n \in Nat : ~ FoldTo(s, n)}
  OBVIOUS
<1>2. ASSUME F # {}
      PROVE  FALSE
  <2>1. PICK n \in F : \A k \in F : n <= k
    BY <1>1, <1>2, Least
  <2>2. n \in Nat /\ ~ FoldTo(s, n)
    BY <1>1, <2>1
  <2>3. n # 0
    BY <2>2, FoldNone
  <2>4. n - 1 \in Nat /\ n - 1 \notin F
    BY <2>1, <2>2, <2>3
  <2>5. FoldTo(s, n - 1)
    BY <1>1, <2>4
  <2>6. FoldTo(s, (n - 1) + 1)
    BY <2>4, <2>5, FoldOneMore
  <2> QED
    BY <2>2, <2>6
<1>3. Len(s) \in Nat
  OBVIOUS
<1> QED
  BY <1>1, <1>2, <1>3

\* What the recursion of Size means.
LEMMA FoldsAgree ==
  ASSUME NEW s \in Seq(Message), NEW it, NEW jt,
         SumsOn(s, it, SUBSET DOMAIN s), SumsOn(s, jt, SUBSET DOMAIN s)
  PROVE  \A t \in SUBSET DOMAIN s : it[t] = jt[t]
<1>1. PICK F : F = {Cardinality(t) : t \in {u \in SUBSET DOMAIN s : it[u] # jt[u]}}
  OBVIOUS
<1>2. F \subseteq Nat
  BY <1>1, Positions
<1>3. ASSUME F # {}
      PROVE  FALSE
  <2>1. PICK n \in F : \A k \in F : n <= k
    BY <1>2, <1>3, Least
  <2>2. PICK t \in SUBSET DOMAIN s : it[t] # jt[t] /\ n = Cardinality(t)
    BY <1>1, <2>1
  <2>3. t # {}
    BY <2>2 DEF SumsOn
  <2>4. PICK u : u = t \ {Pick(t)}
    OBVIOUS
  <2>5. u \in SUBSET DOMAIN s /\ Cardinality(u) = n - 1 /\ n \in Nat
    <3>1. Cardinality(t) \in Nat
      BY Positions
    <3> QED
      BY <2>2, <2>3, <2>4, <3>1, Positions
  <2>6. Cardinality(u) \notin F
    BY <2>1, <2>5
  <2>7. it[u] = jt[u]
    BY <1>1, <2>5, <2>6
  <2> QED
    BY <2>2, <2>3, <2>4, <2>7 DEF SumsOn
<1> QED
  BY <1>1, <1>3

LEMMA SizeFold ==
  ASSUME NEW s \in Seq(Message)
  PROVE  \E it \in [SUBSET DOMAIN s -> Nat] :
           SumsOn(s, it, SUBSET DOMAIN s) /\ Size(s) = it[DOMAIN s]
<1>1. Small(s, Len(s)) = SUBSET DOMAIN s
  BY Positions DEF Small
<1>2. PICK it \in [SUBSET DOMAIN s -> Nat] : SumsOn(s, it, SUBSET DOMAIN s)
  BY <1>1, FoldAll DEF FoldTo
<1>3. Sums(s, it)
  BY <1>2 DEF Sums, SumsOn
<1>4. PICK jt : jt = CHOOSE i : Sums(s, i)
  OBVIOUS
<1>5. Sums(s, jt)
  BY <1>3, <1>4, Zenon
<1>6. SumsOn(s, jt, SUBSET DOMAIN s)
  BY <1>5 DEF Sums, SumsOn
<1>7. DOMAIN s \in SUBSET DOMAIN s
  OBVIOUS
<1>8. Size(s) = it[DOMAIN s]
  BY <1>2, <1>4, <1>6, <1>7, FoldsAgree, SizeIs
<1> QED
  BY <1>2, <1>8

\* In whatever order the fold takes the messages, each counts once.
LEMMA FoldAdds ==
  ASSUME NEW s \in Seq(Message), NEW it \in [SUBSET DOMAIN s -> Nat],
         SumsOn(s, it, SUBSET DOMAIN s)
  PROVE  \A t \in SUBSET DOMAIN s : \A x \in DOMAIN s \ t :
           it[t \cup {x}] = s[x].size + it[t]
<1>0. PICK Bad : Bad = {t \in SUBSET DOMAIN s :
                    \E x \in DOMAIN s \ t : it[t \cup {x}] # s[x].size + it[t]}
  OBVIOUS
<1>1. PICK F : F = {Cardinality(t) : t \in Bad}
  OBVIOUS
<1>2. F \subseteq Nat
  BY <1>0, <1>1, Positions
<1>3. ASSUME F # {}
      PROVE  FALSE
  <2>1. PICK n \in F : \A k \in F : n <= k
    BY <1>2, <1>3, Least
  <2>2. PICK t \in Bad : n = Cardinality(t)
    BY <1>1, <2>1
  <2>3. PICK x \in DOMAIN s \ t : it[t \cup {x}] # s[x].size + it[t]
    BY <1>0, <2>2
  <2>4. PICK v : v = t \cup {x}
    OBVIOUS
  <2>5. v \in SUBSET DOMAIN s /\ v # {}
    BY <1>0, <2>2, <2>3, <2>4
  <2>6. PICK y : y = Pick(v)
    OBVIOUS
  <2>7. y \in v /\ it[v] = s[y].size + it[v \ {y}]
    BY <2>5, <2>6, Positions DEF SumsOn
  <2>8. y # x
    <3>1. v \ {x} = t
      BY <2>3, <2>4
    <3> QED
      BY <2>3, <2>4, <2>7, <3>1
  <2>9. y \in t
    BY <2>4, <2>7, <2>8
  <2>10. PICK u : u = t \ {y}
    OBVIOUS
  <2>11. u \in SUBSET DOMAIN s /\ y \in DOMAIN s \ u /\ x \in DOMAIN s \ u
    BY <1>0, <2>2, <2>3, <2>9, <2>10
  <2>12. Cardinality(u) \notin F
    <3>1. IsFiniteSet(t) /\ Cardinality(t) = n /\ n \in Nat
      BY <1>0, <2>2, Positions
    <3>2. Cardinality(u) = n - 1
      BY <2>9, <2>10, <3>1, FS_RemoveElement
    <3> QED
      BY <2>1, <3>1, <3>2
  <2>13. u \notin Bad
    BY <1>1, <2>12
  <2>14. it[u \cup {x}] = s[x].size + it[u] /\ it[u \cup {y}] = s[y].size + it[u]
    BY <1>0, <2>11, <2>13
  <2>15. v \ {y} = u \cup {x} /\ u \cup {y} = t
    BY <2>3, <2>4, <2>8, <2>9, <2>10
  <2>16. it[u] \in Nat /\ s[x].size \in Nat /\ s[y].size \in Nat
    BY <2>11, Positions
  <2>17. it[v] = s[y].size + (s[x].size + it[u]) /\ it[t] = s[y].size + it[u]
    BY <2>7, <2>14, <2>15
  <2> QED
    BY <2>3, <2>4, <2>16, <2>17
<1>4. Bad = {}
  BY <1>1, <1>3
<1> QED
  BY <1>0, <1>4

\* The last j messages weigh the same in every suffix.
LEMMA FoldInterval ==
  ASSUME NEW s \in Seq(Message), NEW it \in [SUBSET DOMAIN s -> Nat],
         SumsOn(s, it, SUBSET DOMAIN s), NEW k \in 1 .. Len(s)
  PROVE  it[k .. Len(s)] = s[k].size + it[k + 1 .. Len(s)]
<1>1. PICK X : X = k + 1 .. Len(s)
  OBVIOUS
<1>2. X \in SUBSET DOMAIN s /\ k \in DOMAIN s \ X /\ k .. Len(s) = X \cup {k}
  BY <1>1
<1>3. it[X \cup {k}] = s[k].size + it[X]
  BY <1>2, FoldAdds
<1> QED
  BY <1>1, <1>2, <1>3

LEMMA SuffixFold ==
  ASSUME NEW s \in Seq(Message), NEW it \in [SUBSET DOMAIN s -> Nat],
         SumsOn(s, it, SUBSET DOMAIN s), NEW k \in 1 .. Len(s) + 1
  PROVE  Size(Suffix(s, k)) = it[k .. Len(s)]
<1>1. PICK u : u = Suffix(s, k)
  OBVIOUS
<1>2. PICK n, m : n = Len(s) /\ m = Len(s) - k + 1
  OBVIOUS
<1>3. n \in Nat /\ m \in Nat /\ k = n - m + 1 /\ k >= 1
  BY <1>2
<1>4. u \in Seq(Message) /\ Len(u) = m /\ \A i \in 1 .. m : u[i] = s[n - m + i]
  BY <1>1, <1>2, <1>3 DEF Suffix
<1>5. DOMAIN s = 1 .. n /\ DOMAIN u = 1 .. m
  BY <1>2, <1>4
<1>6. PICK jt \in [SUBSET DOMAIN u -> Nat] :
        SumsOn(u, jt, SUBSET DOMAIN u) /\ Size(u) = jt[DOMAIN u]
  BY <1>4, SizeFold
<1>7. PICK F : F = {j \in 0 .. m : jt[m - j + 1 .. m] # it[n - j + 1 .. n]}
  OBVIOUS
<1>8. 0 \notin F
  <2>1. m - 0 + 1 .. m = {} /\ n - 0 + 1 .. n = {}
    BY <1>3
  <2>2. jt[{}] = 0 /\ it[{}] = 0
    BY <1>6 DEF SumsOn
  <2> QED
    BY <1>7, <2>1, <2>2
<1>9. ASSUME NEW j \in 0 .. m, j # 0, j - 1 \notin F
      PROVE  j \notin F
  <2>1. j - 1 \in 0 .. m /\ j \in Nat
    BY <1>3, <1>9
  <2>2. jt[m - (j - 1) + 1 .. m] = it[n - (j - 1) + 1 .. n]
    BY <1>7, <1>9, <2>1
  <2>3. PICK x, y : x = m - j + 1 /\ y = n - j + 1
    OBVIOUS
  <2>4. /\ x \in 1 .. m /\ y \in 1 .. n
        /\ y = n - m + x
        /\ m - (j - 1) + 1 = x + 1 /\ n - (j - 1) + 1 = y + 1
    BY <1>3, <1>9, <2>1, <2>3
  <2>8. jt[x .. m] = u[x].size + jt[x + 1 .. m]
    BY <1>4, <1>6, <2>4, FoldInterval
  <2>9. it[y .. n] = s[y].size + it[y + 1 .. n]
    BY <1>2, <2>4, FoldInterval
  <2>10. u[x] = s[y]
    BY <1>4, <2>4
  <2>11. jt[x .. m] = it[y .. n]
    BY <2>2, <2>4, <2>8, <2>9, <2>10
  <2> QED
    BY <1>7, <2>3, <2>11
<1>10. F = {}
  <2>1. SUFFICES ASSUME F # {}
                 PROVE  FALSE
    OBVIOUS
  <2>2. F \subseteq Nat
    BY <1>3, <1>7
  <2>3. PICK j \in F : \A i \in F : j <= i
    BY <2>1, <2>2, Least
  <2>4. j \in 0 .. m /\ j # 0
    BY <1>7, <1>8, <2>3
  <2>5. j - 1 \notin F
    BY <2>2, <2>3, <2>4
  <2> QED
    BY <1>9, <2>3, <2>4, <2>5
<1>11. jt[m - m + 1 .. m] = it[n - m + 1 .. n]
  <2>1. m \in 0 .. m /\ m \notin F
    BY <1>3, <1>10
  <2> QED
    BY <1>7, <2>1
<1> QED
  BY <1>1, <1>2, <1>3, <1>5, <1>6, <1>11

\* A later suffix is no bigger, and the empty one has no size.
LEMMA SuffixSizes ==
  ASSUME NEW s \in Seq(Message)
  PROVE  /\ Size(s) = Size(Suffix(s, 1))
         /\ Size(Suffix(s, Len(s) + 1)) = 0
         /\ \A k \in 1 .. Len(s) + 1 : Size(Suffix(s, k)) \in Nat
         /\ \A k, l \in 1 .. Len(s) + 1 :
              k <= l => Size(Suffix(s, l)) <= Size(Suffix(s, k))
<1>1. PICK it \in [SUBSET DOMAIN s -> Nat] :
        SumsOn(s, it, SUBSET DOMAIN s) /\ Size(s) = it[DOMAIN s]
  BY SizeFold
<1>2. PICK n : n = Len(s)
  OBVIOUS
<1>3. n \in Nat /\ DOMAIN s = 1 .. n
  BY <1>2
<1>4. \A k \in 1 .. n + 1 : /\ Size(Suffix(s, k)) = it[k .. n]
                            /\ k .. n \in SUBSET DOMAIN s /\ it[k .. n] \in Nat
  <2>1. TAKE k \in 1 .. n + 1
  <2>2. k \in 1 .. Len(s) + 1
    BY <1>2
  <2>3. Size(Suffix(s, k)) = it[k .. n]
    BY <1>1, <1>2, <2>2, SuffixFold
  <2>4. k .. n \in SUBSET DOMAIN s
    BY <1>3
  <2> QED
    BY <1>1, <2>3, <2>4
<1>5. Size(s) = Size(Suffix(s, 1))
  BY <1>1, <1>3, <1>4
<1>6. Size(Suffix(s, n + 1)) = 0
  <2>1. n + 1 .. n = {} /\ n + 1 \in 1 .. n + 1
    BY <1>3
  <2>2. it[{}] = 0
    BY <1>1 DEF SumsOn
  <2> QED
    BY <1>4, <2>1, <2>2
<1>7. \A k \in 1 .. n : it[k + 1 .. n] <= it[k .. n]
  <2>1. TAKE k \in 1 .. n
  <2>2. PICK X : X = k + 1 .. n
    OBVIOUS
  <2>3. X \in SUBSET DOMAIN s /\ k \in DOMAIN s \ X /\ k .. n = X \cup {k}
    BY <1>3, <2>2
  <2>4. it[k .. n] = s[k].size + it[X]
    BY <1>1, <1>2, <2>2, FoldInterval
  <2>5. s[k].size \in Nat /\ it[X] \in Nat
    BY <1>1, <2>3, Positions
  <2> QED
    BY <2>2, <2>4, <2>5
<1>8. ASSUME NEW k \in 1 .. n + 1
      PROVE  \A l \in k .. n + 1 : it[l .. n] <= it[k .. n]
  <2>1. PICK F : F = {l \in k .. n + 1 : ~ (it[l .. n] <= it[k .. n])}
    OBVIOUS
  <2>2. ASSUME F # {}
        PROVE  FALSE
    <3>1. F \subseteq Nat
      BY <1>3, <1>8, <2>1
    <3>2. PICK l \in F : \A i \in F : l <= i
      BY <2>2, <3>1, Least
    <3>3. l \in k .. n + 1 /\ ~ (it[l .. n] <= it[k .. n])
      BY <2>1, <3>2
    <3>4. it[k .. n] \in Nat
      BY <1>4
    <3>5. l # k
      BY <3>3, <3>4
    <3>6. PICK j : j = l - 1
      OBVIOUS
    <3>7. j \in k .. n + 1 /\ j \in 1 .. n /\ j + 1 = l /\ j \in 1 .. n + 1 /\ l \in 1 .. n + 1
      BY <1>3, <1>8, <3>3, <3>5, <3>6
    <3>8. j \notin F
      BY <3>1, <3>2, <3>6, <3>7
    <3>9. it[j .. n] <= it[k .. n]
      BY <2>1, <3>7, <3>8
    <3>10. it[l .. n] <= it[j .. n]
      BY <1>7, <3>7
    <3>11. it[l .. n] \in Nat /\ it[j .. n] \in Nat
      BY <1>4, <3>7
    <3> QED
      BY <3>3, <3>4, <3>9, <3>10, <3>11
  <2> QED
    BY <2>1, <2>2
<1>9. \A k, l \in 1 .. n + 1 : k <= l => it[l .. n] <= it[k .. n]
  BY <1>3, <1>8
<1> QED
  BY <1>2, <1>4, <1>5, <1>6, <1>9
-----------------------------------------------------------------------------
(* The context of a run. *)

\* Only a turn that calls tools has calls.
OnlyCalls == \A i \in 1 .. Len(messages) : messages[i].calls # 0 => messages[i].kind = "calls"

\* The first message after position k and, if it calls tools, their results.
Whole(s, k) == IF s[k].kind = "calls" THEN k + s[k].calls + 1 ELSE k

LEMMA StepCalls == Typed /\ OnlyCalls /\ [Next]_vars => OnlyCalls'
<1> SUFFICES ASSUME Typed, OnlyCalls, [Next]_vars PROVE OnlyCalls'
  OBVIOUS
<1>0. Len(messages) \in Nat
  BY DEF Typed, TypeOK
<1>1. CASE UNCHANGED messages
  BY <1>1 DEF OnlyCalls
<1>2. ASSUME NEW size \in Sizes, Summarize(size) \/ SummaryLost(size)
      PROVE  OnlyCalls'
  <2>1. PICK t \in Message :
          /\ Cut(messages) \in 2 .. Len(messages) /\ t.calls = 0
          /\ Len(messages') = Len(messages) - Cut(messages) + 2
          /\ messages'[1] = t
          /\ \A i \in 2 .. Len(messages') : messages'[i] = messages[Cut(messages) + i - 2]
    BY <1>2, CompactStep
  <2>2. PICK c : c = Cut(messages)
    OBVIOUS
  <2>3. \A i \in 2 .. Len(messages') : c + i - 2 \in 1 .. Len(messages)
    BY <1>0, <2>1, <2>2
  <2>4. Len(messages') \in Nat
    BY <1>0, <2>1, <2>2
  <2>5. ASSUME NEW i \in 1 .. Len(messages'), messages'[i].calls # 0
        PROVE  messages'[i].kind = "calls"
    <3>1. i # 1
      BY <2>1, <2>5
    <3>2. i \in 2 .. Len(messages')
      BY <2>4, <3>1
    <3> QED
      BY <2>1, <2>2, <2>3, <2>5, <3>2 DEF OnlyCalls
  <2> QED
    BY <2>5 DEF OnlyCalls
<1>3. ASSUME NEW size \in Sizes,
             ModelAnswers(size) \/ \E n \in 1 .. MaxCalls : ModelCalls(n, size)
      PROVE  OnlyCalls'
  BY <1>0, <1>3, ModelStep DEF OnlyCalls
<1>4. CASE Tools
  <2>1. PICK n : n = messages[Len(messages)].calls
    OBVIOUS
  <2>2. /\ n \in Nat /\ Len(messages') = Len(messages) + n
        /\ \A i \in 1 .. Len(messages) : messages'[i] = messages[i]
        /\ \A i \in Len(messages) + 1 .. Len(messages') : messages'[i].calls = 0
    BY <1>4, <2>1, ToolsMessages, RunAssumption
  <2> QED
    BY <1>0, <2>2 DEF OnlyCalls
<1> QED
  BY <1>1, <1>2, <1>3, <1>4 DEF Next, PassOn, RunFails, Terminating, vars

\* Beyond the calls it begins with, what a cut keeps fits the budget, unless
\* it is the newest message.
LEMMA KeptFits ==
  ASSUME NEW s \in Seq(Message), Len(s) >= 1, PairedUpTo(s, Len(s)),
         \A i \in 1 .. Len(s) : s[i].calls # 0 => s[i].kind = "calls"
  PROVE  \/ Cut(s) = Len(s)
         \/ /\ Whole(s, Cut(s)) \in Cut(s) .. Len(s) + 1
            /\ Size(Suffix(s, Whole(s, Cut(s)))) <= Keep
<1>1. PICK c, n, w : c = Cut(s) /\ n = Newest(s) /\ w = Whole(s, c)
  OBVIOUS
<1>2. n \in 1 .. Len(s) /\ Fits(s, n)
  BY <1>1, NewestType
<1>3. c \in 1 .. n /\ (c = 1 \/ s[c].kind # "tool") /\ \A i \in c + 1 .. n : s[i].kind = "tool"
  BY <1>1, CutIs
<1>4. c \in 1 .. Len(s) /\ s[c].calls \in Nat
  BY <1>2, <1>3, MessageCalls
<1>5. s[c].kind # "tool"
  <2>1. ~ \E j \in 1 .. 1 - 1 : 1 <= j + s[j].calls
    OBVIOUS
  <2> QED
    BY <1>3, <1>4, <2>1 DEF PairedUpTo
<1>6. CASE c # n
  <2>1. n \in c + 1 .. n /\ s[n].kind = "tool"
    BY <1>2, <1>3, <1>6
  <2>2. PICK j \in 1 .. n - 1 : n <= j + s[j].calls
    BY <1>2, <2>1 DEF PairedUpTo
  <2>3. j \in 1 .. Len(s) /\ s[j].calls \in Nat
    BY <1>2, <2>2, MessageCalls
  <2>4. ~ (j < c)
    <3>1. SUFFICES ASSUME j < c PROVE FALSE
      OBVIOUS
    <3>2. c \in j + 1 .. j + s[j].calls
      BY <1>2, <1>3, <1>4, <2>2, <2>3, <3>1
    <3> QED
      BY <1>5, <2>3, <3>2 DEF PairedUpTo
  <2>5. ~ (j > c)
    <3>1. SUFFICES ASSUME j > c PROVE FALSE
      OBVIOUS
    <3>2. j \in c + 1 .. n
      BY <1>2, <1>3, <2>2, <3>1
    <3>3. s[j].kind = "tool" /\ s[j].calls # 0
      BY <1>2, <1>3, <2>2, <2>3, <3>2
    <3> QED
      BY <2>3, <3>3
  <2>6. j = c
    BY <1>3, <2>2, <2>4, <2>5
  <2>7. s[c].calls # 0 /\ n <= c + s[c].calls
    BY <1>2, <1>3, <1>6, <2>2, <2>6
  <2>8. w = c + s[c].calls + 1 /\ c + s[c].calls <= Len(s)
    BY <1>1, <1>4, <2>7 DEF Whole, PairedUpTo
  <2>9. w \in c .. Len(s) + 1 /\ n <= w /\ w \in 1 .. Len(s) + 1
    BY <1>2, <1>3, <1>4, <2>7, <2>8
  <2>10. CASE n = Len(s)
    <3>1. w = Len(s) + 1
      <4>1. PICK k : k = s[c].calls
        OBVIOUS
      <4>2. Len(s) <= c + k /\ w = c + k + 1 /\ c + k <= Len(s)
        BY <2>7, <2>8, <2>10, <4>1
      <4> QED
        BY <1>4, <4>1, <4>2
    <3>2. Size(Suffix(s, w)) <= Keep
      BY <3>1, SuffixSizes, RunAssumption
    <3> QED
      BY <1>1, <2>9, <3>2
  <2>11. CASE n # Len(s)
    <3>1. Size(Suffix(s, n)) <= Keep
      BY <1>2, <2>11 DEF Fits
    <3>2. n \in 1 .. Len(s) + 1
      BY <1>2
    <3>3. /\ Size(Suffix(s, w)) <= Size(Suffix(s, n))
          /\ Size(Suffix(s, w)) \in Nat /\ Size(Suffix(s, n)) \in Nat
      BY <2>9, <3>2, SuffixSizes
    <3>4. Size(Suffix(s, w)) <= Keep
      BY <3>1, <3>3, RunAssumption
    <3> QED
      BY <1>1, <2>9, <3>4
  <2> QED
    BY <2>10, <2>11
<1>7. CASE c = n /\ c # Len(s)
  <2>1. Size(Suffix(s, c)) <= Keep
    BY <1>2, <1>7 DEF Fits
  <2>2. CASE s[c].kind # "calls"
    BY <1>1, <1>4, <2>1, <2>2 DEF Whole
  <2>3. CASE s[c].kind = "calls"
    <3>1. w = c + s[c].calls + 1 /\ c + s[c].calls <= Len(s)
      BY <1>1, <1>4, <2>3 DEF Whole, PairedUpTo
    <3>2. w \in c .. Len(s) + 1 /\ c <= w /\ w \in 1 .. Len(s) + 1 /\ c \in 1 .. Len(s) + 1
      BY <1>4, <3>1
    <3>3. /\ Size(Suffix(s, w)) <= Size(Suffix(s, c))
          /\ Size(Suffix(s, w)) \in Nat /\ Size(Suffix(s, c)) \in Nat
      BY <3>2, SuffixSizes
    <3>4. Size(Suffix(s, w)) <= Keep
      BY <2>1, <3>3, RunAssumption
    <3> QED
      BY <1>1, <3>2, <3>4
  <2> QED
    BY <2>2, <2>3
<1> QED
  BY <1>1, <1>6, <1>7

LEMMA SuffixIs ==
  ASSUME NEW s \in Seq(Message), NEW k \in 1 .. Len(s) + 1
  PROVE  /\ Suffix(s, k) \in Seq(Message) /\ Len(Suffix(s, k)) = Len(s) - k + 1
         /\ \A i \in 1 .. Len(s) - k + 1 : Suffix(s, k)[i] = s[k + i - 1]
<1>1. PICK n : n = Len(s)
  OBVIOUS
<1>2. n \in Nat /\ k \in Nat /\ k >= 1 /\ k <= n + 1
  BY <1>1
<1>3. PICK u : u = SubSeq(s, k, n)
  OBVIOUS
<1>4. u \in Seq(Message) /\ Len(u) = n - k + 1
  BY <1>1, <1>2, <1>3
<1>5. \A i \in 1 .. n - k + 1 : u[i] = s[k + i - 1]
  BY <1>1, <1>2, <1>3
<1> QED
  BY <1>1, <1>3, <1>4, <1>5 DEF Suffix

LEMMA StepContext ==
  Typed /\ PairsInv /\ OnlyCalls /\ ContextBounded /\ [Next]_vars => ContextBounded'
<1> SUFFICES ASSUME Typed, PairsInv, OnlyCalls, ContextBounded, [Next]_vars
             PROVE  ContextBounded'
  OBVIOUS
<1>1. CASE UNCHANGED vars
  BY <1>1 DEF ContextBounded, vars
<1>2. ASSUME NEW s, s = messages
      PROVE  s \in Seq(Message) /\ Len(s) >= 1 /\ Len(s) \in Nat
  BY <1>2 DEF Typed, TypeOK
<1>3. ASSUME NEW s, s = messages, pc = "compact"
      PROVE  \/ Cut(s) = Len(s)
             \/ /\ Whole(s, Cut(s)) \in Cut(s) .. Len(s) + 1
                /\ Size(Suffix(s, Whole(s, Cut(s)))) <= Keep
  <2>1. s \in Seq(Message) /\ Len(s) >= 1 /\ PairedUpTo(s, Len(s))
    BY <1>2, <1>3 DEF PairsInv
  <2>2. \A i \in 1 .. Len(s) : s[i].calls # 0 => s[i].kind = "calls"
    BY <1>3 DEF OnlyCalls
  <2> QED
    BY <2>1, <2>2, KeptFits
<1>4. CASE PassOn
  <2>1. PICK s : s = messages
    OBVIOUS
  <2>2. messages' = s /\ ~ Due /\ pc = "compact"
    BY <1>4, <2>1 DEF PassOn, Running
  <2>3. CASE Size(s) < Threshold
    BY <2>2, <2>3 DEF ContextBounded
  <2>4. CASE ~ (Size(s) < Threshold)
    <3>1. Size(s) \in Nat
      <4>1. 1 \in 1 .. Len(s) + 1 /\ s \in Seq(Message)
        BY <1>2, <2>1
      <4> QED
        BY <4>1, SuffixSizes
    <3>2. Cut(s) = 1
      BY <1>2, <2>1, <2>2, <2>4, <3>1, CutType, RunAssumption DEF Due
    <3>3. CASE Len(s) = 1
      BY <2>2, <3>3 DEF ContextBounded
    <3>4. CASE Len(s) # 1
      <4>1. Size(Suffix(s, Whole(s, 1))) <= Keep
        BY <1>3, <2>1, <2>2, <3>2, <3>4
      <4> QED
        BY <2>2, <4>1 DEF ContextBounded, Whole
    <3> QED
      BY <3>3, <3>4
  <2> QED
    BY <2>3, <2>4
<1>5. ASSUME NEW size \in Sizes, Summarize(size) \/ SummaryLost(size)
      PROVE  ContextBounded'
  <2>1. PICK s, q, c : s = messages /\ q = messages' /\ c = Cut(messages)
    OBVIOUS
  <2>2. /\ c \in 2 .. Len(s) /\ q \in Seq(Message) /\ Len(q) = Len(s) - c + 2
        /\ \A i \in 2 .. Len(q) : q[i] = s[c + i - 2]
    BY <1>5, <2>1, CompactStep
  <2>3. pc = "compact"
    BY <1>5 DEF Summarize, SummaryLost, Running
  <2>4. s \in Seq(Message) /\ Len(s) \in Nat
    BY <1>2, <2>1
  <2>5. CASE c = Len(s)
    <3>1. Len(q) = 2
      BY <2>2, <2>4, <2>5
    <3> QED
      BY <2>1, <3>1 DEF ContextBounded
  <2>6. CASE c # Len(s)
    <3>1. PICK w : w = Whole(s, c)
      OBVIOUS
    <3>2. w \in c .. Len(s) + 1 /\ Size(Suffix(s, w)) <= Keep
      BY <1>3, <2>1, <2>3, <2>6, <3>1
    <3>3. q[2] = s[c]
      BY <2>2, <2>4, <2>6
    <3>4. s[c].calls \in Nat
      BY <2>2, <2>4, MessageCalls
    <3>5. Whole(q, 2) = w - c + 2
      <4>1. PICK k : k = s[c].calls
        OBVIOUS
      <4>2. w = IF s[c].kind = "calls" THEN c + k + 1 ELSE c
        BY <3>1, <4>1 DEF Whole
      <4>3. Whole(q, 2) = IF s[c].kind = "calls" THEN 2 + k + 1 ELSE 2
        BY <3>3, <4>1 DEF Whole
      <4>4. c \in Nat /\ k \in Nat
        BY <2>2, <2>4, <3>4, <4>1
      <4> QED
        BY <4>2, <4>3, <4>4
    <3>6. PICK v : v = w - c + 2
      OBVIOUS
    <3>7. Suffix(q, v) = Suffix(s, w)
      <4>1. v \in 2 .. Len(q) + 1 /\ w \in 1 .. Len(s) + 1
        <5>1. PICK n, m : n = Len(s) /\ m = Len(q)
          OBVIOUS
        <5>2. n \in Nat /\ c \in 2 .. n /\ m = n - c + 2 /\ w \in c .. n + 1
          BY <2>2, <2>4, <3>2, <5>1
        <5> QED
          BY <3>6, <5>1, <5>2
      <4>2. PICK a, b : a = Suffix(q, v) /\ b = Suffix(s, w)
        OBVIOUS
      <4>3. /\ a \in Seq(Message) /\ Len(a) = Len(q) - v + 1
            /\ \A i \in 1 .. Len(q) - v + 1 : a[i] = q[v + i - 1]
        <5>1. q \in Seq(Message) /\ v \in 1 .. Len(q) + 1
          BY <2>2, <4>1
        <5> QED
          BY <4>2, <5>1, SuffixIs
      <4>4. /\ b \in Seq(Message) /\ Len(b) = Len(s) - w + 1
            /\ \A i \in 1 .. Len(s) - w + 1 : b[i] = s[w + i - 1]
        BY <2>4, <4>1, <4>2, SuffixIs
      <4>5. Len(a) = Len(b)
        BY <2>2, <2>4, <3>2, <3>6, <4>3, <4>4
      <4>6. \A i \in 1 .. Len(a) : a[i] = b[i]
        <5>1. TAKE i \in 1 .. Len(a)
        <5>2. v + i - 1 \in 2 .. Len(q) /\ c + (v + i - 1) - 2 = w + i - 1
          BY <2>2, <2>4, <3>2, <3>6, <4>1, <4>3
        <5>3. a[i] = q[v + i - 1] /\ b[i] = s[w + i - 1]
          BY <4>3, <4>4, <4>5
        <5> QED
          BY <2>2, <5>2, <5>3
      <4>7. a = b
        BY <4>3, <4>4, <4>5, <4>6
      <4> QED
        BY <4>2, <4>7
    <3>8. Size(Suffix(q, Whole(q, 2))) <= Keep
      BY <3>2, <3>5, <3>6, <3>7
    <3> QED
      BY <2>1, <3>8 DEF ContextBounded, Whole
  <2> QED
    BY <2>5, <2>6
<1>6. CASE pc' # "agent"
  BY <1>6 DEF ContextBounded
<1> QED
  BY <1>1, <1>4, <1>5, <1>6
     DEF Next, ModelAnswers, ModelCalls, Tools, RunFails, Terminating

(***************************************************************************)
(* Compaction keeps a run in the context window, for every threshold,      *)
(* budget and size of messages.                                            *)
(***************************************************************************)
THEOREM ContextHolds == Spec => []ContextBounded
<1>1. Init => Typed /\ PairsInv /\ OnlyCalls /\ ContextBounded
  <2>1. Init => OnlyCalls
    BY InitMessages DEF OnlyCalls
  <2>2. Init => ContextBounded
    BY DEF Init, ContextBounded
  <2> QED
    BY <2>1, <2>2, InitTyped, InitPairs
<1>2. Typed /\ PairsInv /\ OnlyCalls /\ ContextBounded /\ [Next]_vars
        => (Typed /\ PairsInv /\ OnlyCalls /\ ContextBounded)'
  BY StepTyped, StepPairs, StepCalls, StepContext
<1> QED
  BY <1>1, <1>2, PTL DEF Spec

-----------------------------------------------------------------------------
(* The stream of a Send. *)

\* The last summary that names a row, as Chat allows for one.
ReportInv ==
  \/ report = NoReport
  \/ \E i \in start + 1 .. Rows :
       \/ report = [through |-> i, covers |-> 1 .. i]
       \/ /\ SummaryFaults /\ report.covers # {}
          /\ \E k \in {0} \cup (start + 1 .. Rows) :
               report = [through |-> i,
                         covers  |-> {j \in start + 1 .. Rows : k < j /\ j <= i}]

\* A summary through row i stands for the rows up to i that are not lost.
LEMMA SummaryCovers ==
  ASSUME Typed, HistoryInv, Cut(messages) \in 2 .. Len(messages),
         NewestRow(Folded(messages)) # 0
  PROVE  LET i == NewestRow(Folded(messages))
             C == Stands(Folded(messages))
         IN  /\ i \in start + 1 .. Rows /\ i \in C
             /\ C = {x \in Ids \ lost : x <= i}
<1>1. messages \in Seq(Message) /\ Len(messages) >= 1 /\ start \in 0 .. Rows
  BY DEF Typed, TypeOK
<1>2. PICK F : F = Folded(messages)
  OBVIOUS
<1>3. PICK c : c = Cut(messages)
  OBVIOUS
<1>4. /\ F \in Seq(Message) /\ Len(F) = c - 1 /\ c \in 2 .. Len(messages)
      /\ \A q \in 1 .. c - 1 : F[q] = messages[q]
  BY <1>1, <1>2, <1>3, FoldedMessages
<1>5. PICK i : i = NewestRow(F)
  OBVIOUS
<1>6. PICK C : C = Stands(F)
  OBVIOUS
<1>7. /\ \A x : x \in C <=> \E q \in 1 .. c - 1 : x \in messages[q].stands
      /\ \A x \in C : \A q \in c .. Len(messages) : \A y \in messages[q].stands : x < y
  BY <1>2, <1>3, <1>6, FoldedRows
<1>8. i \in Ids /\ (\E p \in 1 .. Len(F) : F[p].row = i) /\ \A q \in 1 .. Len(F) : F[q].row <= i
  BY <1>2, <1>4, <1>5, NewestRowIs
<1>9. PICK p \in 1 .. c - 1 : messages[p].row = i
  BY <1>4, <1>8
<1>10. \A q \in 1 .. c - 1 : messages[q].row <= i
  BY <1>4, <1>8
<1>11. \A q \in 1 .. c - 1 : q \in 1 .. Len(messages)
  BY <1>4
<1>12. i \in Nat /\ i # 0
  BY <1>8, RunAssumption DEF Ids
<1>13. messages[p].stands = {i} /\ i > start
  BY <1>9, <1>11, <1>12 DEF HistoryInv, Shape
<1>14. i \in start + 1 .. Rows /\ i \in C
  BY <1>1, <1>7, <1>8, <1>9, <1>13, RunAssumption DEF Ids
<1>15. Stands(messages) = Ids \ lost /\ Ordered
  BY DEF HistoryInv, HistoryKept, Ordered
<1>16. ASSUME NEW x \in C
       PROVE  x \in Ids \ lost /\ x <= i
  <2>1. PICK q \in 1 .. c - 1 : x \in messages[q].stands
    BY <1>7
  <2>2. x \in Ids \ lost
    BY <1>11, <1>15, <2>1, StandsOf
  <2>3. CASE messages[q].row # 0
    <3>1. messages[q].stands = {messages[q].row}
      BY <1>11, <2>3 DEF HistoryInv, Shape
    <3>2. x = messages[q].row
      BY <2>1, <3>1
    <3> QED
      BY <1>10, <2>2, <3>2
  <2>4. CASE messages[q].row = 0
    <3>1. q = 1
      BY <1>11, <2>1, <2>4 DEF HistoryInv, Shape
    <3>2. p # 1
      BY <1>9, <1>12, <2>4, <3>1
    <3>3. q < p
      BY <1>4, <3>1, <3>2
    <3>4. x < i
      BY <1>11, <1>13, <1>15, <2>1, <3>3 DEF Ordered
    <3> QED
      BY <1>12, <2>2, <3>4, RunAssumption DEF Ids
  <2> QED
    BY <2>3, <2>4
<1>17. ASSUME NEW x \in Ids \ lost, x <= i
       PROVE  x \in C
  <2>1. PICK q \in 1 .. Len(messages) : x \in messages[q].stands
    BY <1>15, <1>17, StandsOf
  <2>2. CASE q \in 1 .. c - 1
    BY <1>7, <2>1, <2>2
  <2>3. CASE q \in c .. Len(messages)
    <3>1. i < x
      BY <1>7, <1>14, <2>1, <2>3
    <3> QED
      BY <1>12, <1>17, <3>1, RunAssumption DEF Ids
  <2> QED
    BY <1>4, <2>2, <2>3
<1>18. C = {x \in Ids \ lost : x <= i}
  BY <1>16, <1>17
<1> QED
  BY <1>2, <1>5, <1>6, <1>14, <1>18

\* What is lost is the oldest rows, through one that the run was not given.
LEMMA LostRows ==
  ASSUME Typed, HistoryInv, lost # {}
  PROVE  /\ SummaryFaults
         /\ \E k \in {0} \cup (start + 1 .. Rows) :
              \A x \in Ids : x \notin lost <=> x \in start + 1 .. Rows /\ k < x
<1>1. start \in 0 .. Rows /\ lost \subseteq Ids /\ Rows \in Nat
  BY RunAssumption DEF Typed, TypeOK
<1>2. SummaryFaults /\ 1 .. start \subseteq lost
  BY DEF HistoryInv, Shape
<1>3. lost \subseteq 0 .. Rows
  BY <1>1 DEF Ids
<1>4. PICK m \in lost : \A x \in lost : x <= m
  BY <1>1, <1>3, Greatest
<1>5. \A x \in Ids : x < m => x \in lost
  <2>1. SUFFICES ASSUME NEW x \in Ids, x < m, x \notin lost
                 PROVE  FALSE
    OBVIOUS
  <2>2. x \in Stands(messages) /\ m \in Ids
    BY <1>1, <2>1 DEF HistoryInv, HistoryKept
  <2>3. m \in Stands(messages)
    BY <2>1, <2>2 DEF HistoryInv, HistoryKept
  <2> QED
    BY <2>3 DEF HistoryInv, HistoryKept
<1>6. \A x \in Ids : x \notin lost <=> m < x
  BY <1>1, <1>4, <1>5 DEF Ids
<1>7. start <= m
  BY <1>1, <1>2, <1>4 DEF Ids
<1>8. PICK k : k = IF m = start THEN 0 ELSE m
  OBVIOUS
<1>9. k \in {0} \cup (start + 1 .. Rows)
  BY <1>1, <1>4, <1>7, <1>8 DEF Ids
<1>10. \A x \in Ids : x \notin lost <=> x \in start + 1 .. Rows /\ k < x
  BY <1>1, <1>4, <1>6, <1>7, <1>8 DEF Ids
<1> QED
  BY <1>2, <1>9, <1>10

LEMMA SummarizeReport ==
  ASSUME Typed, HistoryInv, ReportInv, NEW size \in Sizes, Summarize(size)
  PROVE  ReportInv'
<1>1. PICK i : i = NewestRow(Folded(messages))
  OBVIOUS
<1>2. PICK C : C = Stands(Folded(messages))
  OBVIOUS
<1>3. report' = (IF i = 0 THEN report ELSE [through |-> i, covers |-> C]) /\ start' = start
  BY <1>1, <1>2 DEF Summarize, SummaryOf
<1>4. CASE i = 0
  BY <1>3, <1>4 DEF ReportInv
<1>5. CASE i # 0
  <2>1. Cut(messages) \in 2 .. Len(messages)
    BY CompactStep
  <2>2. i \in start + 1 .. Rows /\ i \in C /\ C = {x \in Ids \ lost : x <= i}
    BY <1>1, <1>2, <1>5, <2>1, SummaryCovers
  <2>3. start \in Nat /\ Rows \in Nat /\ lost \subseteq Ids
    BY RunAssumption DEF Typed, TypeOK
  <2>4. report' = [through |-> i, covers |-> C]
    BY <1>3, <1>5
  <2>5. CASE lost = {}
    <3>1. C = 1 .. i
      BY <2>2, <2>3, <2>5 DEF Ids
    <3> QED
      BY <1>3, <2>2, <2>4, <3>1 DEF ReportInv
  <2>6. CASE lost # {}
    <3>1. PICK k \in {0} \cup (start + 1 .. Rows) :
            \A x \in Ids : x \notin lost <=> x \in start + 1 .. Rows /\ k < x
      BY <2>6, LostRows
    <3>2. C = {j \in start + 1 .. Rows : k < j /\ j <= i}
      <4>1. \A x \in C : x \in start + 1 .. Rows /\ k < x /\ x <= i
        BY <2>2, <3>1
      <4>2. \A x \in start + 1 .. Rows : k < x /\ x <= i => x \in C
        <5>1. \A x \in start + 1 .. Rows : x \in Ids
          BY <2>3 DEF Ids
        <5> QED
          BY <2>2, <3>1, <5>1
      <4> QED
        BY <4>1, <4>2
    <3>3. report' = [through |-> i, covers |-> {j \in start + 1 .. Rows : k < j /\ j <= i}]
      BY <2>4, <3>2
    <3>4. report'.covers # {} /\ SummaryFaults
      BY <2>2, <2>4, <2>6, LostRows
    <3> QED
      BY <1>3, <2>2, <3>1, <3>3, <3>4 DEF ReportInv
  <2> QED
    BY <2>5, <2>6
<1> QED
  BY <1>4, <1>5

LEMMA StepReport == Typed /\ HistoryInv /\ ReportInv /\ [Next]_vars => ReportInv'
<1> SUFFICES ASSUME Typed, HistoryInv, ReportInv, [Next]_vars PROVE ReportInv'
  OBVIOUS
<1>1. ASSUME NEW size \in Sizes, Summarize(size)
      PROVE  ReportInv'
  BY <1>1, SummarizeReport
<1>2. CASE UNCHANGED <<start, report>>
  BY <1>2 DEF ReportInv
<1>3. (\E size \in Sizes : Summarize(size)) \/ UNCHANGED <<start, report>>
  BY DEF Next, vars, PassOn, SummaryLost, ModelCalls, ModelAnswers, Tools, RunFails, Terminating
<1> QED
  BY <1>1, <1>2, <1>3

\* The run as the caller sees it goes on, ends with a reply, or fails.
LEMMA StepCaller ==
  Typed /\ [Next]_vars =>
    \/ UNCHANGED Caller!vars
    \/ /\ pc = "agent" /\ pc' = "ended" /\ UNCHANGED <<searching, start, report>>
    \/ /\ pc \in Nodes /\ pc' = "failed" /\ UNCHANGED <<searching, start, report>>
<1> SUFFICES ASSUME Typed, [Next]_vars
    PROVE  \/ UNCHANGED Caller!vars
           \/ /\ pc = "agent" /\ pc' = "ended" /\ UNCHANGED <<searching, start, report>>
           \/ /\ pc \in Nodes /\ pc' = "failed" /\ UNCHANGED <<searching, start, report>>
  OBVIOUS
<1>1. CASE pc \in Nodes /\ pc' \in Nodes /\ start' = start
  BY <1>1 DEF Caller!vars, ReadBySend, Nodes
<1>2. CASE UNCHANGED vars
  BY <1>2 DEF Caller!vars, ReadBySend, vars
<1>3. CASE RunFails
  BY <1>3 DEF RunFails
<1>4. ASSUME NEW size \in Sizes, ModelAnswers(size)
      PROVE  pc = "agent" /\ pc' = "ended" /\ UNCHANGED <<searching, start, report>>
  BY <1>4 DEF ModelAnswers, Running
<1>5. \/ pc \in Nodes /\ pc' \in Nodes /\ start' = start
      \/ UNCHANGED vars
      \/ RunFails
      \/ \E size \in Sizes : ModelAnswers(size)
  BY DEF Next, PassOn, Summarize, SummaryLost, ModelCalls, Tools, Terminating, Running, Nodes
<1> QED
  BY <1>1, <1>2, <1>3, <1>4, <1>5

\* A summary reported is one of those a Send allows its run to hand back.
LEMMA ReportAllowed ==
  ASSUME Typed, ReportInv, report # NoReport, pc = "agent"
  PROVE  report \in Caller!Folds("send")
<1>1. start \in 0 .. Rows /\ Rows \in Nat
  BY RunAssumption DEF Typed, TypeOK
<1>2. PICK T : T = start + 1 .. Rows
  OBVIOUS
<1>3. \A i \in T : Caller!FoldThrough("send", i) = [through |-> i, covers |-> 1 .. i]
  <2>1. TAKE i \in T
  <2>2. Caller!FoldThrough("send", i)
          = [through |-> i, covers |-> 1 .. start \cup {j \in T : j <= i}]
    BY <1>2 DEF Caller!FoldThrough, ReadBySend
  <2>3. 1 .. start \cup {j \in T : j <= i} = 1 .. i
    BY <1>1, <1>2
  <2> QED
    BY <2>2, <2>3
<1>4. \A i \in T, k \in {0} \cup T :
        Caller!FoldAfterLoss("send", k, i)
          = [through |-> i, covers |-> {j \in T : k < j /\ j <= i}]
  BY <1>2 DEF Caller!FoldAfterLoss, ReadBySend
<1>5. ReadBySend["send"].tail = T
  BY <1>2 DEF ReadBySend
<1>6. /\ \A i \in T : Caller!FoldThrough("send", i) \in Caller!Folds("send")
      /\ \A i \in T, k \in {0} \cup T :
           SummaryFaults /\ Caller!FoldAfterLoss("send", k, i).covers # {}
             => Caller!FoldAfterLoss("send", k, i) \in Caller!Folds("send")
  BY <1>5 DEF Caller!Folds
<1>7. PICK i \in T :
        \/ report = [through |-> i, covers |-> 1 .. i]
        \/ /\ SummaryFaults /\ report.covers # {}
           /\ \E k \in {0} \cup T :
                report = [through |-> i, covers |-> {j \in T : k < j /\ j <= i}]
  BY <1>2 DEF ReportInv
<1>8. CASE report = [through |-> i, covers |-> 1 .. i]
  BY <1>3, <1>6, <1>8
<1>9. ASSUME SummaryFaults, report.covers # {}, NEW k \in {0} \cup T,
             report = [through |-> i, covers |-> {j \in T : k < j /\ j <= i}]
      PROVE  report \in Caller!Folds("send")
  <2>1. report = Caller!FoldAfterLoss("send", k, i)
    BY <1>4, <1>9
  <2> QED
    BY <1>6, <1>9, <2>1
<1> QED
  BY <1>7, <1>8, <1>9

LEMMA RunReplies ==
  ASSUME Typed, ReportInv, pc = "agent", pc' = "ended", UNCHANGED <<searching, start, report>>
  PROVE  Caller!AgentReplies("send")
BY ReportAllowed DEF Caller!AgentReplies, Caller!Goto, Caller!database, ReadBySend

LEMMA RunFailed ==
  ASSUME Typed, pc \in Nodes, pc' = "failed", UNCHANGED <<searching, start, report>>
  PROVE  Caller!AgentFails("send")
<1>1. Caller!AnyRequest = [user |-> "user", conv |-> "conv"]
  BY DEF Caller!AnyRequest
<1> QED
  BY <1>1
     DEF Nodes, Caller!AgentFails, Caller!Return, Caller!Goto, Caller!database,
         Caller!NoContext, Caller!NoSummary, NoReport, ReadBySend

(***************************************************************************)
(* The agent's run is the stream that the api's Send expects: for every    *)
(* conversation and whatever is compacted or lost on the way, its steps    *)
(* are steps of Chat's AgentReplies or AgentFails, or change nothing a     *)
(* Send can see; a subagent reports no summary.                            *)
(***************************************************************************)
THEOREM Implements == Spec => ImplementsStream
<1>1. Init => Typed /\ HistoryInv /\ ReportInv
  BY InitTyped, InitHistory DEF Init, ReportInv
<1>2. Typed /\ HistoryInv /\ ReportInv /\ [Next]_vars => (Typed /\ HistoryInv /\ ReportInv)'
  BY StepTyped, StepHistory, StepReport
<1>3. Typed /\ HistoryInv /\ ReportInv /\ [Next]_vars
        => [IF searching THEN report = NoReport
            ELSE Caller!AgentReplies("send") \/ Caller!AgentFails("send")]_(Caller!vars)
  <2>1. SUFFICES ASSUME Typed, HistoryInv, ReportInv, [Next]_vars, ~ UNCHANGED Caller!vars
                 PROVE  IF searching THEN report = NoReport
                        ELSE Caller!AgentReplies("send") \/ Caller!AgentFails("send")
    OBVIOUS
  <2>2. CASE searching
    <3>1. start + 1 .. Rows = {}
      BY <2>1, <2>2, RunAssumption DEF HistoryInv, Shape
    <3> QED
      BY <2>1, <2>2, <3>1 DEF ReportInv
  <2>3. CASE ~ searching
    BY <2>1, <2>3, StepCaller, RunReplies, RunFailed
  <2> QED
    BY <2>2, <2>3
<1> QED
  BY <1>1, <1>2, <1>3, PTL DEF Spec, ImplementsStream

=============================================================================
