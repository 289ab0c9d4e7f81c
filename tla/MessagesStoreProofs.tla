------------------------- MODULE MessagesStoreProofs -------------------------
(***************************************************************************)
(* Theorems about the web client's store, for every set of conversations   *)
(* and every number of sends: the types, that a stream being read has its  *)
(* bubble, that a conversation sends exactly while it is, that a reply     *)
(* once shown stays, and that the usage meter follows the charges.         *)
(***************************************************************************)
EXTENDS MessagesStore, SequenceTheorems, FiniteSetTheorems, TLAPS

\* The calls whose user row is stored, whose reply may be, and whose run the
\* api may have charged.
Posted  == {s \in Calls : call[s].api # "request"}
Replied == {s \in Calls : call[s].api \in {"stored", "charged", "returned"}}
Tried   == {s \in Calls : call[s].api \in {"charged", "returned"}}

\* Rows and charges are those of calls, each of which adds two and one; no
\* fetch has read more charges than there are.
Counted ==
  /\ nextRow <= Cardinality(Convs) + 1 + Cardinality(Posted)
                  + Cardinality(Replied)
  /\ used <= Cardinality(Tried)
  /\ \A s \in 0 .. MaxSends : poll[s].used <= used

\* When the meter is wrong, a fetch that will put it right is under way, or
\* the client has yet to be told of a charge.
Due ==
  \/ behind
  \/ meter = used
  \/ \E s \in Calls : call[s].api = "charged"
  \/ \E s \in 0 .. MaxSends :
       poll[s].at = "sent" \/ poll[s] = [at |-> "read", used |-> used]

Distinct(q) == \A i, j \in DOMAIN q : q[i].id = q[j].id => i = j

\* The rows of a conversation, and the answer of a load.
RowIds ==
  \A c \in Convs :
    /\ Distinct(rows[c]) /\ Distinct(get[c].rows)
    /\ \A i \in DOMAIN rows[c] : rows[c][i].id < nextRow
    /\ \A i \in DOMAIN get[c].rows : get[c].rows[i].id < nextRow

\* The ids of bubbles count down from 0, those of rows up.
CallIds ==
  /\ \A s \in Calls : tempId <= call[s].assistant /\ call[s].assistant < 0
  /\ \A s, t \in Calls : call[s].assistant = call[t].assistant => s = t

ReplyIds ==
  /\ \A s \in Calls : /\ call[s].reply < nextRow
                      /\ call[s].api \in {"stored", "charged"} => call[s].reply > 0
  /\ \A s, t \in Calls :
       call[s].reply = call[t].reply /\ call[s].reply # 0 => s = t

ShownIds ==
  \A c \in Convs :
    /\ Distinct(byId[c].messages)
    /\ \A m \in Range(byId[c].messages) :
         /\ tempId <= m.id /\ m.id # 0 /\ m.id < nextRow
         /\ m.streaming => m.id < 0

\* A reply is shown as its bubble or as its row, never as both.
NotBoth ==
  \A s \in Calls : \A m, n \in Range(byId[call[s].conv].messages) :
    m.id = call[s].assistant /\ n.id > 0 => n.id # call[s].reply

\* A conversation nobody has written in has not been opened; one that is
\* being loaded is taken for loaded.
Opened ==
  \A c \in Convs : /\ ~ Listed(c) => c \notin loaded
                   /\ get[c] # NoGet => c \in loaded

\* Before the rows are there, only a hasty user sees a message.
Unanswered ==
  \A c \in Convs : c \notin hasty /\ ~Answered(c) => byId[c].messages = <<>>

\* The call that Stop would abort is one of the conversation.
Controls ==
  \A c \in Convs : controllers[c] # 0 =>
    controllers[c] \in Calls /\ call[controllers[c]].conv = c

\* The stream of c that is read, if any, is shown and can be stopped; and
\* unless one broke, nothing is shown of any other.
StreamOK(c) ==
  /\ \A s \in Live(c) :
       /\ byId[c].sending /\ controllers[c] = s
       /\ \E m \in Range(byId[c].messages) :
            m.id = call[s].assistant /\ m.streaming
  /\ c \notin broken =>
       /\ byId[c].sending => Live(c) # {}
       /\ \A m \in Range(byId[c].messages) :
            m.streaming => \E s \in Live(c) : m.id = call[s].assistant

Streams == \A c \in Convs : c \notin hasty => StreamOK(c)

-----------------------------------------------------------------------------
(* The messages a filter keeps. *)

\* The k-th smallest of a set is one of its elements, and only one.
LEMMA Ranks ==
  ASSUME NEW K, K \subseteq Nat, IsFiniteSet(K)
  PROVE  /\ Cardinality(K) \in Nat
         /\ \A i \in 1 .. Cardinality(K) :
              \E k \in K : Cardinality({j \in K : j <= k}) = i
<1>1. PICK n : n = Cardinality(K)
  OBVIOUS
<1>2. n \in Nat
  BY <1>1, FS_CardinalityType
<1>3. PICK rank : rank = [k \in K |-> Cardinality({j \in K : j <= k})]
  OBVIOUS
<1>4. ASSUME NEW k \in K
      PROVE  rank[k] \in 1 .. n
  <2>1. PICK B : B = {j \in K : j <= k}
    OBVIOUS
  <2>2. IsFiniteSet(B) /\ Cardinality(B) \in Nat /\ Cardinality(B) <= n
    BY <1>1, <2>1, FS_Subset, FS_CardinalityType
  <2>3. B # {}
    BY <2>1
  <2>4. Cardinality(B) # 0
    BY <2>2, <2>3, FS_EmptySet
  <2>5. rank[k] = Cardinality(B)
    BY <1>3, <2>1
  <2> QED
    BY <1>2, <2>2, <2>4, <2>5
<1>5. ASSUME NEW k \in K, NEW l \in K, k < l
      PROVE  rank[k] < rank[l]
  <2>1. PICK B, C : B = {j \in K : j <= k} /\ C = {j \in K : j <= l}
    OBVIOUS
  <2>2. IsFiniteSet(C) /\ IsFiniteSet(B)
    BY <2>1, FS_Subset
  <2>3. B \subseteq C /\ B # C
    <3>1. \A j \in K : j <= k => j <= l
      BY <1>5
    <3>2. l \in C /\ l \notin B
      BY <1>5, <2>1
    <3> QED
      BY <2>1, <3>1, <3>2
  <2>4. /\ Cardinality(B) \in Nat /\ Cardinality(C) \in Nat
        /\ Cardinality(B) <= Cardinality(C) /\ Cardinality(B) # Cardinality(C)
    BY <2>2, <2>3, FS_Subset, FS_CardinalityType
  <2>5. rank[k] = Cardinality(B) /\ rank[l] = Cardinality(C)
    BY <1>3, <2>1
  <2> QED
    BY <2>4, <2>5
<1>6. rank \in Injection(K, 1 .. n)
  <2>1. rank \in [K -> 1 .. n]
    BY <1>3, <1>4
  <2>2. ASSUME NEW k \in K, NEW l \in K, rank[k] = rank[l]
        PROVE  k = l
    <3>1. k < l \/ l < k \/ k = l
      OBVIOUS
    <3> QED
      BY <1>2, <1>4, <1>5, <2>2, <3>1
  <2> QED
    BY <2>1, <2>2 DEF Injection, IsInjective
<1>7. IsFiniteSet(1 .. n) /\ Cardinality(1 .. n) = n
  BY <1>2, FS_Interval
<1>8. rank \in Surjection(K, 1 .. n)
  BY <1>1, <1>6, <1>7, FS_Injection
<1>9. \A i \in 1 .. n : \E k \in K : rank[k] = i
  BY <1>8 DEF Surjection
<1> QED
  BY <1>1, <1>2, <1>3, <1>9

\* p has the elements of q at the places K, each once.
Selects(at, p, q, K) ==
  /\ at \in [DOMAIN p -> K]
  /\ \A i \in DOMAIN p : p[i] = q[at[i]]
  /\ \A i, j \in DOMAIN p : at[i] = at[j] => i = j
  /\ \A k \in K : \E i \in DOMAIN p : at[i] = k

LEMMA KeptFacts ==
  ASSUME NEW q \in Seq(Shown), NEW K, K \subseteq DOMAIN q
  PROVE  /\ Kept(q, K) \in Seq(Shown)
         /\ \E at : Selects(at, Kept(q, K), q, K)
<1>1. Len(q) \in Nat /\ DOMAIN q = 1 .. Len(q) /\ \A k \in DOMAIN q : q[k] \in Shown
  BY LenProperties, ElementOfSeq
<1>2. K \subseteq Nat /\ IsFiniteSet(K)
  <2>1. K \subseteq 1 .. Len(q)
    BY <1>1
  <2>2. IsFiniteSet(1 .. Len(q))
    BY <1>1, FS_Interval
  <2> QED
    BY <1>1, <2>1, <2>2, FS_Subset
<1>3. PICK n : n = Cardinality(K)
  OBVIOUS
<1>4. n \in Nat /\ \A i \in 1 .. n :
                     \E k \in K : Cardinality({j \in K : j <= k}) = i
  BY <1>2, <1>3, Ranks
<1>5. PICK at : at = [i \in 1 .. n |->
                        CHOOSE k \in K : Cardinality({j \in K : j <= k}) = i]
  OBVIOUS
<1>6. \A i \in 1 .. n :
        at[i] \in K /\ Cardinality({j \in K : j <= at[i]}) = i
  BY <1>4, <1>5
<1>7. Kept(q, K) = [i \in 1 .. n |-> q[at[i]]]
  BY <1>3, <1>5 DEF Kept
<1>8. at \in [1 .. n -> K]
  BY <1>5, <1>6
<1>9. \A i, j \in 1 .. n : at[i] = at[j] => i = j
  BY <1>6
<1>10. at \in Injection(1 .. n, K)
  BY <1>8, <1>9 DEF Injection, IsInjective
<1>11. Cardinality(1 .. n) = n
  BY <1>4, FS_Interval
<1>12. at \in Surjection(1 .. n, K)
  BY <1>2, <1>3, <1>10, <1>11, FS_Injection
<1>13. \A k \in K : \E i \in 1 .. n : at[i] = k
  BY <1>12 DEF Surjection
<1>14. Kept(q, K) \in [1 .. n -> Shown]
  BY <1>1, <1>7, <1>8
<1>15. Kept(q, K) \in Seq(Shown)
  BY <1>4, <1>14, IsASeq
<1>16. DOMAIN Kept(q, K) = 1 .. n
  BY <1>7
<1>17. \A i \in 1 .. n : Kept(q, K)[i] = q[at[i]]
  BY <1>7
<1>18. Selects(at, Kept(q, K), q, K)
  BY <1>8, <1>9, <1>13, <1>16, <1>17 DEF Selects
<1> QED
  BY <1>15, <1>18

-----------------------------------------------------------------------------
(* What a step does to the calls and to the conversations shown. *)

LEMMA AsSequence ==
  ASSUME NEW S, NEW n \in Nat, NEW f \in [1 .. n -> S]
  PROVE  f \in Seq(S) /\ Len(f) = n
<1>1. f \in Seq(S)
  BY SeqDef
<1>2. Len(f) \in Nat /\ DOMAIN f = 1 .. Len(f) /\ DOMAIN f = 1 .. n
  BY <1>1, LenProperties
<1> QED
  BY <1>1, <1>2

LEMMA CallFunction ==
  ASSUME TypeOK
  PROVE  /\ Len(call) \in Nat /\ Len(call) <= MaxSends
         /\ Calls = 1 .. Len(call)
         /\ call \in [Calls -> Call]
         /\ Calls \subseteq 1 .. MaxSends
         /\ MaxSends \in Nat /\ MaxRow \in Nat
         /\ IsFiniteSet(Convs) /\ Cardinality(Convs) \in Nat
<1>1. Len(call) \in Nat /\ Calls = 1 .. Len(call) /\ call \in [Calls -> Call]
  BY LenProperties DEF TypeOK, Calls
<1>2. MaxSends \in Nat /\ IsFiniteSet(Convs)
  BY StoreAssumption
<1>3. Cardinality(Convs) \in Nat
  BY <1>2, FS_CardinalityType
<1>4. MaxRow \in Nat
  BY <1>2, <1>3 DEF MaxRow
<1>5. Len(call) <= MaxSends
  BY DEF TypeOK
<1> QED
  BY <1>1, <1>2, <1>3, <1>4, <1>5

LEMMA CallTypes ==
  ASSUME TypeOK, NEW s \in Calls
  PROVE  /\ call[s] \in Call
         /\ call[s].conv \in Convs /\ call[s].assistant \in Int
         /\ call[s].live \in BOOLEAN /\ call[s].reply \in 0 .. MaxRow
         /\ call[s].api \in {"request", "stream", "stored", "charged", "returned"}
BY CallFunction DEF Call

LEMMA StateTypes ==
  ASSUME TypeOK, NEW c \in Convs
  PROVE  /\ byId[c] \in ConvState
         /\ byId[c].messages \in Seq(Shown)
         /\ byId[c].loading \in BOOLEAN /\ byId[c].sending \in BOOLEAN
         /\ byId[c].error \in {"none", "load", "send"}
         /\ get[c] \in Get /\ get[c].rows \in Seq(Row)
         /\ get[c].at \in {"none", "sent", "read", "failed"}
         /\ rows[c] \in Seq(Row)
<1>1. byId[c] \in ConvState /\ get[c] \in Get /\ rows[c] \in Seq(Row)
  BY DEF TypeOK
<1>2. <<>> \in Seq(Row)
  OBVIOUS
<1> QED
  BY <1>1, <1>2 DEF ConvState, Get

LEMMA PollTypes ==
  ASSUME TypeOK
  PROVE  /\ poll \in [0 .. MaxSends -> Poll]
         /\ NoPoll \in Poll /\ NewPoll \in Poll
         /\ NoPoll.used = 0 /\ NewPoll.used = 0
         /\ \A s \in 0 .. MaxSends :
              /\ poll[s] \in Poll /\ poll[s].used \in Nat
              /\ poll[s].at \in {"none", "sent", "read"}
<1>1. MaxSends \in Nat /\ poll \in [0 .. MaxSends -> Poll]
  BY CallFunction DEF TypeOK
<1>2. \A s \in 0 .. MaxSends : poll[s] \in Poll
  BY <1>1
<1> QED
  BY <1>1, <1>2 DEF Poll, NoPoll, NewPoll

\* A call is replaced by what the step makes of it.
LEMMA CallReplaced ==
  ASSUME TypeOK, NEW s \in Calls, NEW r \in Call, call' = [call EXCEPT ![s] = r]
  PROVE  /\ call' \in Seq(Call) /\ Len(call') = Len(call)
         /\ Calls' = Calls
         /\ call'[s] = r
         /\ \A t \in Calls : t # s => call'[t] = call[t]
<1>1. /\ Len(call) \in Nat /\ Calls = 1 .. Len(call) /\ call \in [Calls -> Call]
  BY CallFunction
<1>2. call' \in [1 .. Len(call) -> Call]
  BY <1>1
<1>3. call' \in Seq(Call) /\ Len(call') = Len(call)
  BY <1>1, <1>2, AsSequence
<1>4. DOMAIN call' = DOMAIN call
  BY <1>1, <1>2
<1> QED
  BY <1>1, <1>3, <1>4 DEF Calls

\* The steps of a call that its client and the api take.
Steps(s) == \/ Done(s) \/ Refused(s) \/ Broken(s)
            \/ StoreUser(s) \/ StoreReply(s) \/ Charge(s) \/ GiveUp(s)

\* What each makes of the call.
LEMMA CallAfter ==
  ASSUME TypeOK, NEW s \in Calls, nextRow <= MaxRow \/ ~ StoreReply(s)
  PROVE  /\ Done(s) \/ Refused(s) =>
              call' = [call EXCEPT ![s] =
                        [call[s] EXCEPT !.live = FALSE, !.api = "returned"]]
         /\ Broken(s) => call' = [call EXCEPT ![s] = [call[s] EXCEPT !.live = FALSE]]
         /\ StoreUser(s) =>
              call' = [call EXCEPT ![s] = [call[s] EXCEPT !.api = "stream"]]
         /\ StoreReply(s) =>
              call' = [call EXCEPT ![s] =
                        [call[s] EXCEPT !.api = "stored", !.reply = nextRow]]
         /\ Charge(s) =>
              call' = [call EXCEPT ![s] = [call[s] EXCEPT !.api = "charged"]]
         /\ GiveUp(s) =>
              call' = [call EXCEPT ![s] = [call[s] EXCEPT !.api = "returned"]]
BY CallFunction DEF Done, Refused, Broken, StoreUser, StoreReply, Charge, GiveUp

LEMMA CallStep ==
  ASSUME TypeOK, NEW s \in Calls, Steps(s), nextRow <= MaxRow \/ ~ StoreReply(s)
  PROVE  /\ call' \in Seq(Call) /\ Len(call') = Len(call)
         /\ Calls' = Calls
         /\ \A t \in Calls : t # s => call'[t] = call[t]
         /\ call'[s].conv = call[s].conv
         /\ call'[s].assistant = call[s].assistant
         /\ Done(s) \/ Refused(s) =>
              ~ call'[s].live /\ call'[s].api = "returned" /\ call'[s].reply = call[s].reply
         /\ Broken(s) =>
              ~ call'[s].live /\ call'[s].api = call[s].api /\ call'[s].reply = call[s].reply
         /\ StoreUser(s) =>
              /\ call'[s].live = call[s].live /\ call'[s].api = "stream"
              /\ call'[s].reply = call[s].reply
         /\ StoreReply(s) =>
              /\ call'[s].live = call[s].live /\ call'[s].api = "stored"
              /\ call'[s].reply = nextRow
         /\ Charge(s) =>
              /\ call'[s].live = call[s].live /\ call'[s].api = "charged"
              /\ call'[s].reply = call[s].reply
         /\ GiveUp(s) =>
              /\ call'[s].live = call[s].live /\ call'[s].api = "returned"
              /\ call'[s].reply = call[s].reply
<1>1. call[s] \in Call
  BY CallTypes
<1>2. nextRow \in Nat
  BY DEF TypeOK
<1> DEFINE Same == /\ call' \in Seq(Call) /\ Len(call') = Len(call)
                   /\ Calls' = Calls
                   /\ \A t \in Calls : t # s => call'[t] = call[t]
                   /\ call'[s].conv = call[s].conv
                   /\ call'[s].assistant = call[s].assistant
<1>3. ASSUME Done(s) \/ Refused(s)
      PROVE  Same /\ ~ call'[s].live /\ call'[s].api = "returned" /\ call'[s].reply = call[s].reply
  <2>1. PICK r : r = [call[s] EXCEPT !.live = FALSE, !.api = "returned"]
    OBVIOUS
  <2>2. r \in Call
    BY <1>1, <1>2, <1>3, <2>1 DEF Call
  <2>3. call' = [call EXCEPT ![s] = r]
    BY <1>3, <2>1, CallAfter
  <2>4. /\ call' \in Seq(Call) /\ Len(call') = Len(call) /\ Calls' = Calls
        /\ call'[s] = r
        /\ \A t \in Calls : t # s => call'[t] = call[t]
    BY <2>2, <2>3, CallReplaced
  <2> QED
    BY <1>1, <2>1, <2>4 DEF Call
<1>4. ASSUME Broken(s)
      PROVE  Same /\ ~ call'[s].live /\ call'[s].api = call[s].api /\ call'[s].reply = call[s].reply
  <2>1. PICK r : r = [call[s] EXCEPT !.live = FALSE]
    OBVIOUS
  <2>2. r \in Call
    BY <1>1, <1>2, <1>4, <2>1 DEF Call
  <2>3. call' = [call EXCEPT ![s] = r]
    BY <1>4, <2>1, CallAfter
  <2>4. /\ call' \in Seq(Call) /\ Len(call') = Len(call) /\ Calls' = Calls
        /\ call'[s] = r
        /\ \A t \in Calls : t # s => call'[t] = call[t]
    BY <2>2, <2>3, CallReplaced
  <2> QED
    BY <1>1, <2>1, <2>4 DEF Call
<1>5. ASSUME StoreUser(s)
      PROVE  Same /\ call'[s].live = call[s].live /\ call'[s].api = "stream" /\ call'[s].reply = call[s].reply
  <2>1. PICK r : r = [call[s] EXCEPT !.api = "stream"]
    OBVIOUS
  <2>2. r \in Call
    BY <1>1, <1>2, <1>5, <2>1 DEF Call
  <2>3. call' = [call EXCEPT ![s] = r]
    BY <1>5, <2>1, CallAfter
  <2>4. /\ call' \in Seq(Call) /\ Len(call') = Len(call) /\ Calls' = Calls
        /\ call'[s] = r
        /\ \A t \in Calls : t # s => call'[t] = call[t]
    BY <2>2, <2>3, CallReplaced
  <2> QED
    BY <1>1, <2>1, <2>4 DEF Call
<1>6. ASSUME StoreReply(s)
      PROVE  Same /\ call'[s].live = call[s].live /\ call'[s].api = "stored" /\ call'[s].reply = nextRow
  <2>1. PICK r : r = [call[s] EXCEPT !.api = "stored", !.reply = nextRow]
    OBVIOUS
  <2>2. r \in Call
    <3>1. nextRow <= MaxRow /\ MaxRow \in Nat
      BY <1>6, CallFunction
    <3>2. nextRow \in 0 .. MaxRow
      BY <1>2, <3>1
    <3> QED
      BY <1>1, <2>1, <3>2 DEF Call
  <2>3. call' = [call EXCEPT ![s] = r]
    BY <1>6, <2>1, CallAfter
  <2>4. /\ call' \in Seq(Call) /\ Len(call') = Len(call) /\ Calls' = Calls
        /\ call'[s] = r
        /\ \A t \in Calls : t # s => call'[t] = call[t]
    BY <2>2, <2>3, CallReplaced
  <2> QED
    BY <1>1, <2>1, <2>4 DEF Call
<1>7. ASSUME Charge(s)
      PROVE  Same /\ call'[s].live = call[s].live /\ call'[s].api = "charged" /\ call'[s].reply = call[s].reply
  <2>1. PICK r : r = [call[s] EXCEPT !.api = "charged"]
    OBVIOUS
  <2>2. r \in Call
    BY <1>1, <1>2, <1>7, <2>1 DEF Call
  <2>3. call' = [call EXCEPT ![s] = r]
    BY <1>7, <2>1, CallAfter
  <2>4. /\ call' \in Seq(Call) /\ Len(call') = Len(call) /\ Calls' = Calls
        /\ call'[s] = r
        /\ \A t \in Calls : t # s => call'[t] = call[t]
    BY <2>2, <2>3, CallReplaced
  <2> QED
    BY <1>1, <2>1, <2>4 DEF Call
<1>8. ASSUME GiveUp(s)
      PROVE  Same /\ call'[s].live = call[s].live /\ call'[s].api = "returned" /\ call'[s].reply = call[s].reply
  <2>1. PICK r : r = [call[s] EXCEPT !.api = "returned"]
    OBVIOUS
  <2>2. r \in Call
    BY <1>1, <1>2, <1>8, <2>1 DEF Call
  <2>3. call' = [call EXCEPT ![s] = r]
    BY <1>8, <2>1, CallAfter
  <2>4. /\ call' \in Seq(Call) /\ Len(call') = Len(call) /\ Calls' = Calls
        /\ call'[s] = r
        /\ \A t \in Calls : t # s => call'[t] = call[t]
    BY <2>2, <2>3, CallReplaced
  <2> QED
    BY <1>1, <2>1, <2>4 DEF Call
<1>9. Same
  BY <1>3, <1>4, <1>5, <1>6, <1>7, <1>8 DEF Steps
<1> QED
  BY <1>3, <1>4, <1>5, <1>6, <1>7, <1>8, <1>9

\* A conversation shown is replaced by what the step makes of it.
LEMMA PatchFacts ==
  ASSUME TypeOK, NEW c \in Convs, NEW state \in ConvState,
         byId' = [byId EXCEPT ![c] = state]
  PROVE  /\ byId' \in [Convs -> ConvState]
         /\ byId'[c] = state
         /\ \A d \in Convs : d # c => byId'[d] = byId[d]
BY DEF TypeOK

LEMMA EmptyType == EMPTY \in ConvState /\ EMPTY.messages = <<>> /\ ~ EMPTY.sending
<1>1. <<>> \in Seq(Shown)
  OBVIOUS
<1> QED
  BY <1>1 DEF EMPTY, LOADING, ConvState

\* What a step shows of c from then on.
Now(c, ms, sends) ==
  /\ byId' \in [Convs -> ConvState]
  /\ ms \in Seq(Shown)
  /\ byId'[c].messages = ms
  /\ byId'[c].sending = sends
  /\ \A d \in Convs : d # c => byId'[d] = byId[d]

LEMMA MessageFacts ==
  ASSUME NEW q \in Seq(Shown)
  PROVE  /\ Len(q) \in Nat /\ DOMAIN q = 1 .. Len(q)
         /\ \A i \in DOMAIN q : /\ q[i] \in Shown /\ q[i].id \in Int
                                /\ q[i].role \in Roles
                                /\ q[i].streaming \in BOOLEAN
         /\ \A m \in Range(q) : /\ m \in Shown /\ m.id \in Int
                                /\ m.role \in Roles
                                /\ m.streaming \in BOOLEAN
         /\ \A m : m \in Range(q) <=> \E i \in DOMAIN q : m = q[i]
<1>1. Len(q) \in Nat /\ DOMAIN q = 1 .. Len(q)
  BY LenProperties
<1>2. \A i \in DOMAIN q : q[i] \in Shown
  BY <1>1, ElementOfSeq
<1> QED
  BY <1>1, <1>2 DEF Shown, Range

Asked  == [id |-> tempId - 1, role |-> "user", streaming |-> FALSE]
Bubble == [id |-> tempId - 2, role |-> "assistant", streaming |-> TRUE]

LEMMA PostShows ==
  ASSUME TypeOK, NEW c \in Convs, NEW state \in ConvState, Post(c, state)
  PROVE  Now(c, state.messages \o <<Asked, Bubble>>, TRUE)
<1>1. tempId \in Int /\ Asked \in Shown /\ Bubble \in Shown
  BY DEF TypeOK, Asked, Bubble, Shown, Roles
<1>2. state.messages \in Seq(Shown) /\ <<Asked, Bubble>> \in Seq(Shown)
  BY <1>1 DEF ConvState
<1>3. PICK ms : ms = state.messages \o <<Asked, Bubble>>
  OBVIOUS
<1>4. ms \in Seq(Shown)
  BY <1>2, <1>3, ConcatProperties
<1>5. PICK new : new = [state EXCEPT !.error = "none", !.sending = TRUE,
                                     !.messages = ms]
  OBVIOUS
<1>6. new \in ConvState /\ new.messages = ms /\ new.sending = TRUE
  BY <1>4, <1>5 DEF ConvState
<1>7. byId' = [byId EXCEPT ![c] = new]
  BY <1>3, <1>5 DEF Post, Patch, Asked, Bubble
<1> QED
  BY <1>3, <1>4, <1>6, <1>7, PatchFacts DEF Now

LEMMA PostCalls ==
  ASSUME TypeOK, NEW c \in Convs, NEW state, Post(c, state)
  PROVE  /\ call' \in Seq(Call) /\ Len(call') = Len(call) + 1 /\ Len(call') <= MaxSends
         /\ Calls' = Calls \cup {Len(call) + 1} /\ Len(call) + 1 \notin Calls
         /\ \A s \in Calls : call'[s] = call[s]
         /\ call'[Len(call) + 1] = [conv |-> c, assistant |-> tempId - 2,
                                    live |-> TRUE, api |-> "request", reply |-> 0]
         /\ controllers' \in [Convs -> 0 .. MaxSends]
         /\ controllers'[c] = Len(call) + 1
         /\ \A d \in Convs : d # c => controllers'[d] = controllers[d]
         /\ tempId' = tempId - 2
<1>1. /\ Len(call) \in Nat /\ Calls = 1 .. Len(call) /\ call \in Seq(Call)
      /\ MaxSends \in Nat /\ MaxRow \in Nat
  BY CallFunction DEF TypeOK
<1>2. PICK r : r = [conv |-> c, assistant |-> tempId - 2, live |-> TRUE,
                    api |-> "request", reply |-> 0]
  OBVIOUS
<1>3. r \in Call
  BY <1>1, <1>2 DEF Call, TypeOK
<1>4. call' = Append(call, r) /\ Len(call) < MaxSends /\ tempId' = tempId - 2
  BY <1>2 DEF Post
<1>5. /\ call' \in Seq(Call) /\ Len(call') = Len(call) + 1
      /\ \A s \in 1 .. Len(call) : call'[s] = call[s]
      /\ call'[Len(call) + 1] = r
  BY <1>1, <1>3, <1>4, AppendProperties
<1>6. Calls' = 1 .. Len(call) + 1
  BY <1>1, <1>5, LenProperties DEF Calls
<1>7. controllers' = [controllers EXCEPT ![c] = Len(call) + 1]
  BY DEF Post
<1>8. /\ controllers' \in [Convs -> 0 .. MaxSends]
      /\ controllers'[c] = Len(call) + 1
      /\ \A d \in Convs : d # c => controllers'[d] = controllers[d]
  BY <1>1, <1>4, <1>7 DEF TypeOK
<1> QED
  BY <1>1, <1>2, <1>4, <1>5, <1>6, <1>8

LEMMA StopShows ==
  ASSUME TypeOK, NEW c \in Convs, Stop(c)
  PROVE  Now(c, Kept(byId[c].messages, {i \in DOMAIN byId[c].messages :
                                         ~ byId[c].messages[i].streaming}), FALSE)
<1>1. byId[c] \in ConvState /\ byId[c].messages \in Seq(Shown)
  BY StateTypes
<1>2. PICK ms : ms = Kept(byId[c].messages, {i \in DOMAIN byId[c].messages :
                                              ~ byId[c].messages[i].streaming})
  OBVIOUS
<1>3. ms \in Seq(Shown)
  BY <1>1, <1>2, KeptFacts
<1>4. PICK new : new = [byId[c] EXCEPT !.sending = FALSE, !.messages = ms]
  OBVIOUS
<1>5. new \in ConvState /\ new.messages = ms /\ new.sending = FALSE
  BY <1>1, <1>3, <1>4 DEF ConvState
<1>6. byId' = [byId EXCEPT ![c] = new]
  BY <1>2, <1>4 DEF Stop, Patch
<1> QED
  BY <1>2, <1>3, <1>5, <1>6, PatchFacts DEF Now

LEMMA StopCalls ==
  ASSUME TypeOK, NEW c \in Convs, Stop(c)
  PROVE  /\ call' \in Seq(Call) /\ Len(call') = Len(call) /\ Calls' = Calls
         /\ \A s \in Calls : s # controllers[c] => call'[s] = call[s]
         /\ \A s \in Calls : /\ call'[s].conv = call[s].conv
                             /\ call'[s].assistant = call[s].assistant
                             /\ call'[s].api = call[s].api
                             /\ call'[s].reply = call[s].reply
                             /\ call'[s].live => call[s].live
         /\ \A s \in Calls : s = controllers[c] => ~ call'[s].live
         /\ controllers' \in [Convs -> 0 .. MaxSends]
         /\ controllers'[c] = 0
         /\ \A d \in Convs : d # c => controllers'[d] = controllers[d]
<1>1. /\ Len(call) \in Nat /\ Calls = 1 .. Len(call) /\ call \in Seq(Call)
      /\ MaxSends \in Nat /\ call \in [Calls -> Call]
  BY CallFunction DEF TypeOK
<1>2. PICK k : k = controllers[c]
  OBVIOUS
<1>3. call' = IF k = 0 THEN call ELSE [call EXCEPT ![k].live = FALSE]
  BY <1>2 DEF Stop
<1>4. CASE k \in Calls
  <2>1. PICK r : r = [call[k] EXCEPT !.live = FALSE]
    OBVIOUS
  <2>2. call[k] \in Call
    BY <1>1, <1>4
  <2>3. /\ r \in Call /\ ~ r.live /\ r.conv = call[k].conv
        /\ r.assistant = call[k].assistant /\ r.api = call[k].api
        /\ r.reply = call[k].reply
    BY <2>1, <2>2 DEF Call
  <2>4. k # 0
    BY <1>1, <1>4
  <2>5. call' = [call EXCEPT ![k] = r]
    BY <1>3, <2>1, <2>4
  <2>6. /\ call' \in Seq(Call) /\ Len(call') = Len(call) /\ Calls' = Calls
        /\ call'[k] = r
        /\ \A t \in Calls : t # k => call'[t] = call[t]
    BY <1>4, <2>3, <2>5, CallReplaced
  <2>7. /\ controllers' \in [Convs -> 0 .. MaxSends] /\ controllers'[c] = 0
        /\ \A d \in Convs : d # c => controllers'[d] = controllers[d]
    BY <1>1 DEF Stop, TypeOK
  <2> QED
    BY <1>2, <2>3, <2>6, <2>7
<1>5. CASE k \notin Calls
  <2>1. call' = call
    BY <1>1, <1>3, <1>5
  <2>2. /\ controllers' \in [Convs -> 0 .. MaxSends] /\ controllers'[c] = 0
        /\ \A d \in Convs : d # c => controllers'[d] = controllers[d]
    BY <1>1 DEF Stop, TypeOK
  <2> QED
    BY <1>1, <1>2, <1>5, <2>1, <2>2 DEF Calls
<1> QED
  BY <1>4, <1>5

\* The bubble becomes the reply.
Settled(s) ==
  LET ms == byId[call[s].conv].messages
  IN  [i \in DOMAIN ms |-> IF ms[i].id = call[s].assistant
                             THEN [ms[i] EXCEPT !.id = call[s].reply,
                                                !.streaming = FALSE]
                             ELSE ms[i]]

LEMMA DoneShows ==
  ASSUME TypeOK, NEW s \in Calls, Done(s)
  PROVE  /\ Now(call[s].conv, Settled(s), FALSE)
         /\ controllers' \in [Convs -> 0 .. MaxSends]
         /\ controllers'[call[s].conv] = 0
         /\ \A d \in Convs : d # call[s].conv => controllers'[d] = controllers[d]
<1>1. PICK c : c = call[s].conv
  OBVIOUS
<1>2. c \in Convs /\ call[s].reply \in Int
  BY <1>1, CallFunction, CallTypes
<1>3. byId[c] \in ConvState /\ byId[c].messages \in Seq(Shown)
  BY <1>2, StateTypes
<1>4. PICK ms : ms = Settled(s)
  OBVIOUS
<1>5. ms \in Seq(Shown)
  <2>1. PICK old : old = byId[c].messages
    OBVIOUS
  <2>2. /\ Len(old) \in Nat /\ DOMAIN old = 1 .. Len(old)
        /\ \A i \in DOMAIN old : old[i] \in Shown
    BY <1>3, <2>1, MessageFacts
  <2>3. ms = [i \in DOMAIN old |-> IF old[i].id = call[s].assistant
                 THEN [old[i] EXCEPT !.id = call[s].reply, !.streaming = FALSE]
                 ELSE old[i]]
    BY <1>1, <1>4, <2>1 DEF Settled
  <2>4. ms \in [1 .. Len(old) -> Shown]
    BY <1>2, <2>2, <2>3 DEF Shown
  <2> QED
    BY <2>2, <2>4, AsSequence
<1>6. PICK new : new = [byId[c] EXCEPT !.sending = FALSE, !.messages = ms]
  OBVIOUS
<1>7. new \in ConvState /\ new.messages = ms /\ new.sending = FALSE
  BY <1>3, <1>5, <1>6 DEF ConvState
<1>8. byId' = [byId EXCEPT ![c] = new]
  BY <1>1, <1>4, <1>6 DEF Done, Patch, Settled
<1>9. controllers' = [controllers EXCEPT ![c] = 0]
  BY <1>1 DEF Done
<1>10. /\ controllers' \in [Convs -> 0 .. MaxSends]
       /\ controllers'[c] = 0
       /\ \A d \in Convs : d # c => controllers'[d] = controllers[d]
  BY <1>2, <1>9, CallFunction DEF TypeOK
<1> QED
  BY <1>1, <1>2, <1>4, <1>5, <1>7, <1>8, <1>10, PatchFacts DEF Now

\* The places of all but the bubble of s.
Others(s) == {i \in DOMAIN byId[call[s].conv].messages :
                byId[call[s].conv].messages[i].id # call[s].assistant}

LEMMA RefusedShows ==
  ASSUME TypeOK, NEW s \in Calls, Refused(s)
  PROVE  /\ Now(call[s].conv, Kept(byId[call[s].conv].messages, Others(s)), FALSE)
         /\ controllers' \in [Convs -> 0 .. MaxSends]
         /\ controllers'[call[s].conv] = 0
         /\ \A d \in Convs : d # call[s].conv => controllers'[d] = controllers[d]
<1>1. PICK c : c = call[s].conv
  OBVIOUS
<1>2. c \in Convs
  BY <1>1, CallTypes
<1>3. byId[c] \in ConvState /\ byId[c].messages \in Seq(Shown)
  BY <1>2, StateTypes
<1>4. PICK ms : ms = Kept(byId[c].messages, Others(s))
  OBVIOUS
<1>5. ms \in Seq(Shown)
  BY <1>1, <1>3, <1>4, KeptFacts DEF Others
<1>6. PICK new : new = [byId[c] EXCEPT !.sending = FALSE, !.error = "send",
                                       !.messages = ms]
  OBVIOUS
<1>7. new \in ConvState /\ new.messages = ms /\ new.sending = FALSE
  BY <1>3, <1>5, <1>6 DEF ConvState
<1>8. byId' = [byId EXCEPT ![c] = new]
  BY <1>1, <1>4, <1>6 DEF Refused, BubbleGone, Patch, Others
<1>9. controllers' = [controllers EXCEPT ![c] = 0]
  BY <1>1 DEF Refused, BubbleGone
<1>10. /\ controllers' \in [Convs -> 0 .. MaxSends]
       /\ controllers'[c] = 0
       /\ \A d \in Convs : d # c => controllers'[d] = controllers[d]
  BY <1>2, <1>9, CallFunction DEF TypeOK
<1> QED
  BY <1>1, <1>2, <1>4, <1>5, <1>7, <1>8, <1>10, PatchFacts DEF Now

\* Rows as the tab shows them.
AsShown(R) == [i \in 1 .. Len(R) |-> [id |-> R[i].id, role |-> R[i].role,
                                      streaming |-> FALSE]]

LEMMA AsShownType ==
  ASSUME NEW R \in Seq(Row), MaxRow \in Nat
  PROVE  AsShown(R) \in Seq(Shown) /\ Len(AsShown(R)) = Len(R)
<1>1. Len(R) \in Nat /\ \A i \in 1 .. Len(R) : R[i] \in Row
  BY LenProperties, ElementOfSeq
<1>2. \A i \in 1 .. Len(R) : R[i].id \in Int /\ R[i].role \in Roles
  BY <1>1 DEF Row
<1>3. AsShown(R) \in [1 .. Len(R) -> Shown]
  BY <1>2 DEF AsShown, Shown
<1> QED
  BY <1>1, <1>3, AsSequence

LEMMA LoadedShows ==
  ASSUME TypeOK, NEW c \in Convs, Loaded(c)
  PROVE  /\ Now(c, AsShown(get[c].rows), FALSE)
         /\ get' \in [Convs -> Get] /\ get'[c] = NoGet
         /\ \A d \in Convs : d # c => get'[d] = get[d]
<1>1. get[c].rows \in Seq(Row) /\ byId[c] \in ConvState
  BY StateTypes
<1>2. PICK ms : ms = AsShown(get[c].rows)
  OBVIOUS
<1>3. ms \in Seq(Shown)
  BY <1>1, <1>2, AsShownType, CallFunction
<1>4. PICK new : new = [EMPTY EXCEPT !.messages = ms]
  OBVIOUS
<1>5. new \in ConvState /\ new.messages = ms /\ new.sending = FALSE
  BY <1>3, <1>4 DEF ConvState, EMPTY, LOADING
<1>6. byId' = [byId EXCEPT ![c] = new]
  BY <1>2, <1>4 DEF Loaded, Patch, Replace, AsShown
<1>7. get' = [get EXCEPT ![c] = NoGet] /\ NoGet \in Get
  BY DEF Loaded, NoGet, Get
<1> QED
  BY <1>2, <1>3, <1>5, <1>6, <1>7, PatchFacts DEF Now, TypeOK

LEMMA LoadFailedShows ==
  ASSUME TypeOK, NEW c \in Convs, LoadFailed(c)
  PROVE  /\ Now(c, byId[c].messages, byId[c].sending)
         /\ get' \in [Convs -> Get] /\ get'[c] = NoGet
         /\ \A d \in Convs : d # c => get'[d] = get[d]
<1>1. byId[c] \in ConvState
  BY StateTypes
<1>2. PICK new : new = [byId[c] EXCEPT !.loading = FALSE, !.error = "load"]
  OBVIOUS
<1>3. /\ new \in ConvState /\ new.messages = byId[c].messages
      /\ new.sending = byId[c].sending
  BY <1>1, <1>2 DEF ConvState
<1>4. byId' = [byId EXCEPT ![c] = new]
  BY <1>2 DEF LoadFailed, Patch
<1>5. get' = [get EXCEPT ![c] = NoGet] /\ NoGet \in Get
  BY DEF LoadFailed, NoGet, Get
<1> QED
  BY <1>1, <1>3, <1>4, <1>5, PatchFacts DEF Now, TypeOK, ConvState

-----------------------------------------------------------------------------
(* The types, and the rows and charges that the calls can make. *)

LEMMA CountTypes ==
  ASSUME TypeOK
  PROVE  /\ IsFiniteSet(Posted) /\ IsFiniteSet(Replied) /\ IsFiniteSet(Tried)
         /\ Cardinality(Posted) \in Nat /\ Cardinality(Replied) \in Nat
         /\ Cardinality(Tried) \in Nat
         /\ Cardinality(Posted) <= MaxSends /\ Cardinality(Replied) <= MaxSends
         /\ Cardinality(Tried) <= MaxSends
<1>1. MaxSends \in Nat /\ Calls \subseteq 1 .. MaxSends
  BY CallFunction
<1>2. IsFiniteSet(1 .. MaxSends) /\ Cardinality(1 .. MaxSends) = MaxSends
  BY <1>1, FS_Interval
<1>3. /\ Posted \subseteq 1 .. MaxSends /\ Replied \subseteq 1 .. MaxSends
      /\ Tried \subseteq 1 .. MaxSends
  BY <1>1 DEF Posted, Replied, Tried
<1>4. ASSUME NEW S \in SUBSET (1 .. MaxSends)
      PROVE  IsFiniteSet(S) /\ Cardinality(S) \in Nat /\ Cardinality(S) <= MaxSends
  BY <1>2, FS_Subset, FS_CardinalityType
<1> QED
  BY <1>3, <1>4

\* A set of calls that lacks one is not of the largest size.
LEMMA OneLess ==
  ASSUME TypeOK, NEW s \in Calls, NEW S \in SUBSET Calls, s \notin S
  PROVE  Cardinality(S) \in Nat /\ Cardinality(S) < MaxSends
<1>1. MaxSends \in Nat /\ Calls \subseteq 1 .. MaxSends
  BY CallFunction
<1>2. IsFiniteSet(1 .. MaxSends) /\ Cardinality(1 .. MaxSends) = MaxSends
  BY <1>1, FS_Interval
<1>3. S \subseteq 1 .. MaxSends /\ S # 1 .. MaxSends
  BY <1>1
<1>4. Cardinality(S) <= MaxSends /\ Cardinality(S) # MaxSends
  BY <1>2, <1>3, FS_Subset
<1>5. Cardinality(S) \in Nat
  BY <1>2, <1>3, FS_Subset, FS_CardinalityType
<1> QED
  BY <1>1, <1>4, <1>5

LEMMA Room ==
  ASSUME TypeOK, Counted, NEW s \in Calls
  PROVE  /\ call[s].api \in {"request", "stream"} => nextRow <= MaxRow
         /\ call[s].api = "stored" => used < MaxSends
<1>1. /\ MaxSends \in Nat /\ Cardinality(Convs) \in Nat /\ nextRow \in Nat
      /\ used \in Nat
  BY CallFunction DEF TypeOK
<1>2. /\ Cardinality(Posted) \in Nat /\ Cardinality(Replied) \in Nat
      /\ Cardinality(Tried) \in Nat
      /\ Cardinality(Posted) <= MaxSends /\ Cardinality(Replied) <= MaxSends
  BY CountTypes
<1>3. Replied \subseteq Calls /\ Tried \subseteq Calls
  BY DEF Replied, Tried
<1>4. ASSUME call[s].api \in {"request", "stream"}
      PROVE  nextRow <= MaxRow
  <2>1. s \notin Replied
    BY <1>4 DEF Replied
  <2>2. Cardinality(Replied) < MaxSends
    BY <1>3, <2>1, OneLess
  <2> QED
    BY <1>1, <1>2, <2>2 DEF Counted, MaxRow
<1>5. ASSUME call[s].api = "stored"
      PROVE  used < MaxSends
  <2>1. s \notin Tried
    BY <1>5 DEF Tried
  <2>2. Cardinality(Tried) < MaxSends
    BY <1>3, <2>1, OneLess
  <2> QED
    BY <1>1, <1>2, <2>2 DEF Counted
<1> QED
  BY <1>4, <1>5

\* A call that has stored or tried stays one that has.
LEMMA CountsGrow ==
  ASSUME TypeOK, TypeOK', Calls \subseteq Calls',
         \A s \in Calls :
           /\ call'[s].api = "request" => call[s].api = "request"
           /\ call'[s].api = "stream" => call[s].api \in {"request", "stream"}
           /\ call'[s].api = "stored" => call[s].api \in {"stream", "stored"}
           /\ call'[s].api = "charged" => call[s].api \in {"stored", "charged"}
  PROVE  /\ Posted \subseteq Posted' /\ Replied \subseteq Replied' /\ Tried \subseteq Tried'
         /\ Cardinality(Posted') \in Nat /\ Cardinality(Replied') \in Nat
         /\ Cardinality(Tried') \in Nat
         /\ Cardinality(Posted) <= Cardinality(Posted')
         /\ Cardinality(Replied) <= Cardinality(Replied')
         /\ Cardinality(Tried) <= Cardinality(Tried')
         /\ Posted # Posted' => Cardinality(Posted) < Cardinality(Posted')
         /\ Replied # Replied' => Cardinality(Replied) < Cardinality(Replied')
         /\ Tried # Tried' => Cardinality(Tried) < Cardinality(Tried')
<1>1. /\ \A s \in Calls : call[s].api \in {"request", "stream", "stored", "charged", "returned"}
      /\ \A s \in Calls' : call'[s].api \in {"request", "stream", "stored", "charged", "returned"}
  <2>1. \A s \in Calls : call[s] \in Call
    BY CallFunction
  <2>2. \A s \in Calls' : call'[s] \in Call
    <3>1. call' \in Seq(Call) /\ Calls' = DOMAIN call'
      BY DEF TypeOK, Calls
    <3> QED
      BY <3>1, LenProperties, ElementOfSeq
  <2> QED
    BY <2>1, <2>2 DEF Call
<1>2. Posted \subseteq Posted' /\ Replied \subseteq Replied' /\ Tried \subseteq Tried'
  BY <1>1 DEF Posted, Replied, Tried
<1>3. IsFiniteSet(Posted') /\ IsFiniteSet(Replied') /\ IsFiniteSet(Tried')
  <2>1. call' \in Seq(Call) /\ Calls' = DOMAIN call'
    BY DEF TypeOK, Calls
  <2>2. IsFiniteSet(Calls')
    BY <2>1, LenProperties, FS_Interval
  <2>3. Posted' \subseteq Calls' /\ Replied' \subseteq Calls' /\ Tried' \subseteq Calls'
    BY DEF Posted, Replied, Tried
  <2> QED
    BY <2>2, <2>3, FS_Subset
<1>4. PICK P, R, T : P = Posted' /\ R = Replied' /\ T = Tried'
  OBVIOUS
<1>5. /\ Cardinality(Posted) \in Nat /\ Cardinality(P) \in Nat
      /\ Cardinality(Posted) <= Cardinality(P)
      /\ Posted # P => Cardinality(Posted) < Cardinality(P)
  BY <1>2, <1>3, <1>4, FS_Subset, FS_CardinalityType
<1>6. /\ Cardinality(Replied) \in Nat /\ Cardinality(R) \in Nat
      /\ Cardinality(Replied) <= Cardinality(R)
      /\ Replied # R => Cardinality(Replied) < Cardinality(R)
  BY <1>2, <1>3, <1>4, FS_Subset, FS_CardinalityType
<1>7. /\ Cardinality(Tried) \in Nat /\ Cardinality(T) \in Nat
      /\ Cardinality(Tried) <= Cardinality(T)
      /\ Tried # T => Cardinality(Tried) < Cardinality(T)
  BY <1>2, <1>3, <1>4, FS_Subset, FS_CardinalityType
<1> QED
  BY <1>2, <1>4, <1>5, <1>6, <1>7

\* How far the api is with a call never goes back.
LEMMA ApiForward ==
  ASSUME TypeOK, Counted, Next
  PROVE  /\ Calls \subseteq Calls'
         /\ \A s \in Calls :
              /\ call'[s].conv = call[s].conv
              /\ call'[s].assistant = call[s].assistant
              /\ call'[s].live => call[s].live
              /\ call'[s].api = "request" => call[s].api = "request"
              /\ call'[s].api = "stream" => call[s].api \in {"request", "stream"}
              /\ call'[s].api = "stored" => call[s].api \in {"stream", "stored"}
              /\ call'[s].api = "charged" => call[s].api \in {"stored", "charged"}
<1>1. ASSUME NEW s \in Calls, Steps(s)
      PROVE  /\ Calls' = Calls
             /\ \A t \in Calls : t # s => call'[t] = call[t]
             /\ call'[s].conv = call[s].conv
             /\ call'[s].assistant = call[s].assistant
             /\ call'[s].live => call[s].live
             /\ call'[s].api = "request" => call[s].api = "request"
             /\ call'[s].api = "stream" => call[s].api \in {"request", "stream"}
             /\ call'[s].api = "stored" => call[s].api \in {"stream", "stored"}
             /\ call'[s].api = "charged" => call[s].api \in {"stored", "charged"}
  <2>1. nextRow <= MaxRow \/ ~ StoreReply(s)
    BY Room DEF StoreReply
  <2>2. /\ StoreUser(s) => call[s].api = "request"
        /\ StoreReply(s) => call[s].api = "stream"
        /\ Charge(s) => call[s].api = "stored"
    BY DEF StoreUser, StoreReply, Charge
  <2>3. call[s].live \in BOOLEAN
    BY CallTypes
  <2> QED
    BY <1>1, <2>1, <2>2, <2>3, CallStep DEF Steps
<1>2. ASSUME NEW c \in Convs, NEW state, Post(c, state)
      PROVE  Calls \subseteq Calls' /\ \A s \in Calls : call'[s] = call[s]
  BY <1>2, PostCalls
<1>3. ASSUME NEW c \in Convs, Stop(c)
      PROVE  /\ Calls' = Calls
             /\ \A s \in Calls : /\ call'[s].conv = call[s].conv
                                 /\ call'[s].assistant = call[s].assistant
                                 /\ call'[s].api = call[s].api
                                 /\ call'[s].live => call[s].live
  BY <1>3, StopCalls
<1>4. ASSUME call' = call
      PROVE  Calls' = Calls /\ \A s \in Calls : call'[s] = call[s]
  BY <1>4 DEF Calls
<1>5. \/ call' = call
      \/ \E s \in Calls : Steps(s)
      \/ \E c \in Convs : Stop(c)
      \/ \E c \in Convs : \E state : Post(c, state)
  BY DEF Next, Home, Visit, ReadRows, Loaded, LoadFailed, Send, SendNew,
         Steps, ReadUsage, Metered, NotMetered
<1>6. CASE call' = call
  BY <1>4, <1>6
<1>7. CASE \E s \in Calls : Steps(s)
  <2>1. PICK s \in Calls : Steps(s)
    BY <1>7
  <2> QED
    BY <1>1, <2>1
<1>8. CASE \E c \in Convs : Stop(c)
  BY <1>3, <1>8
<1>9. CASE \E c \in Convs : \E state : Post(c, state)
  BY <1>2, <1>9
<1> QED
  BY <1>5, <1>6, <1>7, <1>8, <1>9

LEMMA InitTyped ==
  ASSUME Init
  PROVE  TypeOK /\ Counted
<1>1. MaxSends \in Nat /\ IsFiniteSet(Convs) /\ Cardinality(Convs) \in Nat
  BY StoreAssumption, FS_CardinalityType
<1>2. MaxRow \in Nat /\ MaxRow = Cardinality(Convs) + 2 * MaxSends
  BY <1>1 DEF MaxRow
<1>3. PICK old \in SUBSET Convs : \E id \in Injection(old, 1 .. Cardinality(old)) :
        /\ rows = [c \in Convs |-> IF c \in old
                                     THEN <<[id |-> id[c], role |-> "user"]>>
                                     ELSE <<>>]
        /\ nextRow = Cardinality(old) + 1
  BY DEF Init
<1>4. PICK id \in Injection(old, 1 .. Cardinality(old)) :
        rows = [c \in Convs |-> IF c \in old
                                  THEN <<[id |-> id[c], role |-> "user"]>>
                                  ELSE <<>>]
  BY <1>3
<1>5. Cardinality(old) \in Nat /\ Cardinality(old) <= Cardinality(Convs)
  BY <1>1, FS_Subset, FS_CardinalityType
<1>6. \A c \in old : id[c] \in 1 .. Cardinality(old)
  BY <1>4 DEF Injection, IsInjective
<1>7. rows \in [Convs -> Seq(Row)]
  <2>1. ASSUME NEW c \in old
        PROVE  <<[id |-> id[c], role |-> "user"]>> \in Seq(Row)
    <3>1. [id |-> id[c], role |-> "user"] \in Row
      BY <1>2, <1>5, <1>6, <2>1, <1>1 DEF Row, Roles
    <3> QED
      BY <3>1
  <2>2. <<>> \in Seq(Row)
    OBVIOUS
  <2> QED
    BY <1>4, <2>1, <2>2
<1>8. nextRow \in 1 .. MaxRow + 1 /\ nextRow <= Cardinality(Convs) + 1
  BY <1>1, <1>2, <1>3, <1>5
<1>9. byId \in [Convs -> ConvState] /\ get \in [Convs -> Get]
  BY DEF Init, ConvState, LOADING, Get, NoGet
<1>10. poll \in [0 .. MaxSends -> Poll]
  BY <1>1 DEF Init, NewPoll, NoPoll, Poll
<1>11. call = <<>> /\ call \in Seq(Call) /\ Len(call) = 0
  BY DEF Init
<1>12. /\ loaded = {} /\ controllers = [c \in Convs |-> 0] /\ tempId = 0
       /\ page = Nobody /\ used = 0 /\ meter = Unknown
       /\ hasty = {} /\ broken = {} /\ behind = FALSE
  BY DEF Init
<1>13. TypeOK
  <2>1. controllers \in [Convs -> 0 .. MaxSends] /\ Len(call) <= MaxSends
    BY <1>1, <1>11, <1>12
  <2>2. used \in 0 .. MaxSends /\ meter \in {Unknown} \cup 0 .. used
    BY <1>1, <1>12
  <2>3. tempId \in Int /\ tempId <= 0 /\ page \in Convs \cup {Nobody}
    BY <1>12
  <2>4. /\ loaded \subseteq Convs /\ hasty \subseteq Convs /\ broken \subseteq Convs
        /\ behind \in BOOLEAN
    BY <1>12
  <2> QED
    BY <1>7, <1>8, <1>9, <1>10, <1>11, <2>1, <2>2, <2>3, <2>4 DEF TypeOK
<1>14. \A s \in 0 .. MaxSends : poll[s].used <= used
  BY <1>1, <1>12 DEF Init, NewPoll, NoPoll
<1>15. Counted
  BY <1>1, <1>8, <1>12, <1>13, <1>14, CountTypes DEF Counted, TypeOK
<1> QED
  BY <1>13, <1>15

LEMMA StepTyped ==
  ASSUME TypeOK, Counted, [Next]_vars
  PROVE  TypeOK'
<1>1. /\ MaxSends \in Nat /\ MaxRow \in Nat /\ Len(call) \in Nat
      /\ Calls = 1 .. Len(call) /\ Len(call) <= MaxSends
  BY CallFunction
<1>2. CASE UNCHANGED vars
  BY <1>2 DEF TypeOK, vars
<1>3. CASE Home
  BY <1>3 DEF TypeOK, Home, server, history, usage
<1>4. ASSUME NEW c \in Convs, Visit(c)
      PROVE  TypeOK'
  <2>1. [at |-> "sent", rows |-> <<>>] \in Get
    BY DEF Get
  <2>2. get' \in [Convs -> Get] /\ loaded' \subseteq Convs
    BY <1>4, <2>1 DEF TypeOK, Visit, Load
  <2>3. page' \in Convs \cup {Nobody}
    BY <1>4 DEF Visit
  <2> QED
    BY <1>4, <2>2, <2>3 DEF TypeOK, Visit, server, history, usage
<1>5. ASSUME NEW c \in Convs, ReadRows(c)
      PROVE  TypeOK'
  <2>1. get[c] \in Get /\ rows[c] \in Seq(Row) /\ get[c].rows = <<>>
    <3>1. get[c] \in Get /\ rows[c] \in Seq(Row)
      BY StateTypes
    <3> QED
      BY <1>5, <3>1 DEF ReadRows, Get
  <2>2. [at |-> "read", rows |-> rows[c]] \in Get
    BY <2>1 DEF Get
  <2>3. [get[c] EXCEPT !.at = "failed"] \in Get
    BY <1>5, <2>1 DEF ReadRows, Get
  <2>4. get' \in [Convs -> Get]
    BY <1>5, <2>2, <2>3 DEF TypeOK, ReadRows
  <2> QED
    BY <1>5, <2>4 DEF TypeOK, ReadRows, server, history, usage
<1>6. ASSUME NEW c \in Convs, Loaded(c)
      PROVE  TypeOK'
  <2>1. byId' \in [Convs -> ConvState] /\ get' \in [Convs -> Get]
    BY <1>6, LoadedShows DEF Now
  <2> QED
    BY <1>6, <2>1 DEF TypeOK, Loaded, server, history, usage
<1>7. ASSUME NEW c \in Convs, LoadFailed(c)
      PROVE  TypeOK'
  <2>1. byId' \in [Convs -> ConvState] /\ get' \in [Convs -> Get]
    BY <1>7, LoadFailedShows DEF Now
  <2>2. loaded' \subseteq Convs
    BY <1>7 DEF TypeOK, LoadFailed
  <2> QED
    BY <1>7, <2>1, <2>2 DEF TypeOK, LoadFailed, server, history, usage
<1>8. ASSUME NEW c \in Convs, Send(c)
      PROVE  TypeOK'
  <2>1. byId[c] \in ConvState /\ Post(c, byId[c])
    BY <1>8, StateTypes DEF Send
  <2>2. byId' \in [Convs -> ConvState]
    BY <2>1, PostShows DEF Now
  <2>3. /\ call' \in Seq(Call) /\ Len(call') <= MaxSends
        /\ controllers' \in [Convs -> 0 .. MaxSends] /\ tempId' = tempId - 2
    BY <2>1, PostCalls
  <2>4. hasty' \subseteq Convs
    BY <1>8 DEF TypeOK, Send
  <2> QED
    BY <1>8, <2>2, <2>3, <2>4 DEF TypeOK, Send, server, usage
<1>9. ASSUME NEW c \in Convs, SendNew(c)
      PROVE  TypeOK'
  <2>1. EMPTY \in ConvState /\ Post(c, EMPTY)
    BY <1>9, EmptyType DEF SendNew
  <2>2. byId' \in [Convs -> ConvState]
    BY <2>1, PostShows DEF Now
  <2>3. /\ call' \in Seq(Call) /\ Len(call') <= MaxSends
        /\ controllers' \in [Convs -> 0 .. MaxSends] /\ tempId' = tempId - 2
    BY <2>1, PostCalls
  <2>4. loaded' \subseteq Convs /\ page' \in Convs \cup {Nobody}
    BY <1>9 DEF TypeOK, SendNew
  <2> QED
    BY <1>9, <2>2, <2>3, <2>4 DEF TypeOK, SendNew, server, history, usage
<1>10. ASSUME NEW c \in Convs, Stop(c)
       PROVE  TypeOK'
  <2>1. byId' \in [Convs -> ConvState]
    BY <1>10, StopShows DEF Now
  <2>2. /\ call' \in Seq(Call) /\ Len(call') <= MaxSends
        /\ controllers' \in [Convs -> 0 .. MaxSends]
    BY <1>1, <1>10, StopCalls
  <2> QED
    BY <1>10, <2>1, <2>2 DEF TypeOK, Stop, server, history, usage
<1>11. ASSUME NEW s \in Calls, Steps(s)
       PROVE  TypeOK'
  <2>1. nextRow <= MaxRow \/ ~ StoreReply(s)
    BY Room DEF StoreReply
  <2>2. call' \in Seq(Call) /\ Len(call') <= MaxSends
    BY <1>1, <1>11, <2>1, CallStep
  <2>3. CASE Done(s)
    <3>1. /\ byId' \in [Convs -> ConvState]
          /\ controllers' \in [Convs -> 0 .. MaxSends]
      BY <2>3, DoneShows DEF Now
    <3>2. poll' \in [0 .. MaxSends -> Poll]
      BY <1>1, <2>3 DEF Done, Refreshed, NewPoll, Poll, TypeOK
    <3> QED
      BY <2>2, <2>3, <3>1, <3>2 DEF TypeOK, Done, server, history
  <2>4. CASE Refused(s)
    <3>1. /\ byId' \in [Convs -> ConvState]
          /\ controllers' \in [Convs -> 0 .. MaxSends]
      BY <2>4, RefusedShows DEF Now
    <3> QED
      BY <2>2, <2>4, <3>1 DEF TypeOK, Refused, server, history, usage
  <2>5. CASE Broken(s)
    <3>1. broken' \subseteq Convs
      BY <2>5, CallTypes DEF TypeOK, Broken
    <3> QED
      BY <2>2, <2>5, <3>1 DEF TypeOK, Broken, server, usage
  <2>6. ASSUME NEW role \in Roles, Store(s, role),
               call[s].api \in {"request", "stream"}
        PROVE  TypeOK'
    <3>1. nextRow \in 1 .. MaxRow
      BY <1>1, <2>6, Room DEF TypeOK
    <3>2. PICK c : c = call[s].conv
      OBVIOUS
    <3>3. c \in Convs /\ rows[c] \in Seq(Row)
      BY <3>2, CallTypes, StateTypes
    <3>4. PICK r : r = [id |-> nextRow, role |-> role]
      OBVIOUS
    <3>5. r \in Row
      BY <2>6, <3>1, <3>4 DEF Row
    <3>6. Append(rows[c], r) \in Seq(Row)
      BY <3>3, <3>5, AppendProperties
    <3>7. rows' = [rows EXCEPT ![c] = Append(rows[c], r)]
      BY <2>6, <3>2, <3>4 DEF Store
    <3>8. rows' \in [Convs -> Seq(Row)]
      BY <3>6, <3>7 DEF TypeOK
    <3>9. nextRow' \in 1 .. MaxRow + 1
      BY <1>1, <2>6, <3>1 DEF Store
    <3> QED
      BY <2>2, <2>6, <3>8, <3>9 DEF TypeOK, Store, history, usage
  <2>7. CASE StoreUser(s)
    BY <2>6, <2>7 DEF StoreUser, Roles
  <2>8. CASE StoreReply(s)
    BY <2>6, <2>8 DEF StoreReply, Roles
  <2>9. CASE Charge(s)
    <3>1. used' \in 0 .. MaxSends /\ used <= used'
      BY <1>1, <2>9, Room DEF TypeOK, Charge
    <3>2. meter' \in {Unknown} \cup 0 .. used'
      BY <1>1, <2>9, <3>1 DEF TypeOK, Charge
    <3> QED
      BY <2>2, <2>9, <3>1, <3>2 DEF TypeOK, Charge, server, history
  <2>10. CASE GiveUp(s)
    <3>1. behind' \in BOOLEAN
      BY <2>10 DEF GiveUp
    <3> QED
      BY <2>2, <2>10, <3>1 DEF TypeOK, GiveUp, server, history
  <2> QED
    BY <1>11, <2>3, <2>4, <2>5, <2>7, <2>8, <2>9, <2>10 DEF Steps
<1>12. ASSUME NEW s \in 0 .. MaxSends, ReadUsage(s)
       PROVE  TypeOK'
  <2>1. [at |-> "read", used |-> used] \in Poll
    BY DEF TypeOK, Poll
  <2>2. poll' \in [0 .. MaxSends -> Poll]
    BY <1>12, <2>1 DEF TypeOK, ReadUsage
  <2> QED
    BY <1>12, <2>2 DEF TypeOK, ReadUsage, server, history
<1>13. ASSUME NEW s \in 0 .. MaxSends, Metered(s)
       PROVE  TypeOK'
  <2>1. poll[s] \in Poll /\ poll[s].used \in 0 .. used
    <3>1. used \in Nat
      BY DEF TypeOK
    <3> QED
      BY <3>1, PollTypes DEF Counted
  <2>2. poll' \in [0 .. MaxSends -> Poll]
    BY <1>13, PollTypes DEF Metered
  <2>3. meter' \in {Unknown} \cup 0 .. used /\ used' = used /\ behind' \in BOOLEAN
    BY <1>13, <2>1 DEF Metered
  <2> QED
    BY <1>13, <2>2, <2>3 DEF TypeOK, Metered, server, history
<1>14. ASSUME NEW s \in 0 .. MaxSends, NotMetered(s)
       PROVE  TypeOK'
  <2>1. poll' \in [0 .. MaxSends -> Poll]
    BY <1>14, PollTypes DEF NotMetered
  <2>2. behind' \in BOOLEAN
    BY <1>14 DEF NotMetered
  <2> QED
    BY <1>14, <2>1, <2>2 DEF TypeOK, NotMetered, server, history
<1> QED
  BY <1>2, <1>3, <1>4, <1>5, <1>6, <1>7, <1>8, <1>9, <1>10, <1>11, <1>12, <1>13,
     <1>14 DEF Next, Steps

LEMMA StepCounted ==
  ASSUME TypeOK, TypeOK', Counted, [Next]_vars
  PROVE  Counted'
<1>1. /\ Cardinality(Convs) \in Nat /\ nextRow \in Nat /\ used \in Nat
      /\ Cardinality(Posted) \in Nat /\ Cardinality(Replied) \in Nat
      /\ Cardinality(Tried) \in Nat /\ MaxSends \in Nat
  BY CallFunction, CountTypes DEF TypeOK
<1>2. CASE UNCHANGED vars
  BY <1>2 DEF Counted, vars, Posted, Replied, Tried, Calls
<1>3. CASE Next
  <2>1. PICK P, R, T : /\ P = Cardinality(Posted') /\ R = Cardinality(Replied')
                       /\ T = Cardinality(Tried')
    OBVIOUS
  <2>2. /\ P \in Nat /\ R \in Nat /\ T \in Nat
        /\ Cardinality(Posted) <= P /\ Cardinality(Replied) <= R
        /\ Cardinality(Tried) <= T
        /\ Posted # Posted' => Cardinality(Posted) < P
        /\ Replied # Replied' => Cardinality(Replied) < R
        /\ Tried # Tried' => Cardinality(Tried) < T
    BY <1>3, <2>1, ApiForward, CountsGrow
  <2>3. nextRow' <= Cardinality(Convs) + 1 + P + R
    <3>1. CASE nextRow' = nextRow
      BY <1>1, <2>2, <3>1 DEF Counted
    <3>2. CASE \E s \in Calls : StoreUser(s)
      <4>1. PICK s \in Calls : StoreUser(s)
        BY <3>2
      <4>2. s \notin Posted
        BY <4>1 DEF StoreUser, Posted
      <4>3. call'[s].api = "stream" /\ s \in Calls'
        BY <4>1, CallFunction, CallStep, Room DEF Steps, StoreUser, StoreReply
      <4>4. s \in Posted' /\ nextRow' = nextRow + 1
        BY <4>1, <4>3 DEF Posted, StoreUser, Store
      <4> QED
        BY <1>1, <2>2, <4>2, <4>4 DEF Counted
    <3>3. CASE \E s \in Calls : StoreReply(s)
      <4>1. PICK s \in Calls : StoreReply(s)
        BY <3>3
      <4>2. s \notin Replied
        BY <4>1 DEF StoreReply, Replied
      <4>3. call'[s].api = "stored" /\ s \in Calls'
        BY <4>1, CallFunction, CallStep, Room DEF Steps, StoreReply
      <4>4. s \in Replied' /\ nextRow' = nextRow + 1
        BY <4>1, <4>3 DEF Replied, StoreReply, Store
      <4> QED
        BY <1>1, <2>2, <4>2, <4>4 DEF Counted
    <3>4. \/ nextRow' = nextRow
          \/ \E s \in Calls : StoreUser(s)
          \/ \E s \in Calls : StoreReply(s)
      BY <1>3 DEF Next, Home, Visit, ReadRows, Loaded, LoadFailed, Send, SendNew,
              Stop, Done, Refused, Broken, Charge, GiveUp, ReadUsage, Metered,
              NotMetered, server
    <3> QED
      BY <3>1, <3>2, <3>3, <3>4
  <2>4. used <= used' /\ used' \in Nat /\ used' <= T
    <3>1. CASE used' = used
      BY <1>1, <2>2, <3>1 DEF Counted
    <3>2. CASE \E s \in Calls : Charge(s)
      <4>1. PICK s \in Calls : Charge(s)
        BY <3>2
      <4>2. s \notin Tried
        BY <4>1 DEF Charge, Tried
      <4>3. call'[s].api = "charged" /\ s \in Calls'
        BY <4>1, CallFunction, CallStep, Room DEF Steps, Charge, StoreReply
      <4>4. s \in Tried' /\ used' \in {used, used + 1}
        BY <4>1, <4>3 DEF Tried, Charge
      <4> QED
        BY <1>1, <2>2, <4>2, <4>4 DEF Counted
    <3>3. used' = used \/ \E s \in Calls : Charge(s)
      BY <1>3 DEF Next, Home, Visit, ReadRows, Loaded, LoadFailed, Send, SendNew,
              Stop, Done, Refused, Broken, StoreUser, StoreReply, Store, GiveUp,
              ReadUsage, Metered, NotMetered, usage
    <3> QED
      BY <3>1, <3>2, <3>3
  <2>5. ASSUME NEW t \in 0 .. MaxSends
        PROVE  poll'[t].used <= used'
    <3>1. poll \in [0 .. MaxSends -> Poll] /\ poll[t].used <= used /\ poll[t].used \in Nat
      BY PollTypes DEF Counted
    <3>2. \/ poll' = poll
          \/ \E s \in Calls : Done(s)
          \/ \E s \in 0 .. MaxSends : ReadUsage(s)
          \/ \E s \in 0 .. MaxSends : poll' = [poll EXCEPT ![s] = NoPoll]
      BY <1>3 DEF Next, Home, Visit, ReadRows, Loaded, LoadFailed, Send, SendNew,
              Stop, Refused, Broken, StoreUser, StoreReply, Store, Charge, GiveUp,
              Metered, NotMetered, usage
    <3>3. CASE poll' = poll
      BY <1>1, <2>4, <3>1, <3>3
    <3>4. CASE \E s \in Calls : Done(s)
      <4>1. PICK s : poll' = [poll EXCEPT ![s] = NewPoll]
        BY <3>4 DEF Done, Refreshed
      <4>2. poll'[t] = poll[t] \/ poll'[t] = NewPoll
        BY <3>1, <4>1
      <4> QED
        BY <1>1, <2>4, <3>1, <4>2 DEF NewPoll
    <3>5. CASE \E s \in 0 .. MaxSends : ReadUsage(s)
      <4>1. PICK s : poll' = [poll EXCEPT ![s] = [at |-> "read", used |-> used]]
        BY <3>5 DEF ReadUsage
      <4>2. poll'[t] = poll[t] \/ poll'[t] = [at |-> "read", used |-> used]
        BY <3>1, <4>1
      <4> QED
        BY <1>1, <2>4, <3>1, <4>2
    <3>6. CASE \E s \in 0 .. MaxSends : poll' = [poll EXCEPT ![s] = NoPoll]
      <4>1. poll'[t] = poll[t] \/ poll'[t] = NoPoll
        BY <3>1, <3>6
      <4> QED
        BY <1>1, <2>4, <3>1, <4>1 DEF NoPoll
    <3> QED
      BY <3>2, <3>3, <3>4, <3>5, <3>6
  <2> QED
    BY <2>1, <2>3, <2>4, <2>5 DEF Counted
<1> QED
  BY <1>2, <1>3

(***************************************************************************)
(* The store, the calls, the loads and the meter keep their types, and     *)
(* rows and charges are no more than the calls can make.                   *)
(***************************************************************************)
THEOREM TypeCorrect == Spec => [](TypeOK /\ Counted)
<1>1. Init => TypeOK /\ Counted
  BY InitTyped
<1>2. TypeOK /\ Counted /\ [Next]_vars => (TypeOK /\ Counted)'
  BY StepTyped, StepCounted
<1> QED
  BY <1>1, <1>2, PTL DEF Spec

-----------------------------------------------------------------------------
(* The meter. *)

\* The steps that touch neither the meter's fetches nor a charged call.
LEMMA OtherStepDue ==
  ASSUME TypeOK, Counted, Due, UNCHANGED usage,
         Calls \subseteq Calls',
         \A s \in Calls : call[s].api = "charged" => call'[s].api = "charged"
  PROVE  Due'
<1>1. used' = used /\ meter' = meter /\ poll' = poll /\ behind' = behind
  BY DEF usage
<1>2. (\E s \in Calls : call[s].api = "charged")
        => (\E s \in Calls' : call'[s].api = "charged")
  OBVIOUS
<1> QED
  BY <1>1, <1>2 DEF Due

LEMMA MeteredDue ==
  ASSUME TypeOK, Counted, Due, NEW s \in 0 .. MaxSends, Metered(s)
  PROVE  Due'
<1>1. /\ poll[s].used \in Nat /\ used \in Nat /\ poll[s].used <= used
      /\ poll \in [0 .. MaxSends -> Poll] /\ meter \in Int
  BY PollTypes DEF TypeOK, Counted, Unknown
<1>2. /\ meter' = poll[s].used /\ used' = used /\ call' = call
      /\ poll' = [poll EXCEPT ![s] = NoPoll]
      /\ behind' = (poll[s].used # used /\ (behind \/ poll[s].used < meter))
      /\ poll[s].at = "read"
  BY DEF Metered
<1>3. CASE poll[s].used = used
  BY <1>2, <1>3 DEF Due
<1>4. CASE poll[s].used # used /\ (behind \/ poll[s].used < meter)
  BY <1>2, <1>4 DEF Due
<1>5. CASE poll[s].used # used /\ ~ behind /\ ~ (poll[s].used < meter)
  <2>1. meter # used
    BY <1>1, <1>5
  <2>2. CASE \E t \in Calls : call[t].api = "charged"
    BY <1>2, <2>2 DEF Due, Calls
  <2>3. CASE \E t \in 0 .. MaxSends :
               poll[t].at = "sent" \/ poll[t] = [at |-> "read", used |-> used]
    <3>1. PICK t \in 0 .. MaxSends :
            poll[t].at = "sent" \/ poll[t] = [at |-> "read", used |-> used]
      BY <2>3
    <3>2. t # s
      BY <1>2, <1>5, <3>1
    <3>3. poll'[t] = poll[t]
      BY <1>1, <1>2, <3>2
    <3> QED
      BY <1>2, <3>1, <3>3 DEF Due
  <2> QED
    BY <1>5, <2>1, <2>2, <2>3 DEF Due
<1> QED
  BY <1>3, <1>4, <1>5

LEMMA StepDue ==
  ASSUME TypeOK, Counted, Due, [Next]_vars
  PROVE  Due'
<1>1. MaxSends \in Nat /\ Calls \subseteq 1 .. MaxSends
  BY CallFunction
<1>2. CASE UNCHANGED vars
  BY <1>2 DEF Due, vars, Calls
<1>3. ASSUME NEW s \in Calls, Done(s)
      PROVE  Due'
  <2>1. s \in 0 .. MaxSends
    BY <1>1
  <2>2. poll'[s] = NewPoll
    BY <1>3, <2>1, PollTypes DEF Done, Refreshed
  <2> QED
    BY <2>1, <2>2 DEF Due, NewPoll
<1>4. ASSUME NEW s \in Calls, Charge(s)
      PROVE  Due'
  <2>1. call'[s].api = "charged" /\ s \in Calls'
    BY <1>4, CallStep, Room DEF Steps, Charge, StoreReply
  <2> QED
    BY <2>1 DEF Due
<1>5. ASSUME NEW s \in Calls, GiveUp(s)
      PROVE  Due'
  <2>1. /\ Calls' = Calls /\ \A t \in Calls : t # s => call'[t] = call[t]
    BY <1>5, CallStep, Room DEF Steps, GiveUp, StoreReply
  <2>2. /\ behind' = (behind \/ call[s].api = "charged")
        /\ used' = used /\ meter' = meter /\ poll' = poll
    BY <1>5 DEF GiveUp
  <2>3. CASE call[s].api = "charged"
    BY <2>2, <2>3 DEF Due
  <2>4. CASE call[s].api # "charged"
    <3>1. (\E t \in Calls : call[t].api = "charged")
            => (\E t \in Calls' : call'[t].api = "charged")
      BY <2>1, <2>4
    <3> QED
      BY <2>2, <3>1 DEF Due
  <2> QED
    BY <2>3, <2>4
<1>6. ASSUME NEW s \in Calls,
             Refused(s) \/ Broken(s) \/ StoreUser(s) \/ StoreReply(s)
      PROVE  Due'
  <2>1. nextRow <= MaxRow \/ ~ StoreReply(s)
    BY Room DEF StoreReply
  <2>2. /\ Calls' = Calls /\ \A t \in Calls : t # s => call'[t] = call[t]
        /\ Broken(s) => call'[s].api = call[s].api
    BY <1>6, <2>1, CallStep DEF Steps
  <2>3. Broken(s) \/ call[s].api # "charged"
    BY <1>6 DEF Refused, StoreUser, StoreReply
  <2>4. UNCHANGED usage
    BY <1>6 DEF Refused, Broken, StoreUser, StoreReply, Store, usage
  <2> QED
    BY <2>2, <2>3, <2>4, OtherStepDue
<1>7. ASSUME NEW c \in Convs, NEW state, Post(c, state), UNCHANGED usage
      PROVE  Due'
  <2>1. Calls \subseteq Calls' /\ \A s \in Calls : call'[s] = call[s]
    BY <1>7, PostCalls
  <2> QED
    BY <1>7, <2>1, OtherStepDue
<1>8. ASSUME NEW c \in Convs, Stop(c)
      PROVE  Due'
  <2>1. Calls' = Calls /\ \A s \in Calls : call'[s].api = call[s].api
    BY <1>8, StopCalls
  <2>2. UNCHANGED usage
    BY <1>8 DEF Stop
  <2> QED
    BY <2>1, <2>2, OtherStepDue
<1>9. ASSUME call' = call, UNCHANGED usage
      PROVE  Due'
  BY <1>9, OtherStepDue DEF Calls
<1>10. ASSUME NEW s \in 0 .. MaxSends, ReadUsage(s)
       PROVE  Due'
  <2>1. /\ poll'[s] = [at |-> "read", used |-> used] /\ used' = used
    BY <1>10, PollTypes DEF ReadUsage
  <2> QED
    BY <2>1 DEF Due
<1>11. ASSUME NEW s \in 0 .. MaxSends, NotMetered(s)
       PROVE  Due'
  BY <1>11 DEF NotMetered, Due
<1>12. CASE Home
  BY <1>9, <1>12 DEF Home
<1>13. ASSUME NEW c \in Convs,
              Visit(c) \/ ReadRows(c) \/ Loaded(c) \/ LoadFailed(c)
       PROVE  Due'
  BY <1>9, <1>13 DEF Visit, ReadRows, Loaded, LoadFailed
<1>14. ASSUME NEW c \in Convs, Send(c) \/ SendNew(c)
       PROVE  Due'
  BY <1>7, <1>14 DEF Send, SendNew
<1> QED
  BY <1>2, <1>3, <1>4, <1>5, <1>6, <1>8, <1>10, <1>11, <1>12, <1>13, <1>14,
     MeteredDue DEF Next

(***************************************************************************)
(* The meter follows the charges: with no fetch under way, no charge to be *)
(* told of and nothing that got lost, it shows the runs that were charged. *)
(***************************************************************************)
THEOREM MeterKeepsUp == Spec => []MeterFollows
<1>1. Init => Due
  <2>1. ASSUME Init
        PROVE  Due
    <3>1. 0 \in 0 .. MaxSends
      BY StoreAssumption
    <3>2. poll[0].at = "sent"
      BY <2>1, <3>1 DEF Init, NewPoll
    <3> QED
      BY <3>1, <3>2 DEF Due
  <2> QED
    BY <2>1
<1>2. TypeOK /\ Counted /\ Due /\ [Next]_vars => Due'
  BY StepDue
<1>3. TypeOK /\ Due => MeterFollows
  <2>1. ASSUME TypeOK, Due, \A s \in DOMAIN poll : poll[s] = NoPoll,
               \A s \in Calls : call[s].api # "charged", ~ behind
        PROVE  meter = used
    <3>1. \A s \in 0 .. MaxSends : poll[s] = NoPoll
      BY <2>1, PollTypes
    <3> QED
      BY <2>1, <3>1 DEF Due, NoPoll
  <2> QED
    BY <2>1 DEF MeterFollows
<1> QED
  BY <1>1, <1>2, <1>3, TypeCorrect, PTL DEF Spec

-----------------------------------------------------------------------------
(* Rows, bubbles and their ids. *)

LEMMA RowIdsInit ==
  ASSUME Init, TypeOK
  PROVE  RowIds
<1>1. PICK old \in SUBSET Convs : \E id \in Injection(old, 1 .. Cardinality(old)) :
        /\ rows = [c \in Convs |-> IF c \in old
                                     THEN <<[id |-> id[c], role |-> "user"]>>
                                     ELSE <<>>]
        /\ nextRow = Cardinality(old) + 1
  BY DEF Init
<1>2. PICK id \in Injection(old, 1 .. Cardinality(old)) :
        rows = [c \in Convs |-> IF c \in old
                                  THEN <<[id |-> id[c], role |-> "user"]>>
                                  ELSE <<>>]
  BY <1>1
<1>3. Cardinality(old) \in Nat
  BY StoreAssumption, FS_Subset, FS_CardinalityType
<1>4. \A c \in old : id[c] \in 1 .. Cardinality(old)
  BY <1>2 DEF Injection, IsInjective
<1>5. \A c \in Convs : get[c] = NoGet
  BY DEF Init
<1>6. ASSUME NEW c \in Convs
      PROVE  /\ Distinct(rows[c])
             /\ \A i \in DOMAIN rows[c] : rows[c][i].id < nextRow
  <2>1. CASE c \in old
    <3>1. rows[c] = <<[id |-> id[c], role |-> "user"]>>
      BY <1>2, <2>1
    <3>2. DOMAIN rows[c] = {1} /\ rows[c][1].id = id[c]
      BY <3>1
    <3> QED
      BY <1>1, <1>3, <1>4, <2>1, <3>2 DEF Distinct
  <2>2. CASE c \notin old
    <3>1. rows[c] = <<>> /\ DOMAIN rows[c] = {}
      BY <1>2, <2>2
    <3> QED
      BY <3>1 DEF Distinct
  <2> QED
    BY <2>1, <2>2
<1>7. \A c \in Convs : get[c].rows = <<>> /\ DOMAIN get[c].rows = {}
  BY <1>5 DEF NoGet
<1> QED
  BY <1>6, <1>7 DEF RowIds, Distinct

LEMMA RowFacts ==
  ASSUME NEW q \in Seq(Row)
  PROVE  /\ Len(q) \in Nat /\ DOMAIN q = 1 .. Len(q)
         /\ \A i \in DOMAIN q : q[i] \in Row /\ q[i].id \in Nat
<1>1. Len(q) \in Nat /\ DOMAIN q = 1 .. Len(q)
  BY LenProperties
<1>2. \A i \in DOMAIN q : q[i] \in Row
  BY <1>1, ElementOfSeq
<1>3. MaxRow \in Nat
  BY StoreAssumption, FS_CardinalityType DEF MaxRow
<1> QED
  BY <1>1, <1>2, <1>3 DEF Row

LEMMA NewRow ==
  ASSUME NEW q \in Seq(Row), NEW n \in Nat, NEW r, r.id = n,
         Distinct(q), \A i \in DOMAIN q : q[i].id < n
  PROVE  /\ Distinct(Append(q, r))
         /\ \A i \in DOMAIN Append(q, r) : Append(q, r)[i].id < n + 1
<1>1. /\ Len(q) \in Nat /\ DOMAIN q = 1 .. Len(q)
      /\ \A i \in DOMAIN q : q[i].id \in Nat
  BY RowFacts
<1>2. PICK p : p = Append(q, r)
  OBVIOUS
<1>3. /\ DOMAIN p = 1 .. Len(q) + 1
      /\ \A i \in 1 .. Len(q) : p[i] = q[i]
      /\ p[Len(q) + 1] = r
  BY <1>1, <1>2
<1>4. \A i \in DOMAIN p : i \in DOMAIN q \/ i = Len(q) + 1
  BY <1>1, <1>3
<1>5. \A i \in DOMAIN p : p[i].id < n + 1
  BY <1>1, <1>3, <1>4
<1>6. ASSUME NEW i \in DOMAIN p, NEW j \in DOMAIN p, p[i].id = p[j].id
      PROVE  i = j
  <2>1. CASE i \in DOMAIN q /\ j \in DOMAIN q
    BY <1>1, <1>3, <1>6, <2>1 DEF Distinct
  <2>2. CASE i \notin DOMAIN q \/ j \notin DOMAIN q
    BY <1>1, <1>3, <1>4, <1>6, <2>2
  <2> QED
    BY <2>1, <2>2
<1> QED
  BY <1>2, <1>5, <1>6 DEF Distinct

\* A load answers with the rows there are, and asks with none.
LEMMA GetStep ==
  ASSUME TypeOK, Next, NEW c \in Convs
  PROVE  get'[c] = get[c] \/ get'[c].rows = <<>> \/ get'[c].rows = rows[c]
<1>1. get \in [Convs -> Get]
  BY DEF TypeOK
<1>2. ASSUME NEW d \in Convs, Visit(d)
      PROVE  get'[c] = get[c] \/ get'[c].rows = <<>>
  BY <1>1, <1>2 DEF Visit, Load
<1>3. ASSUME NEW d \in Convs, ReadRows(d)
      PROVE  get'[c] = get[c] \/ get'[c].rows = <<>> \/ get'[c].rows = rows[c]
  <2>1. CASE get' = [get EXCEPT ![d] = [at |-> "read", rows |-> rows[d]]]
    BY <1>1, <2>1
  <2>2. CASE get' = [get EXCEPT ![d].at = "failed"]
    <3>1. get[d] \in Get /\ get[d].at = "sent"
      BY <1>1, <1>3 DEF ReadRows
    <3>2. get[d].rows = <<>>
      BY <3>1 DEF Get
    <3>3. [get[d] EXCEPT !.at = "failed"].rows = <<>>
      BY <3>1, <3>2 DEF Get
    <3> QED
      BY <1>1, <2>2, <3>3
  <2> QED
    BY <1>3, <2>1, <2>2 DEF ReadRows
<1>4. ASSUME NEW d \in Convs, Loaded(d) \/ LoadFailed(d)
      PROVE  get'[c] = get[c] \/ get'[c].rows = <<>>
  <2>1. get' = [get EXCEPT ![d] = NoGet]
    BY <1>4 DEF Loaded, LoadFailed
  <2> QED
    BY <1>1, <2>1 DEF NoGet
<1>5. \/ get' = get
      \/ \E d \in Convs : Visit(d) \/ ReadRows(d) \/ Loaded(d) \/ LoadFailed(d)
  BY DEF Next, Home, Send, SendNew, Stop, Done, Refused, Broken, StoreUser,
         StoreReply, Store, Charge, GiveUp, ReadUsage, Metered, NotMetered
<1> QED
  BY <1>2, <1>3, <1>4, <1>5

\* The rows of a conversation only grow, by one that has a new id.
LEMMA RowsStep ==
  ASSUME TypeOK, Next
  PROVE  \/ rows' = rows /\ nextRow' = nextRow
         \/ \E s \in Calls : \E role \in Roles :
              /\ Store(s, role)
              /\ StoreReply(s) \/ StoreUser(s)
BY DEF Next, Home, Visit, ReadRows, Loaded, LoadFailed, Send, SendNew, Stop,
       Done, Refused, Broken, StoreUser, StoreReply, Charge, GiveUp, ReadUsage,
       Metered, NotMetered, server, Roles

LEMMA RowIdsStep ==
  ASSUME TypeOK, RowIds, [Next]_vars
  PROVE  RowIds'
<1>1. CASE UNCHANGED vars
  BY <1>1 DEF RowIds, vars, Distinct
<1>2. CASE Next
  <2>1. nextRow \in Nat
    BY DEF TypeOK
  <2>2. ASSUME NEW c \in Convs
        PROVE  /\ Distinct(rows'[c])
               /\ \A i \in DOMAIN rows'[c] : rows'[c][i].id < nextRow'
               /\ nextRow <= nextRow' /\ nextRow' \in Nat
    <3>1. /\ rows[c] \in Seq(Row) /\ Distinct(rows[c])
          /\ \A i \in DOMAIN rows[c] : rows[c][i].id < nextRow
          /\ \A i \in DOMAIN rows[c] : rows[c][i].id \in Nat
      BY StateTypes, RowFacts DEF RowIds
    <3>2. CASE rows' = rows /\ nextRow' = nextRow
      BY <2>1, <3>1, <3>2
    <3>3. ASSUME NEW s \in Calls, NEW role \in Roles, Store(s, role)
          PROVE  /\ Distinct(rows'[c])
                 /\ \A i \in DOMAIN rows'[c] : rows'[c][i].id < nextRow'
                 /\ nextRow <= nextRow' /\ nextRow' \in Nat
      <4>1. PICK r : r = [id |-> nextRow, role |-> role]
        OBVIOUS
      <4>2. PICK d : d = call[s].conv
        OBVIOUS
      <4>3. rows' = [rows EXCEPT ![d] = Append(rows[d], r)] /\ nextRow' = nextRow + 1
        BY <3>3, <4>1, <4>2 DEF Store
      <4>4. rows'[c] = rows[c] \/ rows'[c] = Append(rows[c], r)
        BY <4>3 DEF TypeOK
      <4>5. r.id = nextRow
        BY <4>1
      <4>6. /\ Distinct(Append(rows[c], r))
            /\ \A i \in DOMAIN Append(rows[c], r) : Append(rows[c], r)[i].id < nextRow + 1
        BY <2>1, <3>1, <4>5, NewRow
      <4>7. \A i \in DOMAIN rows[c] : rows[c][i].id < nextRow + 1
        BY <2>1, <3>1
      <4> QED
        BY <2>1, <3>1, <4>3, <4>4, <4>6, <4>7
    <3> QED
      BY <1>2, <3>2, <3>3, RowsStep
  <2>3. ASSUME NEW c \in Convs
        PROVE  /\ Distinct(get'[c].rows)
               /\ \A i \in DOMAIN get'[c].rows : get'[c].rows[i].id < nextRow'
    <3>1. /\ Distinct(get[c].rows) /\ Distinct(rows[c])
          /\ \A i \in DOMAIN rows[c] : rows[c][i].id < nextRow
          /\ \A i \in DOMAIN get[c].rows : get[c].rows[i].id < nextRow
      BY DEF RowIds
    <3>2. nextRow <= nextRow' /\ nextRow' \in Nat
      BY <2>2
    <3>3. /\ \A i \in DOMAIN rows[c] : rows[c][i].id \in Int
          /\ \A i \in DOMAIN get[c].rows : get[c].rows[i].id \in Int
      BY StateTypes, RowFacts
    <3>4. PICK q : q = get'[c].rows
      OBVIOUS
    <3>5. q = get[c].rows \/ q = <<>> \/ q = rows[c]
      BY <1>2, <3>4, GetStep
    <3>6. DOMAIN <<>> = {}
      OBVIOUS
    <3>7. Distinct(q) /\ \A i \in DOMAIN q : q[i].id < nextRow'
      BY <2>1, <3>1, <3>2, <3>3, <3>5, <3>6 DEF Distinct
    <3> QED
      BY <3>4, <3>7
  <2> QED
    BY <2>2, <2>3 DEF RowIds, Distinct
<1> QED
  BY <1>1, <1>2

LEMMA CallIdsStep ==
  ASSUME TypeOK, TypeOK', Counted, CallIds, [Next]_vars
  PROVE  CallIds'
<1>1. tempId \in Int /\ tempId <= 0 /\ \A s \in Calls : call[s].assistant \in Int
  BY CallTypes DEF TypeOK
<1>2. CASE UNCHANGED vars
  BY <1>2 DEF CallIds, vars, Calls
<1>3. ASSUME NEW c \in Convs, NEW state, Post(c, state)
      PROVE  CallIds'
  <2>1. PICK n : n = Len(call) + 1
    OBVIOUS
  <2>2. /\ Calls' = Calls \cup {n} /\ n \notin Calls
        /\ \A s \in Calls : call'[s] = call[s]
        /\ call'[n].assistant = tempId - 2
        /\ tempId' = tempId - 2
    <3>1. call'[n] = [conv |-> c, assistant |-> tempId - 2, live |-> TRUE,
                      api |-> "request", reply |-> 0]
      BY <1>3, <2>1, PostCalls
    <3>2. call'[n].assistant = tempId - 2
      BY <3>1
    <3> QED
      BY <1>3, <2>1, <3>2, PostCalls
  <2>3. \A s \in Calls : tempId <= call[s].assistant /\ call[s].assistant < 0
    BY DEF CallIds
  <2>4. \A s \in Calls' : tempId' <= call'[s].assistant /\ call'[s].assistant < 0
    BY <1>1, <2>2, <2>3
  <2>5. \A s, t \in Calls' : call'[s].assistant = call'[t].assistant => s = t
    BY <1>1, <2>2, <2>3 DEF CallIds
  <2> QED
    BY <2>4, <2>5 DEF CallIds
<1>4. ASSUME Next, Calls' = Calls, tempId' = tempId
      PROVE  CallIds'
  <2>1. \A s \in Calls : call'[s].assistant = call[s].assistant
    BY <1>4, ApiForward
  <2> QED
    BY <1>4, <2>1 DEF CallIds
<1>5. ASSUME Next
      PROVE  \/ Calls' = Calls /\ tempId' = tempId
             \/ \E c \in Convs : \E state : Post(c, state)
  <2>1. ASSUME NEW s \in Calls, Steps(s)
        PROVE  Calls' = Calls
    BY <2>1, CallStep, Room DEF StoreReply
  <2>2. ASSUME NEW c \in Convs, Stop(c)
        PROVE  Calls' = Calls
    BY <2>2, StopCalls
  <2>3. call' = call => Calls' = Calls
    BY DEF Calls
  <2> QED
    BY <1>5, <2>1, <2>2, <2>3
       DEF Next, Steps, Home, Visit, ReadRows, Loaded, LoadFailed, Send, SendNew,
           Stop, Done, Refused, Broken, StoreUser, StoreReply, Store, Charge,
           GiveUp, ReadUsage, Metered, NotMetered
<1> QED
  BY <1>2, <1>3, <1>4, <1>5

-----------------------------------------------------------------------------
(* What each change of the messages makes of their ids. *)

\* Ids are distinct, between those of the bubbles and those of the rows, and
\* only a bubble waits for its stream.
Sound(q, low, high) ==
  /\ Distinct(q)
  /\ \A m \in Range(q) : /\ low <= m.id /\ m.id # 0 /\ m.id < high
                         /\ m.streaming => m.id < 0

LEMMA SoundWider ==
  ASSUME NEW q \in Seq(Shown), NEW low \in Int, NEW high \in Int,
         NEW lower \in Int, NEW higher \in Int,
         lower <= low, high <= higher, Sound(q, low, high)
  PROVE  Sound(q, lower, higher)
<1>1. \A m \in Range(q) : m.id \in Int
  BY MessageFacts
<1> QED
  BY <1>1 DEF Sound

LEMMA KeptRange ==
  ASSUME NEW q \in Seq(Shown), NEW K, K \subseteq DOMAIN q
  PROVE  \A m : m \in Range(Kept(q, K)) <=> \E k \in K : m = q[k]
<1>1. PICK p : p = Kept(q, K)
  OBVIOUS
<1>2. PICK at : Selects(at, p, q, K)
  BY <1>1, KeptFacts
<1>3. p \in Seq(Shown)
  BY <1>1, KeptFacts
<1>4. ASSUME NEW m, m \in Range(p)
      PROVE  \E k \in K : m = q[k]
  <2>1. PICK i \in DOMAIN p : m = p[i]
    BY <1>3, <1>4, MessageFacts
  <2>2. at[i] \in K /\ m = q[at[i]]
    BY <1>2, <2>1 DEF Selects
  <2> QED
    BY <2>2
<1>5. ASSUME NEW m, NEW k \in K, m = q[k]
      PROVE  m \in Range(p)
  <2>1. PICK i \in DOMAIN p : at[i] = k
    BY <1>2 DEF Selects
  <2>2. m = p[i]
    BY <1>2, <1>5, <2>1 DEF Selects
  <2> QED
    BY <1>3, <2>1, <2>2, MessageFacts
<1> QED
  BY <1>1, <1>4, <1>5

LEMMA KeptSound ==
  ASSUME NEW q \in Seq(Shown), NEW K, K \subseteq DOMAIN q,
         NEW low, NEW high, Sound(q, low, high)
  PROVE  Sound(Kept(q, K), low, high)
<1>1. PICK p : p = Kept(q, K)
  OBVIOUS
<1>2. PICK at : Selects(at, p, q, K)
  BY <1>1, KeptFacts
<1>3. ASSUME NEW i \in DOMAIN p, NEW j \in DOMAIN p, p[i].id = p[j].id
      PROVE  i = j
  <2>1. q[at[i]].id = q[at[j]].id /\ at[i] \in DOMAIN q /\ at[j] \in DOMAIN q
    BY <1>2, <1>3 DEF Selects
  <2>2. at[i] = at[j]
    BY <2>1 DEF Sound, Distinct
  <2> QED
    BY <1>2, <2>2 DEF Selects
<1>4. \A m \in Range(p) : m \in Range(q)
  BY <1>1, KeptRange, MessageFacts
<1> QED
  BY <1>1, <1>3, <1>4 DEF Sound, Distinct

LEMMA PostFacts ==
  ASSUME TypeOK, NEW q \in Seq(Shown)
  PROVE  /\ q \o <<Asked, Bubble>> \in Seq(Shown)
         /\ \A m : m \in Range(q \o <<Asked, Bubble>>) <=>
                     m \in Range(q) \/ m = Asked \/ m = Bubble
         /\ \A high \in Nat : Sound(q, tempId, high) /\ high >= 1 =>
              Sound(q \o <<Asked, Bubble>>, tempId - 2, high)
<1>1. /\ tempId \in Int /\ tempId <= 0 /\ Asked \in Shown /\ Bubble \in Shown
      /\ Asked.id = tempId - 1 /\ Bubble.id = tempId - 2 /\ ~ Asked.streaming
  BY DEF TypeOK, Asked, Bubble, Shown, Roles
<1>2. PICK tail : tail = <<Asked, Bubble>>
  OBVIOUS
<1>3. /\ tail \in Seq(Shown) /\ Len(tail) = 2 /\ tail[1] = Asked /\ tail[2] = Bubble
  BY <1>1, <1>2
<1>4. PICK p : p = q \o tail
  OBVIOUS
<1>5. PICK n : n = Len(q)
  OBVIOUS
<1>6. /\ n \in Nat /\ DOMAIN q = 1 .. n
      /\ \A i \in DOMAIN q : q[i].id \in Int
      /\ \A m \in Range(q) : m.id \in Int
      /\ \A i \in DOMAIN q : q[i] \in Range(q)
  BY <1>5, MessageFacts
<1>7. /\ p \in Seq(Shown) /\ Len(p) = n + 2
      /\ \A i \in 1 .. n + 2 : p[i] = IF i <= n THEN q[i] ELSE tail[i - n]
  <2>1. /\ p \in Seq(Shown) /\ Len(p) = Len(q) + Len(tail)
        /\ \A i \in 1 .. Len(q) + Len(tail) :
             p[i] = IF i <= Len(q) THEN q[i] ELSE tail[i - Len(q)]
    BY <1>3, <1>4, ConcatProperties
  <2> QED
    BY <1>3, <1>5, <2>1
<1>8. /\ DOMAIN p = 1 .. n + 2
      /\ \A i \in 1 .. n : p[i] = q[i]
      /\ p[n + 1] = Asked /\ p[n + 2] = Bubble
  <2>1. n + 1 \in 1 .. n + 2 /\ n + 2 \in 1 .. n + 2 /\ ~ (n + 1 <= n) /\ ~ (n + 2 <= n)
    BY <1>6
  <2>2. (n + 1) - n = 1 /\ (n + 2) - n = 2
    BY <1>6
  <2>3. p[n + 1] = tail[1] /\ p[n + 2] = tail[2]
    BY <1>7, <2>1, <2>2
  <2>4. \A i \in 1 .. n : p[i] = q[i]
    BY <1>6, <1>7
  <2>5. DOMAIN p = 1 .. n + 2
    BY <1>7, MessageFacts
  <2> QED
    BY <1>3, <2>3, <2>4, <2>5
<1>9. \A m : m \in Range(p) <=> m \in Range(q) \/ m = Asked \/ m = Bubble
  <2>1. \A i \in 1 .. n + 2 : i \in 1 .. n \/ i = n + 1 \/ i = n + 2
    BY <1>6
  <2>2. 1 .. n \subseteq 1 .. n + 2 /\ n + 1 \in 1 .. n + 2 /\ n + 2 \in 1 .. n + 2
    BY <1>6
  <2>3. ASSUME NEW m, m \in Range(p)
        PROVE  m \in Range(q) \/ m = Asked \/ m = Bubble
    <3>1. PICK i \in 1 .. n + 2 : m = p[i]
      BY <1>7, <1>8, <2>3, MessageFacts
    <3> QED
      BY <1>6, <1>8, <2>1, <3>1
  <2>4. ASSUME NEW m, m \in Range(q)
        PROVE  m \in Range(p)
    <3>1. PICK i \in 1 .. n : m = q[i]
      BY <1>6, <2>4, MessageFacts
    <3>2. m = p[i] /\ i \in DOMAIN p
      BY <1>8, <2>2, <3>1
    <3> QED
      BY <1>7, <3>2, MessageFacts
  <2>5. Asked \in Range(p) /\ Bubble \in Range(p)
    BY <1>7, <1>8, <2>2, MessageFacts
  <2> QED
    BY <2>3, <2>4, <2>5
<1>10. ASSUME NEW high \in Nat, Sound(q, tempId, high), high >= 1
       PROVE  Sound(p, tempId - 2, high)
  <2>1. \A i \in 1 .. n : tempId <= q[i].id
    BY <1>6, <1>10 DEF Sound
  <2>2. ASSUME NEW i \in DOMAIN p, NEW j \in DOMAIN p, p[i].id = p[j].id
        PROVE  i = j
    <3>1. \A k \in DOMAIN p : k \in 1 .. n \/ k = n + 1 \/ k = n + 2
      BY <1>6, <1>8
    <3>2. CASE i \in 1 .. n /\ j \in 1 .. n
      BY <1>6, <1>8, <1>10, <2>2, <3>2 DEF Sound, Distinct
    <3>3. CASE ~ (i \in 1 .. n /\ j \in 1 .. n)
      BY <1>1, <1>6, <1>8, <2>1, <2>2, <3>1, <3>3
    <3> QED
      BY <3>2, <3>3
  <2>3. ASSUME NEW m \in Range(p)
        PROVE  /\ tempId - 2 <= m.id /\ m.id # 0 /\ m.id < high
               /\ m.streaming => m.id < 0
    BY <1>1, <1>6, <1>9, <1>10, <2>3 DEF Sound
  <2> QED
    BY <2>2, <2>3 DEF Sound, Distinct
<1> QED
  BY <1>2, <1>4, <1>7, <1>9, <1>10

LEMMA RowsSound ==
  ASSUME NEW R \in Seq(Row), Distinct(R), NEW low \in Int, low <= 0, NEW high \in Nat,
         \A i \in DOMAIN R : R[i].id < high
  PROVE  /\ Sound(AsShown(R), low, high)
         /\ \A m \in Range(AsShown(R)) : ~ m.streaming /\ m.id > 0
<1>1. /\ Len(R) \in Nat /\ DOMAIN R = 1 .. Len(R)
      /\ \A i \in DOMAIN R : R[i] \in Row /\ R[i].id \in Nat /\ R[i].id > 0
  <2>1. MaxRow \in Nat
    BY StoreAssumption, FS_CardinalityType DEF MaxRow
  <2>2. /\ Len(R) \in Nat /\ DOMAIN R = 1 .. Len(R)
        /\ \A i \in DOMAIN R : R[i] \in Row /\ R[i].id \in Nat
    BY RowFacts
  <2>3. \A r \in Row : r.id > 0
    BY <2>1 DEF Row
  <2> QED
    BY <2>2, <2>3
<1>2. PICK p : p = AsShown(R)
  OBVIOUS
<1>3. DOMAIN p = 1 .. Len(R)
  BY <1>2 DEF AsShown
<1>4. \A i \in DOMAIN p : p[i].id = R[i].id /\ p[i].streaming = FALSE
  BY <1>2, <1>3 DEF AsShown
<1>5. p \in Seq(Shown)
  BY <1>2, AsShownType, StoreAssumption, FS_CardinalityType DEF MaxRow
<1>6. \A m \in Range(p) : m.id > 0 /\ m.id \in Nat /\ m.id < high /\ ~ m.streaming
  BY <1>1, <1>3, <1>4, <1>5, MessageFacts
<1>7. Distinct(p)
  BY <1>1, <1>3, <1>4 DEF Distinct
<1> QED
  BY <1>2, <1>6, <1>7 DEF Sound

\* A message that is not the bubble is as it was.
LEMMA SettledFacts ==
  ASSUME TypeOK, NEW s \in Calls
  PROVE  LET q == byId[call[s].conv].messages IN
         /\ q \in Seq(Shown) /\ DOMAIN Settled(s) = DOMAIN q
         /\ \A i \in DOMAIN q :
              /\ q[i].id # call[s].assistant => Settled(s)[i] = q[i]
              /\ q[i].id = call[s].assistant =>
                   /\ Settled(s)[i].id = call[s].reply
                   /\ Settled(s)[i].streaming = FALSE
<1>0. PICK q : q = byId[call[s].conv].messages
  OBVIOUS
<1>1. q \in Seq(Shown)
  BY <1>0, CallTypes, StateTypes
<1>2. \A i \in DOMAIN q : q[i] \in Shown
  BY <1>1, MessageFacts
<1>3. Settled(s) = [i \in DOMAIN q |-> IF q[i].id = call[s].assistant
                      THEN [q[i] EXCEPT !.id = call[s].reply, !.streaming = FALSE]
                      ELSE q[i]]
  BY <1>0 DEF Settled
<1>4. ASSUME NEW i \in DOMAIN q
      PROVE  /\ q[i].id # call[s].assistant => Settled(s)[i] = q[i]
             /\ q[i].id = call[s].assistant =>
                  /\ Settled(s)[i].id = call[s].reply
                  /\ Settled(s)[i].streaming = FALSE
  <2>1. PICK new : new = [q[i] EXCEPT !.id = call[s].reply, !.streaming = FALSE]
    OBVIOUS
  <2>2. new.id = call[s].reply /\ new.streaming = FALSE
    BY <1>2, <2>1 DEF Shown
  <2>3. Settled(s)[i] = IF q[i].id = call[s].assistant THEN new ELSE q[i]
    BY <1>3, <2>1
  <2> QED
    BY <2>2, <2>3
<1>5. DOMAIN Settled(s) = DOMAIN q
  BY <1>3
<1> QED
  BY <1>0, <1>1, <1>4, <1>5

LEMMA SettledSound ==
  ASSUME TypeOK, ShownIds, ReplyIds, NotBoth, NEW s \in Calls, Done(s)
  PROVE  /\ Settled(s) \in Seq(Shown)
         /\ Sound(Settled(s), tempId, nextRow)
<1>1. PICK q : q = byId[call[s].conv].messages
  OBVIOUS
<1>2. PICK p : p = Settled(s)
  OBVIOUS
<1>3. /\ q \in Seq(Shown) /\ DOMAIN p = DOMAIN q
      /\ \A i \in DOMAIN q :
           /\ q[i].id # call[s].assistant => p[i] = q[i]
           /\ q[i].id = call[s].assistant =>
                p[i].id = call[s].reply /\ p[i].streaming = FALSE
  BY <1>1, <1>2, SettledFacts
<1>4. /\ call[s].reply \in Nat /\ call[s].reply > 0 /\ call[s].reply < nextRow
      /\ tempId \in Int /\ tempId <= 0 /\ nextRow \in Nat
  BY CallTypes, CallFunction DEF TypeOK, ReplyIds, Done
<1>5. Distinct(q) /\ \A m \in Range(q) : /\ tempId <= m.id /\ m.id # 0 /\ m.id < nextRow
                                         /\ m.streaming => m.id < 0
  BY <1>1, CallTypes DEF ShownIds
<1>6. \A i \in DOMAIN q : q[i] \in Range(q) /\ q[i].id \in Int
  BY <1>3, MessageFacts
<1>7. p \in Seq(Shown)
  BY <1>2, DoneShows DEF Now
<1>8. ASSUME NEW i \in DOMAIN q, NEW j \in DOMAIN q,
             q[i].id = call[s].assistant, p[j].id = call[s].reply
      PROVE  q[j].id = call[s].assistant
  <2>1. q[j].id > 0 => q[j].id # call[s].reply
    BY <1>1, <1>6, <1>8 DEF NotBoth
  <2> QED
    BY <1>3, <1>4, <1>8, <2>1
<1>9. ASSUME NEW i \in DOMAIN p, NEW j \in DOMAIN p, p[i].id = p[j].id
      PROVE  i = j
  <2>1. q[i].id = q[j].id
    BY <1>3, <1>8, <1>9
  <2> QED
    BY <1>3, <1>5, <2>1 DEF Distinct
<1>10. ASSUME NEW m \in Range(p)
       PROVE  /\ tempId <= m.id /\ m.id # 0 /\ m.id < nextRow
              /\ m.streaming => m.id < 0
  <2>1. PICK i \in DOMAIN p : m = p[i]
    BY <1>7, MessageFacts
  <2>2. CASE q[i].id = call[s].assistant
    BY <1>3, <1>4, <2>1, <2>2
  <2>3. CASE q[i].id # call[s].assistant
    BY <1>3, <1>5, <1>6, <2>1, <2>3
  <2> QED
    BY <2>2, <2>3
<1> QED
  BY <1>2, <1>7, <1>9, <1>10 DEF Sound, Distinct

-----------------------------------------------------------------------------
(* Ids stay apart. *)

IdsInv == RowIds /\ CallIds /\ ReplyIds /\ ShownIds /\ NotBoth

\* The steps that change what the tab shows.
LEMMA Showing ==
  ASSUME Next
  PROVE  \/ byId' = byId
         \/ \E c \in Convs : Loaded(c) \/ LoadFailed(c) \/ Send(c) \/ SendNew(c) \/ Stop(c)
         \/ \E s \in Calls : Done(s) \/ Refused(s)
BY DEF Next, Home, Visit, ReadRows, Broken, StoreUser, StoreReply, Store, Charge,
       GiveUp, ReadUsage, Metered, NotMetered

LEMMA NumbersStep ==
  ASSUME TypeOK, Next
  PROVE  /\ tempId \in Int /\ tempId' \in Int /\ tempId' <= tempId /\ tempId <= 0
         /\ nextRow \in Nat /\ nextRow' \in Nat /\ nextRow <= nextRow' /\ nextRow >= 1
<1>1. tempId \in Int /\ tempId <= 0 /\ nextRow \in Nat /\ nextRow >= 1
  BY DEF TypeOK
<1>2. nextRow' = nextRow \/ nextRow' = nextRow + 1
  BY RowsStep DEF Store
<1>3. tempId' = tempId \/ tempId' = tempId - 2
  BY DEF Next, Home, Visit, ReadRows, Loaded, LoadFailed, Send, SendNew, Post, Stop,
         Done, Refused, Broken, StoreUser, StoreReply, Store, Charge, GiveUp,
         ReadUsage, Metered, NotMetered
<1> QED
  BY <1>1, <1>2, <1>3

\* A call gets its reply when that is stored, and it is the newest row.
LEMMA ReplyStep ==
  ASSUME TypeOK, Counted, Next
  PROVE  /\ \A s \in Calls : \/ /\ call'[s].reply = call[s].reply
                                /\ call'[s].api \in {"stored", "charged"} =>
                                     call[s].api \in {"stored", "charged"}
                             \/ /\ StoreReply(s) /\ call'[s].reply = nextRow
                                /\ nextRow' = nextRow + 1 /\ byId' = byId
         /\ \A s \in Calls' : s \notin Calls =>
              call'[s].reply = 0 /\ call'[s].api = "request"
         /\ \A s, t \in Calls : call'[s].reply # call[s].reply
                                  /\ call'[t].reply # call[t].reply => s = t
<1>1. CASE \E s \in Calls : Steps(s)
  <2>1. PICK s \in Calls : Steps(s)
    BY <1>1
  <2>2. nextRow <= MaxRow \/ ~ StoreReply(s)
    BY Room DEF StoreReply
  <2>3. /\ Calls' = Calls
        /\ \A t \in Calls : t # s => call'[t] = call[t]
    BY <2>1, <2>2, CallStep
  <2>4. CASE StoreReply(s)
    <3>1. call'[s].reply = nextRow /\ nextRow' = nextRow + 1 /\ byId' = byId
      BY <2>1, <2>2, <2>4, CallStep DEF StoreReply, Store
    <3> QED
      BY <2>3, <2>4, <3>1
  <2>5. CASE ~ StoreReply(s)
    <3>1. /\ call'[s].reply = call[s].reply
          /\ call'[s].api \in {"stored", "charged"} => call[s].api \in {"stored", "charged"}
      <4>1. Charge(s) => call[s].api = "stored"
        BY DEF Charge
      <4> QED
        BY <2>1, <2>2, <2>5, <4>1, CallStep DEF Steps
    <3> QED
      BY <2>3, <3>1
  <2> QED
    BY <2>4, <2>5
<1>2. ASSUME NEW c \in Convs, NEW state, Post(c, state)
      PROVE  /\ \A s \in Calls : call'[s] = call[s]
             /\ \A s \in Calls' : s \notin Calls =>
                  call'[s].reply = 0 /\ call'[s].api = "request"
  <2>1. PICK n : n = Len(call) + 1
    OBVIOUS
  <2>2. /\ Calls' = Calls \cup {n} /\ \A s \in Calls : call'[s] = call[s]
        /\ call'[n] = [conv |-> c, assistant |-> tempId - 2,
                       live |-> TRUE, api |-> "request", reply |-> 0]
    BY <1>2, <2>1, PostCalls
  <2>3. call'[n].reply = 0 /\ call'[n].api = "request"
    BY <2>2
  <2> QED
    BY <2>2, <2>3
<1>3. ASSUME NEW c \in Convs, Stop(c)
      PROVE  /\ Calls' = Calls
             /\ \A s \in Calls : call'[s].reply = call[s].reply /\ call'[s].api = call[s].api
  BY <1>3, StopCalls
<1>4. call' = call => Calls' = Calls
  BY DEF Calls
<1>5. \/ \E s \in Calls : Steps(s)
      \/ \E c \in Convs : Stop(c)
      \/ \E c \in Convs : \E state : Post(c, state)
      \/ call' = call
  BY DEF Next, Steps, Home, Visit, ReadRows, Loaded, LoadFailed, Send, SendNew,
         ReadUsage, Metered, NotMetered
<1>6. CASE \E c \in Convs : Stop(c)
  BY <1>3, <1>6
<1>7. CASE \E c \in Convs : \E state : Post(c, state)
  BY <1>2, <1>7
<1>8. CASE call' = call
  BY <1>4, <1>8
<1> QED
  BY <1>1, <1>5, <1>6, <1>7, <1>8

LEMMA ReplyIdsStep ==
  ASSUME TypeOK, TypeOK', Counted, ReplyIds, [Next]_vars
  PROVE  ReplyIds'
<1>1. CASE UNCHANGED vars
  BY <1>1 DEF ReplyIds, vars, Calls
<1>2. CASE Next
  <2>1. /\ nextRow \in Nat /\ nextRow' \in Nat /\ nextRow <= nextRow' /\ nextRow >= 1
    BY <1>2, NumbersStep
  <2>2. \A s \in Calls : /\ call[s].reply \in Nat /\ call[s].reply < nextRow
                         /\ call[s].api \in {"stored", "charged"} => call[s].reply > 0
    BY CallTypes, CallFunction DEF ReplyIds
  <2>3. \A s, t \in Calls :
          call[s].reply = call[t].reply /\ call[s].reply # 0 => s = t
    BY DEF ReplyIds
  <2>4. ASSUME NEW s \in Calls'
        PROVE  /\ call'[s].reply < nextRow'
               /\ call'[s].api \in {"stored", "charged"} => call'[s].reply > 0
    BY <1>2, <2>1, <2>2, ReplyStep
  <2>5. ASSUME NEW s \in Calls', NEW t \in Calls',
               call'[s].reply = call'[t].reply, call'[s].reply # 0
        PROVE  s = t
    <3>1. s \in Calls /\ t \in Calls
      BY <1>2, <2>5, ReplyStep
    <3>2. CASE call'[s].reply # call[s].reply /\ call'[t].reply # call[t].reply
      BY <1>2, <3>1, <3>2, ReplyStep
    <3>3. CASE call'[s].reply = call[s].reply /\ call'[t].reply = call[t].reply
      BY <2>3, <2>5, <3>1, <3>3
    <3>4. CASE call'[s].reply # call[s].reply /\ call'[t].reply = call[t].reply
      <4>1. call'[s].reply = nextRow
        BY <1>2, <3>1, <3>4, ReplyStep
      <4>2. call[t].reply = nextRow
        BY <2>5, <3>4, <4>1
      <4>3. call[t].reply \in Nat /\ call[t].reply < nextRow
        BY <2>2, <3>1
      <4> QED
        BY <2>1, <4>2, <4>3
    <3>5. CASE call'[s].reply = call[s].reply /\ call'[t].reply # call[t].reply
      <4>1. call'[t].reply = nextRow
        BY <1>2, <3>1, <3>5, ReplyStep
      <4>2. call[s].reply = nextRow
        BY <2>5, <3>5, <4>1
      <4>3. call[s].reply \in Nat /\ call[s].reply < nextRow
        BY <2>2, <3>1
      <4> QED
        BY <2>1, <4>2, <4>3
    <3> QED
      BY <3>2, <3>3, <3>4, <3>5
  <2> QED
    BY <2>4, <2>5 DEF ReplyIds
<1> QED
  BY <1>1, <1>2

LEMMA ShownSound ==
  ASSUME TypeOK
  PROVE  ShownIds <=> \A c \in Convs : Sound(byId[c].messages, tempId, nextRow)
BY DEF ShownIds, Sound

\* One conversation's messages change, and are sound.
LEMMA NowSound ==
  ASSUME TypeOK, ShownIds, Next, NEW c \in Convs, NEW ms, NEW sends,
         Now(c, ms, sends), NEW low \in Int, NEW high \in Nat,
         tempId' <= low, high <= nextRow', Sound(ms, low, high)
  PROVE  ShownIds'
<1>1. /\ tempId \in Int /\ tempId' \in Int /\ tempId' <= tempId
      /\ nextRow \in Nat /\ nextRow' \in Nat /\ nextRow <= nextRow'
  BY NumbersStep
<1>2. PICK lower, higher : lower = tempId' /\ higher = nextRow'
  OBVIOUS
<1>3. ms \in Seq(Shown)
  BY DEF Now
<1>4. Sound(ms, lower, higher)
  BY <1>1, <1>2, <1>3, SoundWider
<1>5. ASSUME NEW d \in Convs
      PROVE  Sound(byId'[d].messages, lower, higher)
  <2>1. CASE d = c
    BY <1>4, <2>1 DEF Now
  <2>2. CASE d # c
    <3>1. byId'[d] = byId[d]
      BY <2>2 DEF Now
    <3>2. PICK q : q = byId[d].messages
      OBVIOUS
    <3>3. q \in Seq(Shown) /\ Sound(q, tempId, nextRow)
      BY <3>2, StateTypes, ShownSound
    <3>4. Sound(q, lower, higher)
      BY <1>1, <1>2, <3>3, SoundWider
    <3> QED
      BY <3>1, <3>2, <3>4
  <2> QED
    BY <2>1, <2>2
<1> QED
  BY <1>2, <1>5 DEF ShownIds, Sound, Distinct

LEMMA ShownIdsStep ==
  ASSUME TypeOK, Counted, IdsInv, [Next]_vars
  PROVE  ShownIds'
<1>1. CASE UNCHANGED vars
  BY <1>1 DEF IdsInv, ShownIds, Distinct, vars
<1>2. CASE Next
  <2>1. /\ tempId \in Int /\ tempId' \in Int /\ tempId' <= tempId /\ tempId <= 0
        /\ nextRow \in Nat /\ nextRow' \in Nat /\ nextRow <= nextRow' /\ nextRow >= 1
    BY <1>2, NumbersStep
  <2>2. ShownIds /\ \A c \in Convs : /\ byId[c].messages \in Seq(Shown)
                                     /\ Sound(byId[c].messages, tempId, nextRow)
    BY ShownSound, StateTypes DEF IdsInv
  <2>3. CASE byId' = byId
    <3>1. \A c \in Convs : \A m \in Range(byId[c].messages) :
            /\ m.id \in Int /\ tempId <= m.id /\ m.id < nextRow
      BY <2>2, MessageFacts DEF Sound
    <3>2. \A c \in Convs : \A m \in Range(byId[c].messages) :
            tempId' <= m.id /\ m.id < nextRow'
      BY <2>1, <3>1
    <3> QED
      BY <2>2, <2>3, <3>2 DEF ShownIds, Sound, Distinct
  <2>4. ASSUME NEW c \in Convs, Loaded(c)
        PROVE  ShownIds'
    <3>1. PICK R : R = get[c].rows
      OBVIOUS
    <3>2. R \in Seq(Row) /\ Distinct(R) /\ \A i \in DOMAIN R : R[i].id < nextRow
      BY <3>1, StateTypes DEF IdsInv, RowIds
    <3>3. Sound(AsShown(R), tempId, nextRow)
      BY <2>1, <3>2, RowsSound
    <3>4. Now(c, AsShown(R), FALSE)
      BY <2>4, <3>1, LoadedShows
    <3> QED
      BY <1>2, <2>1, <2>2, <3>3, <3>4, NowSound
  <2>5. ASSUME NEW c \in Convs, LoadFailed(c)
        PROVE  ShownIds'
    <3>1. Now(c, byId[c].messages, byId[c].sending)
      BY <2>5, LoadFailedShows
    <3> QED
      BY <1>2, <2>1, <2>2, <3>1, NowSound
  <2>6. ASSUME NEW c \in Convs, NEW state \in ConvState, Post(c, state),
               Sound(state.messages, tempId, nextRow)
        PROVE  ShownIds'
    <3>1. PICK q : q = state.messages
      OBVIOUS
    <3>2. q \in Seq(Shown)
      BY <3>1 DEF ConvState
    <3>3. Sound(q \o <<Asked, Bubble>>, tempId - 2, nextRow)
      BY <2>1, <2>6, <3>1, <3>2, PostFacts
    <3>4. Now(c, q \o <<Asked, Bubble>>, TRUE)
      BY <2>6, <3>1, PostShows
    <3>5. tempId' = tempId - 2
      BY <2>6 DEF Post
    <3>6. PICK ms : ms = q \o <<Asked, Bubble>>
      OBVIOUS
    <3>7. Sound(ms, tempId - 2, nextRow) /\ Now(c, ms, TRUE)
      BY <3>3, <3>4, <3>6
    <3>8. tempId - 2 \in Int /\ tempId' <= tempId - 2
      BY <2>1, <3>5
    <3> QED
      BY <1>2, <2>1, <2>2, <3>7, <3>8, NowSound
  <2>7. ASSUME NEW c \in Convs, Send(c)
        PROVE  ShownIds'
    <3>1. byId[c] \in ConvState /\ Post(c, byId[c])
      BY <2>7, StateTypes DEF Send
    <3> QED
      BY <2>2, <2>6, <3>1
  <2>8. ASSUME NEW c \in Convs, SendNew(c)
        PROVE  ShownIds'
    <3>1. EMPTY \in ConvState /\ Post(c, EMPTY) /\ EMPTY.messages = <<>>
      BY <2>8, EmptyType DEF SendNew
    <3>2. Sound(<<>>, tempId, nextRow)
      <4>1. <<>> \in Seq(Shown) /\ DOMAIN <<>> = {}
        OBVIOUS
      <4> QED
        BY <4>1, MessageFacts DEF Sound, Distinct
    <3> QED
      BY <2>6, <3>1, <3>2
  <2>9. ASSUME NEW c \in Convs, Stop(c)
        PROVE  ShownIds'
    <3>1. PICK q, K : /\ q = byId[c].messages
                      /\ K = {i \in DOMAIN q : ~ q[i].streaming}
      OBVIOUS
    <3>2. Sound(Kept(q, K), tempId, nextRow)
      BY <2>2, <3>1, KeptSound
    <3>3. Now(c, Kept(q, K), FALSE)
      BY <2>9, <3>1, StopShows
    <3> QED
      BY <1>2, <2>1, <2>2, <3>2, <3>3, NowSound
  <2>10. ASSUME NEW s \in Calls, Done(s)
         PROVE  ShownIds'
    <3>1. Sound(Settled(s), tempId, nextRow)
      BY <2>10, SettledSound DEF IdsInv
    <3>2. Now(call[s].conv, Settled(s), FALSE) /\ call[s].conv \in Convs
      BY <2>10, DoneShows, CallTypes
    <3> QED
      BY <1>2, <2>1, <2>2, <3>1, <3>2, NowSound
  <2>11. ASSUME NEW s \in Calls, Refused(s)
         PROVE  ShownIds'
    <3>1. PICK c, q, K : c = call[s].conv /\ q = byId[c].messages /\ K = Others(s)
      OBVIOUS
    <3>2. c \in Convs /\ K \subseteq DOMAIN q
      BY <3>1, CallTypes DEF Others
    <3>3. Sound(Kept(q, K), tempId, nextRow)
      BY <2>2, <3>1, <3>2, KeptSound
    <3>4. Now(c, Kept(q, K), FALSE)
      BY <2>11, <3>1, RefusedShows
    <3> QED
      BY <1>2, <2>1, <2>2, <3>2, <3>3, <3>4, NowSound
  <2> QED
    BY <1>2, <2>3, <2>4, <2>5, <2>7, <2>8, <2>9, <2>10, <2>11, Showing
<1> QED
  BY <1>1, <1>2

LEMMA NotBothStep ==
  ASSUME TypeOK, TypeOK', Counted, IdsInv, [Next]_vars
  PROVE  NotBoth'
<1>1. CASE UNCHANGED vars
  BY <1>1 DEF IdsInv, NotBoth, Calls, vars
<1>2. CASE Next
  <2>1. /\ tempId \in Int /\ tempId <= 0 /\ nextRow \in Nat
    BY <1>2, NumbersStep
  <2>2. \A s \in Calls : /\ call[s].conv \in Convs
                         /\ call[s].assistant \in Int /\ call[s].assistant < 0
                         /\ tempId <= call[s].assistant
                         /\ call[s].reply \in Nat /\ call[s].reply < nextRow
    BY CallTypes, CallFunction DEF IdsInv, CallIds, ReplyIds
  <2>3. \A s \in Calls : \A m, n \in Range(byId[call[s].conv].messages) :
          m.id = call[s].assistant /\ n.id > 0 => n.id # call[s].reply
    BY DEF IdsInv, NotBoth
  <2>4. \A c \in Convs : /\ byId[c].messages \in Seq(Shown)
                         /\ \A m \in Range(byId[c].messages) :
                              m.id \in Int /\ m.id # 0 /\ m.id < nextRow
    BY StateTypes, MessageFacts DEF IdsInv, ShownIds
  <2>5. /\ Calls \subseteq Calls'
        /\ \A s \in Calls : /\ call'[s].conv = call[s].conv
                            /\ call'[s].assistant = call[s].assistant
    BY <1>2, ApiForward
  <2>6. \A s \in Calls' : s \notin Calls => call'[s].reply = 0
    BY <1>2, ReplyStep
  <2>7. ASSUME NEW s \in Calls', s \notin Calls,
               NEW n \in Range(byId'[call'[s].conv].messages), n.id > 0
        PROVE  n.id # call'[s].reply
    BY <2>6, <2>7
  <2>8. CASE byId' = byId
    <3>1. ASSUME NEW s \in Calls, NEW m \in Range(byId[call[s].conv].messages),
                 NEW n \in Range(byId[call[s].conv].messages),
                 m.id = call[s].assistant, n.id > 0
          PROVE  n.id # call'[s].reply
      <4>1. call'[s].reply = call[s].reply \/ call'[s].reply = nextRow
        BY <1>2, ReplyStep
      <4>2. n.id \in Int /\ n.id < nextRow
        BY <2>2, <2>4
      <4> QED
        BY <2>1, <2>3, <3>1, <4>1, <4>2
    <3> QED
      BY <2>5, <2>7, <2>8, <3>1 DEF NotBoth
  \* A step that shows something stores no reply.
  <2>9. ASSUME byId' # byId
        PROVE  \A s \in Calls : call'[s].reply = call[s].reply
    BY <1>2, <2>9, ReplyStep
  <2>10. ASSUME byId' # byId, NEW c \in Convs, NEW ms, NEW sends, Now(c, ms, sends),
                \A s \in Calls : \A m, n \in Range(ms) :
                  call[s].conv = c /\ m.id = call[s].assistant /\ n.id > 0
                    => n.id # call[s].reply
         PROVE  NotBoth'
    <3>1. ASSUME NEW s \in Calls, NEW m \in Range(byId'[call[s].conv].messages),
                 NEW n \in Range(byId'[call[s].conv].messages),
                 m.id = call[s].assistant, n.id > 0
          PROVE  n.id # call[s].reply
      <4>1. CASE call[s].conv = c
        BY <2>10, <3>1, <4>1 DEF Now
      <4>2. CASE call[s].conv # c
        <5>1. byId'[call[s].conv] = byId[call[s].conv]
          BY <2>2, <2>10, <4>2 DEF Now
        <5> QED
          BY <2>3, <3>1, <5>1
      <4> QED
        BY <4>1, <4>2
    <3>2. \A s \in Calls : call'[s].reply = call[s].reply
      BY <2>9, <2>10
    <3> QED
      BY <2>5, <2>7, <3>1, <3>2 DEF NotBoth
  <2>11. ASSUME byId' # byId, NEW c \in Convs, Loaded(c)
         PROVE  NotBoth'
    <3>1. PICK R : R = get[c].rows
      OBVIOUS
    <3>2. R \in Seq(Row) /\ Distinct(R) /\ \A i \in DOMAIN R : R[i].id < nextRow
      BY <3>1, StateTypes DEF IdsInv, RowIds
    <3>3. PICK ms : ms = AsShown(R)
      OBVIOUS
    <3>4. \A m \in Range(ms) : m.id > 0
      BY <2>1, <3>2, <3>3, RowsSound
    <3>5. ms \in Seq(Shown)
      BY <3>2, <3>3, AsShownType, CallFunction
    <3>6. \A s \in Calls : \A m \in Range(ms) : m.id # call[s].assistant
      BY <2>2, <3>4, <3>5, MessageFacts
    <3>7. Now(c, ms, FALSE)
      BY <2>11, <3>1, <3>3, LoadedShows
    <3> QED
      BY <2>10, <2>11, <3>6, <3>7
  \* What is shown is some of what was, and new bubbles.
  <2>12. ASSUME byId' # byId, NEW c \in Convs, NEW ms, NEW sends, Now(c, ms, sends),
                \A m \in Range(ms) : \/ m \in Range(byId[c].messages)
                                     \/ m.id \in Int /\ m.id < tempId
         PROVE  NotBoth'
    <3>1. ASSUME NEW s \in Calls, NEW m \in Range(ms), NEW n \in Range(ms),
                 call[s].conv = c, m.id = call[s].assistant, n.id > 0
          PROVE  n.id # call[s].reply
      <4>1. m \in Range(byId[c].messages)
        BY <2>1, <2>2, <2>12, <3>1
      <4>2. n \in Range(byId[c].messages)
        BY <2>1, <2>12, <3>1
      <4> QED
        BY <2>3, <3>1, <4>1, <4>2
    <3> QED
      BY <2>10, <2>12, <3>1
  <2>13. ASSUME byId' # byId, NEW c \in Convs, NEW state \in ConvState, Post(c, state),
                state.messages = byId[c].messages \/ state.messages = <<>>
         PROVE  NotBoth'
    <3>1. PICK q, ms : q = state.messages /\ ms = q \o <<Asked, Bubble>>
      OBVIOUS
    <3>2. q \in Seq(Shown)
      BY <3>1 DEF ConvState
    <3>3. Now(c, ms, TRUE)
      BY <2>13, <3>1, PostShows
    <3>4. \A m : m \in Range(ms) <=> m \in Range(q) \/ m = Asked \/ m = Bubble
      BY <3>1, <3>2, PostFacts
    <3>5. Asked.id = tempId - 1 /\ Bubble.id = tempId - 2
      BY DEF Asked, Bubble
    <3>6. \A m \in Range(q) : m \in Range(byId[c].messages)
      <4>1. <<>> \in Seq(Shown) /\ DOMAIN <<>> = {}
        OBVIOUS
      <4>2. \A m : m \notin Range(<<>>)
        BY <4>1, MessageFacts
      <4> QED
        BY <2>13, <3>1, <4>2
    <3>7. ASSUME NEW m \in Range(ms)
          PROVE  m \in Range(byId[c].messages) \/ (m.id \in Int /\ m.id < tempId)
      <4>1. tempId - 1 < tempId /\ tempId - 2 < tempId
        BY <2>1
      <4>2. m \in Range(q) \/ m = Asked \/ m = Bubble
        BY <3>4
      <4> QED
        BY <2>1, <3>5, <3>6, <4>1, <4>2
    <3> QED
      BY <2>12, <2>13, <3>3, <3>7
  <2>14. ASSUME byId' # byId, NEW c \in Convs, LoadFailed(c) \/ Send(c) \/ SendNew(c)
         PROVE  NotBoth'
    <3>1. CASE LoadFailed(c)
      BY <2>12, <2>14, <3>1, LoadFailedShows
    <3>2. CASE Send(c)
      BY <2>13, <2>14, <3>2, StateTypes DEF Send
    <3>3. CASE SendNew(c)
      BY <2>13, <2>14, <3>3, EmptyType DEF SendNew
    <3> QED
      BY <2>14, <3>1, <3>2, <3>3
  <2>15. ASSUME byId' # byId, NEW c \in Convs, Stop(c)
         PROVE  NotBoth'
    <3>1. PICK q, K : /\ q = byId[c].messages
                      /\ K = {i \in DOMAIN q : ~ q[i].streaming}
      OBVIOUS
    <3>2. \A m \in Range(Kept(q, K)) : m \in Range(q)
      BY <2>4, <3>1, KeptRange, MessageFacts
    <3>3. Now(c, Kept(q, K), FALSE)
      BY <2>15, <3>1, StopShows
    <3> QED
      BY <2>12, <2>15, <3>1, <3>2, <3>3
  <2>16. ASSUME byId' # byId, NEW s \in Calls, Refused(s)
         PROVE  NotBoth'
    <3>1. PICK c, q, K : c = call[s].conv /\ q = byId[c].messages /\ K = Others(s)
      OBVIOUS
    <3>2. c \in Convs /\ K \subseteq DOMAIN q
      BY <2>2, <3>1 DEF Others
    <3>3. \A m \in Range(Kept(q, K)) : m \in Range(q)
      BY <2>4, <3>1, <3>2, KeptRange, MessageFacts
    <3>4. Now(c, Kept(q, K), FALSE)
      BY <2>16, <3>1, RefusedShows
    <3> QED
      BY <2>12, <2>16, <3>1, <3>2, <3>3, <3>4
  <2>17. ASSUME byId' # byId, NEW s \in Calls, Done(s)
         PROVE  NotBoth'
    <3>1. PICK c, q, p : c = call[s].conv /\ q = byId[c].messages /\ p = Settled(s)
      OBVIOUS
    <3>2. /\ c \in Convs /\ q = byId[call[s].conv].messages
          /\ Now(c, p, FALSE) /\ p \in Seq(Shown)
      BY <2>2, <2>17, <3>1, DoneShows DEF Now
    <3>3. /\ DOMAIN p = DOMAIN q
          /\ \A i \in DOMAIN q :
               /\ q[i].id # call[s].assistant => p[i] = q[i]
               /\ q[i].id = call[s].assistant => p[i].id = call[s].reply
      BY <3>1, <3>2, SettledFacts
    <3>4. call[s].reply > 0
      BY <2>17 DEF Done, IdsInv, ReplyIds
    <3>5. ASSUME NEW t \in Calls, NEW m \in Range(p), NEW n \in Range(p),
                 call[t].conv = c, m.id = call[t].assistant, n.id > 0
          PROVE  n.id # call[t].reply
      <4>1. PICK i, j : i \in DOMAIN q /\ j \in DOMAIN q /\ m = p[i] /\ n = p[j]
        BY <3>2, <3>3, MessageFacts
      <4>2. q[i].id # call[s].assistant
        BY <2>2, <3>3, <3>4, <3>5, <4>1
      <4>3. m = q[i] /\ m \in Range(q)
        BY <2>4, <3>1, <3>2, <3>3, <4>1, <4>2, MessageFacts
      <4>4. CASE q[j].id # call[s].assistant
        <5>1. n = q[j] /\ n \in Range(q)
          BY <2>4, <3>1, <3>2, <3>3, <4>1, <4>4, MessageFacts
        <5> QED
          BY <2>3, <3>1, <3>5, <4>3, <5>1
      <4>5. CASE q[j].id = call[s].assistant
        <5>1. n.id = call[s].reply
          BY <3>3, <4>1, <4>5
        <5>2. t # s
          BY <3>5, <4>2, <4>3
        <5>3. call[s].reply # call[t].reply
          BY <2>2, <3>4, <5>2 DEF IdsInv, ReplyIds
        <5> QED
          BY <5>1, <5>3
      <4> QED
        BY <4>4, <4>5
    <3> QED
      BY <2>10, <2>17, <3>2, <3>5, ZenonT(40)
  <2> QED
    BY <1>2, <2>8, <2>11, <2>14, <2>15, <2>16, <2>17, Showing
<1> QED
  BY <1>1, <1>2

LEMMA IdsInvariant == Spec => [](TypeOK /\ Counted /\ IdsInv)
<1>1. Init => TypeOK /\ Counted /\ IdsInv
  <2>1. ASSUME Init
        PROVE  TypeOK /\ Counted /\ IdsInv
    <3>1. TypeOK /\ Counted
      BY <2>1, InitTyped
    <3>2. RowIds
      BY <2>1, <3>1, RowIdsInit
    <3>3. Calls = {}
      BY <2>1 DEF Init, Calls
    <3>4. \A c \in Convs : byId[c].messages = <<>>
      BY <2>1 DEF Init, LOADING
    <3>5. <<>> \in Seq(Shown) /\ DOMAIN <<>> = {}
      OBVIOUS
    <3>6. \A m : m \notin Range(<<>>)
      BY <3>5, MessageFacts
    <3>7. ShownIds
      BY <3>4, <3>5, <3>6 DEF ShownIds, Distinct
    <3> QED
      BY <3>1, <3>2, <3>3, <3>7 DEF IdsInv, CallIds, ReplyIds, NotBoth
  <2> QED
    BY <2>1
<1>2. TypeOK /\ Counted /\ IdsInv /\ [Next]_vars => (TypeOK /\ Counted /\ IdsInv)'
  <2>1. ASSUME TypeOK, Counted, IdsInv, [Next]_vars
        PROVE  TypeOK' /\ Counted' /\ IdsInv'
    <3>1. TypeOK' /\ Counted'
      BY <2>1, StepTyped, StepCounted
    <3> QED
      BY <2>1, <3>1, RowIdsStep, CallIdsStep, ReplyIdsStep, ShownIdsStep, NotBothStep
         DEF IdsInv
  <2> QED
    BY <2>1
<1> QED
  BY <1>1, <1>2, PTL DEF Spec

-----------------------------------------------------------------------------
(* Streams and what is shown of them. *)

StreamInv == Opened /\ Controls /\ Unanswered /\ Streams

LEMMA ListedStays ==
  ASSUME TypeOK, Counted, Next, NEW c \in Convs, Listed(c)
  PROVE  Listed(c)'
<1>1. CASE \E s \in Calls : call[s].conv = c
  <2>1. PICK s \in Calls : call[s].conv = c
    BY <1>1
  <2>2. s \in Calls' /\ call'[s].conv = c
    BY <2>1, ApiForward
  <2> QED
    BY <2>2 DEF Listed
<1>2. CASE rows[c] # <<>>
  <2>1. CASE rows' = rows
    BY <1>2, <2>1 DEF Listed
  <2>2. ASSUME NEW s \in Calls, NEW role \in Roles, Store(s, role)
        PROVE  Listed(c)'
    <3>1. PICK r : r = [id |-> nextRow, role |-> role]
      OBVIOUS
    <3>2. rows'[c] = rows[c] \/ rows'[c] = Append(rows[c], r)
      BY <2>2, <3>1 DEF Store, TypeOK
    <3>3. rows[c] \in Seq(Row)
      BY StateTypes
    <3>4. Len(Append(rows[c], r)) # 0
      BY <3>3, LenProperties
    <3>5. Append(rows[c], r) # <<>>
      BY <3>4
    <3> QED
      BY <1>2, <3>2, <3>5 DEF Listed
  <2> QED
    BY <2>1, <2>2, RowsStep
<1> QED
  BY <1>1, <1>2 DEF Listed

LEMMA OpenedStep ==
  ASSUME TypeOK, TypeOK', Counted, Opened, [Next]_vars
  PROVE  Opened'
<1>1. CASE UNCHANGED vars
  BY <1>1 DEF Opened, Listed, Calls, vars
<1>2. CASE Next
  <2>1. SUFFICES ASSUME NEW c \in Convs
                 PROVE  /\ ~ Listed(c)' => c \notin loaded'
                        /\ get'[c] # NoGet => c \in loaded'
    BY DEF Opened
  <2>2. /\ ~ Listed(c)' => ~ Listed(c) /\ c \notin loaded
        /\ get[c] # NoGet => c \in loaded
    BY <1>2, ListedStays DEF Opened
  <2>3. CASE loaded' = loaded /\ get' = get
    BY <2>2, <2>3
  <2>4. ASSUME NEW d \in Convs, Visit(d)
        PROVE  /\ ~ Listed(c)' => c \notin loaded'
               /\ get'[c] # NoGet => c \in loaded'
    BY <2>2, <2>4 DEF Visit, Load, TypeOK
  <2>5. ASSUME NEW d \in Convs, ReadRows(d) \/ Loaded(d) \/ LoadFailed(d)
        PROVE  /\ ~ Listed(c)' => c \notin loaded'
               /\ get'[c] # NoGet => c \in loaded'
    <3>1. d # c => get'[c] = get[c]
      BY <2>5 DEF ReadRows, Loaded, LoadFailed, TypeOK
    <3>2. loaded' \subseteq loaded /\ (d # c => (c \in loaded' <=> c \in loaded))
      BY <2>5 DEF ReadRows, Loaded, LoadFailed
    <3>3. ASSUME d = c, get'[c] # NoGet
          PROVE  c \in loaded'
      <4>1. ~ Loaded(c) /\ ~ LoadFailed(c)
        <5>1. Loaded(c) \/ LoadFailed(c) => get'[c] = NoGet
          BY DEF Loaded, LoadFailed, TypeOK
        <5> QED
          BY <3>3, <5>1
      <4>2. get[c].at = "sent" /\ loaded' = loaded
        BY <2>5, <3>3, <4>1 DEF ReadRows
      <4>3. get[c] # NoGet
        BY <4>2 DEF NoGet
      <4> QED
        BY <2>2, <4>2, <4>3
    <3> QED
      BY <2>2, <3>1, <3>2, <3>3
  <2>6. ASSUME NEW d \in Convs, SendNew(d)
        PROVE  /\ ~ Listed(c)' => c \notin loaded'
               /\ get'[c] # NoGet => c \in loaded'
    <3>1. Listed(d)'
      <4>1. PICK n : n = Len(call) + 1
        OBVIOUS
      <4>2. n \in Calls' /\ call'[n] = [conv |-> d, assistant |-> tempId - 2,
                                 live |-> TRUE, api |-> "request", reply |-> 0]
        BY <2>6, <4>1, PostCalls DEF SendNew
      <4>3. call'[n].conv = d
        BY <4>2
      <4> QED
        BY <4>2, <4>3 DEF Listed
    <3>2. loaded' = loaded \cup {d} /\ get' = get
      BY <2>6 DEF SendNew
    <3> QED
      BY <2>2, <3>1, <3>2
  <2> QED
    BY <1>2, <2>3, <2>4, <2>5, <2>6
       DEF Next, Home, Send, Stop, Done, Refused, Broken, StoreUser, StoreReply,
           Store, Charge, GiveUp, ReadUsage, Metered, NotMetered
<1> QED
  BY <1>1, <1>2

LEMMA NoMessages ==
  ASSUME NEW q \in Seq(Shown)
  PROVE  q = <<>> <=> \A m : m \notin Range(q)
<1>1. Len(q) \in Nat /\ DOMAIN q = 1 .. Len(q)
  BY MessageFacts
<1>2. ASSUME q = <<>>
      PROVE  \A m : m \notin Range(q)
  <2>1. DOMAIN q = {}
    BY <1>2
  <2> QED
    BY <2>1, MessageFacts
<1>3. ASSUME \A m : m \notin Range(q)
      PROVE  q = <<>>
  <2>1. \A i \in DOMAIN q : q[i] \in Range(q)
    BY MessageFacts
  <2>2. DOMAIN q = {}
    BY <1>3, <2>1
  <2>3. Len(q) = 0
    BY <1>1, <2>2
  <2> QED
    BY <2>3, EmptySeq
<1> QED
  BY <1>2, <1>3

LEMMA HastyGrows ==
  ASSUME Next
  PROVE  hasty \subseteq hasty' /\ broken \subseteq broken'
BY DEF Next, Home, Visit, ReadRows, Loaded, LoadFailed, Send, SendNew, Stop, Done,
       Refused, Broken, StoreUser, StoreReply, Store, Charge, GiveUp, ReadUsage,
       Metered, NotMetered, history

\* A message is shown before its load has answered only to the hasty.
LEMMA UnansweredStep ==
  ASSUME TypeOK, TypeOK', Counted, Opened, Streams, Unanswered, [Next]_vars
  PROVE  Unanswered'
<1>1. CASE UNCHANGED vars
  BY <1>1 DEF Unanswered, Answered, vars
<1>2. CASE Next
  <2>1. SUFFICES ASSUME NEW c \in Convs, c \notin hasty', ~ Answered(c)'
                 PROVE  byId'[c].messages = <<>>
    BY DEF Unanswered
  <2>2. c \notin hasty
    BY <1>2, <2>1, HastyGrows
  <2>3. ~ Answered(c) => byId[c].messages = <<>>
    BY <2>2 DEF Unanswered
  \* Nothing is shown yet, so no stream of c is being read.
  <2>4. ASSUME byId[c].messages = <<>>, NEW s \in Calls, call[s].conv = c
        PROVE  ~ call[s].live
    <3>1. \A m : m \notin Range(byId[c].messages)
      BY <2>4, StateTypes, NoMessages
    <3> QED
      BY <2>2, <2>4, <3>1 DEF Streams, StreamOK, Live
  <2>5. ASSUME UNCHANGED <<byId, get, loaded>>
        PROVE  byId'[c].messages = <<>>
    BY <2>1, <2>3, <2>5 DEF Answered
  <2>6. ASSUME NEW d \in Convs, Visit(d)
        PROVE  byId'[c].messages = <<>>
    <3>1. byId' = byId
      BY <2>6 DEF Visit
    <3>2. CASE Answered(c)
      <4>1. get'[c] = get[c] /\ c \in loaded'
        BY <2>6, <3>2 DEF Visit, Load, TypeOK, Answered
      <4> QED
        BY <2>1, <3>2, <4>1 DEF Answered
    <3> QED
      BY <2>3, <3>1, <3>2
  <2>7. ASSUME NEW d \in Convs, ReadRows(d)
        PROVE  byId'[c].messages = <<>>
    <3>1. byId' = byId /\ loaded' = loaded
      BY <2>7 DEF ReadRows
    <3>2. CASE Answered(c)
      <4>1. d # c
        BY <2>7, <3>2 DEF ReadRows, Answered, NoGet
      <4>2. get'[c] = get[c]
        BY <2>7, <4>1 DEF ReadRows, TypeOK
      <4> QED
        BY <2>1, <3>1, <3>2, <4>2 DEF Answered
    <3> QED
      BY <2>3, <3>1, <3>2
  <2>8. ASSUME NEW d \in Convs, NEW ms, NEW sends, Now(d, ms, sends), d # c,
               get'[c] = get[c], c \in loaded' <=> c \in loaded
        PROVE  byId'[c].messages = <<>>
    <3>1. byId'[c] = byId[c]
      BY <2>8 DEF Now
    <3>2. Answered(c)' <=> Answered(c)
      BY <2>8 DEF Answered
    <3> QED
      BY <2>1, <2>3, <3>1, <3>2
  <2>9. ASSUME NEW d \in Convs, Loaded(d)
        PROVE  byId'[c].messages = <<>>
    <3>1. CASE d # c
      BY <2>8, <2>9, <3>1, LoadedShows DEF Loaded
    <3>2. CASE d = c
      <4>1. get'[c] = NoGet /\ loaded' = loaded
        BY <2>9, <3>2, LoadedShows DEF Loaded
      <4>2. c \in loaded
        BY <2>9, <3>2 DEF Loaded, Opened, NoGet
      <4> QED
        BY <2>1, <4>1, <4>2 DEF Answered
    <3> QED
      BY <3>1, <3>2
  <2>10. ASSUME NEW d \in Convs, LoadFailed(d)
         PROVE  byId'[c].messages = <<>>
    <3>1. CASE d # c
      BY <2>8, <2>10, <3>1, LoadFailedShows DEF LoadFailed
    <3>2. CASE d = c
      <4>1. ~ Answered(c)
        BY <2>10, <3>2 DEF LoadFailed, Answered, NoGet
      <4> QED
        BY <2>3, <2>10, <3>2, <4>1, LoadFailedShows DEF Now
    <3> QED
      BY <3>1, <3>2
  <2>11. ASSUME NEW d \in Convs, Send(d)
         PROVE  byId'[c].messages = <<>>
    <3>1. CASE d # c
      <4>1. byId[d] \in ConvState /\ Post(d, byId[d])
        BY <2>11, StateTypes DEF Send
      <4> QED
        BY <2>8, <2>11, <3>1, <4>1, PostShows DEF Send
    <3>2. CASE d = c
      <4>1. Answered(c)
        BY <2>1, <2>11, <3>2 DEF Send
      <4> QED
        BY <2>1, <2>11, <4>1 DEF Send, Answered
    <3> QED
      BY <3>1, <3>2
  <2>12. ASSUME NEW d \in Convs, SendNew(d)
         PROVE  byId'[c].messages = <<>>
    <3>1. CASE d # c
      <4>1. EMPTY \in ConvState /\ Post(d, EMPTY)
        BY <2>12, EmptyType DEF SendNew
      <4> QED
        BY <2>8, <2>12, <3>1, <4>1, PostShows DEF SendNew
    <3>2. CASE d = c
      <4>1. get[c] = NoGet
        BY <2>12, <3>2 DEF SendNew, Opened
      <4> QED
        BY <2>1, <2>12, <3>2, <4>1 DEF SendNew, Answered
    <3> QED
      BY <3>1, <3>2
  <2>13. ASSUME NEW d \in Convs, Stop(d)
         PROVE  byId'[c].messages = <<>>
    <3>1. PICK q, K : /\ q = byId[d].messages
                      /\ K = {i \in DOMAIN q : ~ q[i].streaming}
      OBVIOUS
    <3>2. Now(d, Kept(q, K), FALSE) /\ q \in Seq(Shown)
      BY <2>13, <3>1, StopShows, StateTypes
    <3>3. CASE d # c
      BY <2>8, <2>13, <3>2, <3>3 DEF Stop
    <3>4. CASE d = c
      <4>1. q = <<>>
        BY <2>1, <2>3, <2>13, <3>1, <3>4 DEF Stop, Answered
      <4>2. \A m : m \notin Range(q)
        BY <3>2, <4>1, NoMessages
      <4>3. \A m : m \notin Range(Kept(q, K))
        <5>1. K \subseteq DOMAIN q
          BY <3>1
        <5>2. \A k \in K : q[k] \in Range(q)
          BY <3>2, <5>1, MessageFacts
        <5> QED
          BY <3>2, <4>2, <5>1, <5>2, KeptRange
      <4>4. Kept(q, K) \in Seq(Shown)
        BY <3>2 DEF Now
      <4>5. Kept(q, K) = <<>>
        BY <4>3, <4>4, NoMessages
      <4> QED
        BY <3>2, <3>4, <4>5 DEF Now
    <3> QED
      BY <3>3, <3>4
  <2>14. ASSUME NEW s \in Calls, Done(s) \/ Refused(s)
         PROVE  byId'[c].messages = <<>>
    <3>1. Answered(c)' <=> Answered(c)
      BY <2>14 DEF Done, Refused, Answered
    <3>2. byId[c].messages = <<>>
      BY <2>1, <2>3, <3>1
    <3>3. call[s].live
      BY <2>14 DEF Done, Refused
    <3>4. call[s].conv # c
      BY <2>4, <3>2, <3>3
    <3>5. byId'[c] = byId[c]
      BY <2>14, <3>4, DoneShows, RefusedShows DEF Now
    <3> QED
      BY <3>2, <3>5
  <2> QED
    BY <1>2, <2>5, <2>6, <2>7, <2>9, <2>10, <2>11, <2>12, <2>13, <2>14
       DEF Next, Home, Broken, StoreUser, StoreReply, Store, Charge, GiveUp,
           ReadUsage, Metered, NotMetered
<1> QED
  BY <1>1, <1>2

LEMMA ControlsStep ==
  ASSUME TypeOK, Counted, Controls, [Next]_vars
  PROVE  Controls'
<1>1. CASE UNCHANGED vars
  BY <1>1 DEF Controls, Calls, vars
<1>2. CASE Next
  <2>1. /\ Calls \subseteq Calls'
        /\ \A s \in Calls : call'[s].conv = call[s].conv
    BY <1>2, ApiForward
  <2>2. ASSUME NEW c \in Convs, controllers'[c] = controllers[c] \/ controllers'[c] = 0,
               controllers'[c] # 0
        PROVE  controllers'[c] \in Calls' /\ call'[controllers'[c]].conv = c
    <3>1. PICK k : k = controllers[c]
      OBVIOUS
    <3>2. k \in Calls /\ call[k].conv = c /\ controllers'[c] = k
      BY <2>2, <3>1 DEF Controls
    <3>3. k \in Calls' /\ call'[k].conv = c
      BY <2>1, <3>2
    <3> QED
      BY <3>2, <3>3
  <2>3. ASSUME \A c \in Convs : controllers'[c] = controllers[c] \/ controllers'[c] = 0
        PROVE  Controls'
    BY <2>2, <2>3 DEF Controls
  <2>4. ASSUME NEW d \in Convs, NEW state, Post(d, state)
        PROVE  Controls'
    <3>1. PICK n : n = Len(call) + 1
      OBVIOUS
    <3>2. /\ n \in Calls' /\ controllers'[d] = n
          /\ call'[n] = [conv |-> d, assistant |-> tempId - 2,
                         live |-> TRUE, api |-> "request", reply |-> 0]
          /\ \A c \in Convs : c # d => controllers'[c] = controllers[c]
      BY <2>4, <3>1, PostCalls
    <3>3. call'[n].conv = d
      BY <3>2
    <3> QED
      BY <2>2, <3>2, <3>3 DEF Controls
  <2>5. ASSUME NEW c \in Convs, Stop(c)
        PROVE  Controls'
    BY <2>3, <2>5, StopCalls
  <2>6. ASSUME NEW s \in Calls, Done(s) \/ Refused(s)
        PROVE  Controls'
    BY <2>3, <2>6, DoneShows, RefusedShows
  <2>7. controllers' = controllers => Controls'
    BY <2>3
  <2> QED
    BY <1>2, <2>4, <2>5, <2>6, <2>7
       DEF Next, Home, Visit, ReadRows, Loaded, LoadFailed, Send, SendNew, Broken,
           StoreUser, StoreReply, Store, Charge, GiveUp, ReadUsage, Metered, NotMetered
<1> QED
  BY <1>1, <1>2

\* A step that leaves c, its streams and its Stop as they are.
LEMMA StreamSame ==
  ASSUME NEW c \in Convs, StreamOK(c), broken \subseteq broken',
         byId'[c].messages = byId[c].messages, byId'[c].sending = byId[c].sending,
         controllers'[c] = controllers[c], Live(c)' = Live(c),
         \A s \in Live(c) : call'[s].assistant = call[s].assistant
  PROVE  StreamOK(c)'
BY DEF StreamOK

\* The streams of c that are read are those that were.
LEMMA LiveSame ==
  ASSUME NEW c \in Convs, Calls \subseteq Calls',
         \A s \in Calls : call'[s].conv = call[s].conv,
         \A s \in Calls' : s \notin Calls => call'[s].conv # c,
         \A s \in Calls : call[s].conv = c => (call'[s].live <=> call[s].live)
  PROVE  Live(c)' = Live(c)
<1>1. ASSUME NEW s, s \in Live(c)
      PROVE  s \in Live(c)'
  BY <1>1 DEF Live
<1>2. ASSUME NEW s, s \in Live(c)'
      PROVE  s \in Live(c)
  <2>1. s \in Calls' /\ call'[s].live /\ call'[s].conv = c
    BY <1>2 DEF Live
  <2>2. s \in Calls /\ call[s].conv = c
    BY <2>1
  <2> QED
    BY <2>1, <2>2 DEF Live
<1> QED
  BY <1>1, <1>2

\* A send to a conversation that has no stream.
LEMMA PostStream ==
  ASSUME TypeOK, NEW c \in Convs, NEW state \in ConvState, Post(c, state),
         Live(c) = {},
         c \notin broken' => \A m \in Range(state.messages) : ~ m.streaming
  PROVE  StreamOK(c)'
<1>1. PICK n : n = Len(call) + 1
  OBVIOUS
<1>2. /\ Calls' = Calls \cup {n} /\ n \notin Calls
      /\ \A s \in Calls : call'[s] = call[s]
      /\ call'[n] = [conv |-> c, assistant |-> tempId - 2,
                     live |-> TRUE, api |-> "request", reply |-> 0]
      /\ controllers'[c] = n
  BY <1>1, PostCalls
<1>3. call'[n].conv = c /\ call'[n].live /\ call'[n].assistant = tempId - 2
  BY <1>2
<1>4. Live(c)' = {n}
  <2>1. ASSUME NEW s, s \in Live(c)'
        PROVE  s = n
    <3>1. s \in Calls' /\ call'[s].live /\ call'[s].conv = c
      BY <2>1 DEF Live
    <3> QED
      BY <1>2, <3>1 DEF Live
  <2>2. n \in Live(c)'
    BY <1>2, <1>3 DEF Live
  <2> QED
    BY <2>1, <2>2
<1>5. PICK q, ms : q = state.messages /\ ms = q \o <<Asked, Bubble>>
  OBVIOUS
<1>6. q \in Seq(Shown)
  BY <1>5 DEF ConvState
<1>7. byId'[c].messages = ms /\ byId'[c].sending = TRUE
  BY <1>5, PostShows DEF Now
<1>8. \A m : m \in Range(ms) <=> m \in Range(q) \/ m = Asked \/ m = Bubble
  BY <1>5, <1>6, PostFacts
<1>9. ~ Asked.streaming /\ Bubble.streaming /\ Bubble.id = tempId - 2
  BY DEF Asked, Bubble
<1>10. Bubble \in Range(ms)
  BY <1>8
<1> QED
  BY <1>2, <1>3, <1>4, <1>5, <1>7, <1>8, <1>9, <1>10 DEF StreamOK

\* A step after which no stream of c is read, and nothing is shown of one.
LEMMA NoStream ==
  ASSUME NEW c \in Convs, Live(c)' = {}, byId'[c].sending = FALSE,
         c \notin broken' => \A m \in Range(byId'[c].messages) : ~ m.streaming
  PROVE  StreamOK(c)'
BY DEF StreamOK

\* Each step leaves a conversation without a stream to show, or with its own.
LEMMA StreamsStep ==
  ASSUME TypeOK, TypeOK', Counted, IdsInv, StreamInv, [Next]_vars
  PROVE  Streams'
<1>1. CASE UNCHANGED vars
  BY <1>1 DEF StreamInv, Streams, StreamOK, Live, Calls, vars
<1>2. CASE Next
  <2>1. SUFFICES ASSUME NEW c \in Convs, c \notin hasty'
                 PROVE  StreamOK(c)'
    BY DEF Streams
  <2>2. broken \subseteq broken' /\ c \notin hasty /\ StreamOK(c)
    BY <1>2, <2>1, HastyGrows DEF StreamInv, Streams
  <2>3. /\ Calls \subseteq Calls'
        /\ \A s \in Calls : /\ call'[s].conv = call[s].conv
                            /\ call'[s].assistant = call[s].assistant
                            /\ call'[s].live => call[s].live
        /\ \A s \in Calls : call[s].conv \in Convs
    BY <1>2, ApiForward, CallTypes
  <2>4. byId[c].messages \in Seq(Shown)
    BY StateTypes
  <2>5. \A s \in Live(c) : s \in Calls /\ call[s].conv = c
    BY DEF Live
  <2>6. \A s, t \in Live(c) : s = t
    BY <2>2 DEF StreamOK
  \* A step that leaves c and its calls alone.
  <2>7. ASSUME byId'[c].messages = byId[c].messages,
               byId'[c].sending = byId[c].sending,
               controllers'[c] = controllers[c],
               \A s \in Calls' : s \notin Calls => call'[s].conv # c,
               \A s \in Calls : call[s].conv = c => (call'[s].live <=> call[s].live)
        PROVE  StreamOK(c)'
    <3>1. Live(c)' = Live(c)
      BY <2>3, <2>7, LiveSame
    <3>2. \A s \in Live(c) : call'[s].assistant = call[s].assistant
      BY <2>3, <2>5
    <3> QED
      BY <2>2, <2>7, <3>1, <3>2, StreamSame
  <2>8. ASSUME UNCHANGED <<byId, controllers>>, Calls' = Calls,
               \A s \in Calls : call[s].conv = c => (call'[s].live <=> call[s].live)
        PROVE  StreamOK(c)'
    BY <2>7, <2>8
  <2>9. ASSUME UNCHANGED <<byId, controllers, call>>
        PROVE  StreamOK(c)'
    <3>1. Calls' = Calls
      BY <2>9 DEF Calls
    <3> QED
      BY <2>8, <2>9, <3>1
  \* The last stream of c ends.
  <2>10. ASSUME NEW s \in Calls, call[s].conv = c, call[s].live, Calls' = Calls,
                ~ call'[s].live
         PROVE  Live(c)' = {}
    <3>1. ASSUME NEW t, t \in Live(c)'
          PROVE  FALSE
      <4>1. t \in Calls /\ call'[t].live /\ call'[t].conv = c
        BY <2>10, <3>1 DEF Live
      <4>2. t \in Live(c) /\ s \in Live(c)
        BY <2>3, <2>10, <4>1 DEF Live
      <4> QED
        BY <2>6, <2>10, <4>1, <4>2
    <3> QED
      BY <3>1
  <2>11. ASSUME NEW d \in Convs, Loaded(d) \/ LoadFailed(d)
         PROVE  StreamOK(c)'
    <3>1. call' = call /\ controllers' = controllers /\ Calls' = Calls
      BY <2>11 DEF Loaded, LoadFailed, Calls
    <3>2. CASE d # c
      <4>1. byId'[c] = byId[c]
        BY <2>11, <3>2, LoadedShows, LoadFailedShows DEF Now
      <4> QED
        BY <2>7, <3>1, <4>1
    <3>3. CASE LoadFailed(c)
      <4>1. byId'[c].messages = byId[c].messages /\ byId'[c].sending = byId[c].sending
        BY <3>3, LoadFailedShows DEF Now
      <4> QED
        BY <2>7, <3>1, <4>1
    <3>4. CASE Loaded(c)
      <4>1. ~ Answered(c)
        BY <3>4 DEF Loaded, Answered, NoGet
      <4>2. byId[c].messages = <<>>
        BY <2>2, <4>1 DEF StreamInv, Unanswered
      <4>3. \A m : m \notin Range(byId[c].messages)
        BY <2>4, <4>2, NoMessages
      <4>4. Live(c) = {}
        BY <2>2, <4>3 DEF StreamOK
      <4>5. Live(c)' = Live(c)
        BY <3>1 DEF Live
      <4>6. PICK R, ms : R = get[c].rows /\ ms = AsShown(R)
        OBVIOUS
      <4>7. Now(c, ms, FALSE)
        BY <3>4, <4>6, LoadedShows
      <4>8. R \in Seq(Row) /\ Distinct(R) /\ \A i \in DOMAIN R : R[i].id < nextRow
        BY <4>6, StateTypes DEF IdsInv, RowIds
      <4>9. \A m \in Range(ms) : ~ m.streaming
        BY <1>2, <4>6, <4>8, NumbersStep, RowsSound
      <4> QED
        BY <4>4, <4>5, <4>7, <4>9, NoStream DEF Now
    <3> QED
      BY <2>11, <3>2, <3>3, <3>4
  <2>12. ASSUME NEW d \in Convs, NEW state \in ConvState, Post(d, state), d # c
         PROVE  StreamOK(c)'
    <3>1. PICK n : n = Len(call) + 1
      OBVIOUS
    <3>2. /\ Calls' = Calls \cup {n}
          /\ \A s \in Calls : call'[s] = call[s]
          /\ call'[n] = [conv |-> d, assistant |-> tempId - 2,
                         live |-> TRUE, api |-> "request", reply |-> 0]
          /\ controllers'[c] = controllers[c]
      BY <2>12, <3>1, PostCalls
    <3>3. call'[n].conv = d
      BY <3>2
    <3>4. byId'[c] = byId[c]
      BY <2>12, PostShows DEF Now
    <3> QED
      BY <2>7, <2>12, <3>2, <3>3, <3>4
  <2>13. ASSUME NEW d \in Convs, Send(d)
         PROVE  StreamOK(c)'
    <3>1. byId[d] \in ConvState /\ Post(d, byId[d]) /\ ~ byId[d].sending
      BY <2>13, StateTypes DEF Send, ComposerOpen
    <3>2. CASE d # c
      BY <2>12, <3>1, <3>2
    <3>3. CASE d = c
      <4>1. Live(c) = {}
        BY <2>2, <3>1, <3>3 DEF StreamOK
      <4>2. c \notin broken => \A m \in Range(byId[c].messages) : ~ m.streaming
        BY <2>2, <4>1 DEF StreamOK
      <4> QED
        BY <2>2, <3>1, <3>3, <4>1, <4>2, PostStream
    <3> QED
      BY <3>2, <3>3
  <2>14. ASSUME NEW d \in Convs, SendNew(d)
         PROVE  StreamOK(c)'
    <3>1. /\ EMPTY \in ConvState /\ Post(d, EMPTY) /\ EMPTY.messages = <<>>
          /\ ~ Listed(d)
      BY <2>14, EmptyType DEF SendNew
    <3>2. CASE d # c
      BY <2>12, <3>1, <3>2
    <3>3. CASE d = c
      <4>1. Live(c) = {}
        BY <3>1, <3>3 DEF Listed, Live
      <4>2. EMPTY.messages \in Seq(Shown)
        BY <3>1 DEF ConvState
      <4>3. \A m : m \notin Range(EMPTY.messages)
        BY <3>1, <4>2, NoMessages
      <4> QED
        BY <3>1, <3>3, <4>1, <4>3, PostStream
    <3> QED
      BY <3>2, <3>3
  <2>15. ASSUME NEW d \in Convs, Stop(d)
         PROVE  StreamOK(c)'
    <3>1. PICK q, K : /\ q = byId[d].messages
                      /\ K = {i \in DOMAIN q : ~ q[i].streaming}
      OBVIOUS
    <3>2. Now(d, Kept(q, K), FALSE) /\ q \in Seq(Shown) /\ K \subseteq DOMAIN q
      BY <2>15, <3>1, StopShows, StateTypes
    <3>3. /\ Calls' = Calls
          /\ \A s \in Calls : s # controllers[d] => call'[s] = call[s]
          /\ \A s \in Calls : s = controllers[d] => ~ call'[s].live
          /\ \A e \in Convs : e # d => controllers'[e] = controllers[e]
      BY <2>15, StopCalls
    <3>4. CASE d # c
      <4>1. byId'[c] = byId[c]
        BY <3>2, <3>4 DEF Now
      <4>2. 0 \notin Calls
        BY CallFunction
      <4>3. \A s \in Calls : call[s].conv = c => s # controllers[d]
        BY <3>4, <4>2 DEF StreamInv, Controls
      <4> QED
        BY <2>7, <3>3, <3>4, <4>1, <4>3
    <3>5. CASE d = c
      <4>1. Live(c)' = {}
        <5>1. ASSUME NEW t, t \in Live(c)'
              PROVE  FALSE
          <6>1. t \in Calls /\ call'[t].live /\ call'[t].conv = c
            BY <3>3, <5>1 DEF Live
          <6>2. t \in Live(c)
            BY <2>3, <6>1 DEF Live
          <6>3. controllers[c] = t
            BY <2>2, <6>2 DEF StreamOK
          <6> QED
            BY <3>3, <3>5, <6>1, <6>3
        <5> QED
          BY <5>1
      <4>2. \A k \in K : ~ q[k].streaming
        BY <3>1
      <4>3. \A m \in Range(Kept(q, K)) : ~ m.streaming
        BY <3>2, <4>2, KeptRange
      <4> QED
        BY <3>2, <3>5, <4>1, <4>3, NoStream DEF Now
    <3> QED
      BY <3>4, <3>5
  <2>16. ASSUME NEW s \in Calls, Steps(s)
         PROVE  /\ Calls' = Calls
                /\ \A t \in Calls : t # s => call'[t] = call[t]
                /\ Done(s) \/ Refused(s) \/ Broken(s) => ~ call'[s].live
                /\ StoreUser(s) \/ StoreReply(s) \/ Charge(s) \/ GiveUp(s) =>
                     call'[s].live = call[s].live
    <3>1. nextRow <= MaxRow \/ ~ StoreReply(s)
      BY Room DEF StoreReply
    <3> QED
      BY <2>16, <3>1, CallStep
  <2>17. ASSUME NEW s \in Calls, Done(s) \/ Refused(s), call[s].conv # c
         PROVE  StreamOK(c)'
    <3>1. Calls' = Calls /\ \A t \in Calls : t # s => call'[t] = call[t]
      BY <2>16, <2>17 DEF Steps
    <3>2. byId'[c] = byId[c] /\ controllers'[c] = controllers[c]
      BY <2>17, DoneShows, RefusedShows DEF Now
    <3> QED
      BY <2>7, <2>17, <3>1, <3>2
  <2>18. ASSUME NEW s \in Calls, Done(s), call[s].conv = c
         PROVE  StreamOK(c)'
    <3>1. Calls' = Calls /\ ~ call'[s].live /\ call[s].live
      BY <2>16, <2>18 DEF Steps, Done
    <3>2. Live(c)' = {}
      BY <2>10, <2>18, <3>1
    <3>3. PICK q, p : q = byId[c].messages /\ p = Settled(s)
      OBVIOUS
    <3>4. /\ Now(c, p, FALSE) /\ p \in Seq(Shown) /\ q = byId[call[s].conv].messages
      BY <2>18, <3>3, DoneShows DEF Now
    <3>5. /\ DOMAIN p = DOMAIN q
          /\ \A i \in DOMAIN q :
               /\ q[i].id # call[s].assistant => p[i] = q[i]
               /\ q[i].id = call[s].assistant => p[i].streaming = FALSE
      BY <3>3, <3>4, SettledFacts
    <3>6. ASSUME NEW m \in Range(p), c \notin broken
          PROVE  ~ m.streaming
      <4>1. PICK i \in DOMAIN q : m = p[i]
        BY <3>4, <3>5, MessageFacts
      <4>2. CASE q[i].id = call[s].assistant
        BY <3>5, <4>1, <4>2
      <4>3. CASE q[i].id # call[s].assistant
        <5>1. m = q[i] /\ m \in Range(q)
          BY <2>4, <3>3, <3>5, <4>1, <4>3, MessageFacts
        <5>2. s \in Live(c)
          BY <2>18, <3>1 DEF Live
        <5>3. m.streaming => m.id = call[s].assistant
          BY <2>2, <2>6, <3>3, <3>6, <5>1, <5>2 DEF StreamOK
        <5> QED
          BY <4>3, <5>1, <5>3
      <4> QED
        BY <4>2, <4>3
    <3> QED
      BY <2>2, <3>2, <3>4, <3>6, NoStream DEF Now
  <2>19. ASSUME NEW s \in Calls, Refused(s), call[s].conv = c
         PROVE  StreamOK(c)'
    <3>1. Calls' = Calls /\ ~ call'[s].live /\ call[s].live
      BY <2>16, <2>19 DEF Steps, Refused
    <3>2. Live(c)' = {}
      BY <2>10, <2>19, <3>1
    <3>3. PICK q, K : q = byId[c].messages /\ K = Others(s)
      OBVIOUS
    <3>4. Now(c, Kept(q, K), FALSE) /\ K \subseteq DOMAIN q
      BY <2>19, <3>3, RefusedShows DEF Others
    <3>5. ASSUME NEW m \in Range(Kept(q, K)), c \notin broken
          PROVE  ~ m.streaming
      <4>1. PICK k \in K : m = q[k]
        BY <2>4, <3>3, <3>4, KeptRange
      <4>2. m.id # call[s].assistant /\ m \in Range(q)
        BY <2>4, <2>19, <3>3, <3>4, <4>1, MessageFacts DEF Others
      <4>3. s \in Live(c)
        BY <2>19, <3>1 DEF Live
      <4>4. m.streaming => m.id = call[s].assistant
        BY <2>2, <2>6, <3>3, <3>5, <4>2, <4>3 DEF StreamOK
      <4> QED
        BY <4>2, <4>4
    <3> QED
      BY <2>2, <3>2, <3>4, <3>5, NoStream DEF Now
  <2>20. ASSUME NEW s \in Calls, Broken(s)
         PROVE  StreamOK(c)'
    <3>1. Calls' = Calls /\ \A t \in Calls : t # s => call'[t] = call[t]
      BY <2>16, <2>20 DEF Steps
    <3>2. UNCHANGED <<byId, controllers>> /\ broken' = broken \cup {call[s].conv}
      BY <2>20 DEF Broken
    <3>3. CASE call[s].conv # c
      BY <2>8, <3>1, <3>2, <3>3
    <3>4. CASE call[s].conv = c
      <4>1. ~ call'[s].live /\ call[s].live
        BY <2>16, <2>20 DEF Steps, Broken
      <4>2. Live(c)' = {}
        BY <2>10, <3>1, <3>4, <4>1
      <4> QED
        BY <3>2, <3>4, <4>2 DEF StreamOK
    <3> QED
      BY <3>3, <3>4
  <2>21. ASSUME NEW s \in Calls,
                StoreUser(s) \/ StoreReply(s) \/ Charge(s) \/ GiveUp(s)
         PROVE  StreamOK(c)'
    <3>1. /\ Calls' = Calls /\ \A t \in Calls : t # s => call'[t] = call[t]
          /\ call'[s].live = call[s].live
      BY <2>16, <2>21 DEF Steps
    <3>2. UNCHANGED <<byId, controllers>>
      BY <2>21 DEF StoreUser, StoreReply, Store, Charge, GiveUp
    <3> QED
      BY <2>8, <3>1, <3>2
  <2> QED
    BY <1>2, <2>9, <2>11, <2>13, <2>14, <2>15, <2>17, <2>18, <2>19, <2>20, <2>21
       DEF Next, Home, Visit, ReadRows, ReadUsage, Metered, NotMetered
<1> QED
  BY <1>1, <1>2

StoreInv == TypeOK /\ Counted /\ IdsInv /\ StreamInv

LEMMA StoreInvariant == Spec => []StoreInv
<1>1. Init => StreamInv
  <2>1. ASSUME Init
        PROVE  StreamInv
    <3>1. /\ Calls = {} /\ loaded = {}
          /\ \A c \in Convs : /\ byId[c].messages = <<>> /\ byId[c].sending = FALSE
                              /\ controllers[c] = 0 /\ get[c] = NoGet
      BY <2>1 DEF Init, Calls, LOADING
    <3>2. <<>> \in Seq(Shown)
      OBVIOUS
    <3>3. \A m : m \notin Range(<<>>)
      BY <3>2, NoMessages
    <3>4. Streams
      BY <3>1, <3>3 DEF Streams, StreamOK, Live
    <3> QED
      BY <3>1, <3>4 DEF StreamInv, Opened, Controls, Unanswered
  <2> QED
    BY <2>1
<1>2. TypeOK /\ Counted /\ IdsInv /\ TypeOK' /\ StreamInv /\ [Next]_vars => StreamInv'
  <2>1. ASSUME TypeOK, Counted, IdsInv, TypeOK', StreamInv, [Next]_vars
        PROVE  StreamInv'
    <3>1. Opened' /\ Controls' /\ Unanswered'
      BY <2>1, OpenedStep, ControlsStep, UnansweredStep DEF StreamInv
    <3>2. Streams'
      BY <2>1, StreamsStep
    <3> QED
      BY <3>1, <3>2 DEF StreamInv
  <2> QED
    BY <2>1
<1> QED
  BY <1>1, <1>2, IdsInvariant, PTL DEF Spec, StoreInv

(***************************************************************************)
(* A stream being read has its bubble in the store, whatever page is open, *)
(* and is the one that Stop would abort.                                   *)
(***************************************************************************)
THEOREM StreamsAreShown == Spec => []StreamShown
<1>1. StoreInv => StreamShown
  <2>1. ASSUME StoreInv, NEW s \in Calls, call[s].live, call[s].conv \notin hasty
        PROVE  /\ \E m \in Range(byId[call[s].conv].messages) :
                    m.id = call[s].assistant /\ m.streaming
               /\ controllers[call[s].conv] = s
    <3>1. PICK c : c = call[s].conv
      OBVIOUS
    <3>2. c \in Convs
      BY <2>1, <3>1, CallTypes DEF StoreInv
    <3>3. StreamOK(c) /\ s \in Live(c)
      BY <2>1, <3>1, <3>2 DEF StoreInv, StreamInv, Streams, Live
    <3> QED
      BY <3>1, <3>3 DEF StreamOK
  <2> QED
    BY <2>1 DEF StreamShown
<1> QED
  BY <1>1, StoreInvariant, PTL

(***************************************************************************)
(* A conversation sends exactly while a stream of it is being read, and no *)
(* bubble waits for one that has ended.                                    *)
(***************************************************************************)
THEOREM ComposerFollows == Spec => []SendingIsLive
<1>1. StoreInv => SendingIsLive
  BY DEF StoreInv, StreamInv, Streams, StreamOK, SendingIsLive
<1> QED
  BY <1>1, StoreInvariant, PTL

LEMMA SettledKeeps ==
  ASSUME TypeOK, NEW s \in Calls, Done(s),
         NEW m \in Range(byId[call[s].conv].messages), m.id # call[s].assistant
  PROVE  m \in Range(Settled(s))
<1>1. PICK q : q = byId[call[s].conv].messages
  OBVIOUS
<1>2. PICK p : p = Settled(s)
  OBVIOUS
<1>3. /\ q \in Seq(Shown) /\ DOMAIN p = DOMAIN q
      /\ \A i \in DOMAIN q :
           /\ q[i].id # call[s].assistant => p[i] = q[i]
           /\ q[i].id = call[s].assistant =>
                p[i].id = call[s].reply /\ p[i].streaming = FALSE
  BY <1>1, <1>2, SettledFacts
<1>4. p \in Seq(Shown)
  BY <1>2, DoneShows DEF Now
<1>5. PICK i \in DOMAIN q : m = q[i]
  BY <1>1, <1>3, MessageFacts
<1>6. m = p[i] /\ i \in DOMAIN p
  BY <1>3, <1>5
<1> QED
  BY <1>2, <1>4, <1>6, MessageFacts

\* A step takes a stored message away only from a hasty user.
LEMMA MessageStays ==
  ASSUME StoreInv, Next, NEW c \in Convs, c \notin hasty,
         NEW m, m \in Range(byId[c].messages), m.id > 0
  PROVE  m \in Range(byId'[c].messages)
<1>1. /\ TypeOK /\ IdsInv /\ Opened /\ Unanswered
      /\ byId[c] \in ConvState /\ byId[c].messages \in Seq(Shown)
  BY StateTypes DEF StoreInv, StreamInv
<1>2. PICK q : q = byId[c].messages
  OBVIOUS
<1>3. q \in Seq(Shown) /\ m \in Range(q) /\ m.id \in Int /\ ~ m.streaming
  <2>1. m.id \in Int /\ (m.streaming => m.id < 0) /\ m.streaming \in BOOLEAN
    BY <1>1, MessageFacts DEF IdsInv, ShownIds
  <2> QED
    BY <1>1, <1>2, <2>1
<1>4. PICK k \in DOMAIN q : m = q[k]
  BY <1>3, MessageFacts
<1>5. Answered(c)
  <2>1. ~ Answered(c) => q = <<>>
    BY <1>1, <1>2 DEF Unanswered
  <2> QED
    BY <1>3, <2>1, NoMessages
<1>6. \A s \in Calls : m.id # call[s].assistant
  <2>1. \A s \in Calls : call[s].assistant < 0 /\ call[s].assistant \in Int
    BY <1>1, CallTypes DEF IdsInv, CallIds
  <2> QED
    BY <1>3, <2>1
<1>7. CASE byId' = byId
  BY <1>7
<1>8. ASSUME NEW d \in Convs, NEW ms, NEW sends, Now(d, ms, sends),
             d = c => m \in Range(ms)
      PROVE  m \in Range(byId'[c].messages)
  BY <1>8 DEF Now
<1>9. ASSUME NEW d \in Convs, Loaded(d)
      PROVE  m \in Range(byId'[c].messages)
  <2>1. d # c
    BY <1>5, <1>9 DEF Loaded, Answered, NoGet
  <2>2. Now(d, AsShown(get[d].rows), FALSE)
    BY <1>1, <1>9, LoadedShows
  <2> QED
    BY <1>8, <2>1, <2>2
<1>10. ASSUME NEW d \in Convs, LoadFailed(d)
       PROVE  m \in Range(byId'[c].messages)
  <2>1. Now(d, byId[d].messages, byId[d].sending)
    BY <1>1, <1>10, LoadFailedShows
  <2> QED
    BY <1>8, <2>1
<1>11. ASSUME NEW d \in Convs, Send(d)
       PROVE  m \in Range(byId'[c].messages)
  <2>1. PICK old, ms : old = byId[d].messages /\ ms = old \o <<Asked, Bubble>>
    OBVIOUS
  <2>2. Now(d, ms, TRUE)
    BY <1>1, <1>11, <2>1, StateTypes, PostShows DEF Send
  <2>3. \A n \in Range(old) : n \in Range(ms)
    BY <1>1, <2>1, StateTypes, PostFacts
  <2> QED
    BY <1>8, <2>1, <2>2, <2>3
<1>12. ASSUME NEW d \in Convs, SendNew(d)
       PROVE  m \in Range(byId'[c].messages)
  <2>1. d # c
    BY <1>1, <1>5, <1>12 DEF SendNew, Opened, Answered
  <2>2. PICK ms : ms = EMPTY.messages \o <<Asked, Bubble>>
    OBVIOUS
  <2>3. Now(d, ms, TRUE)
    BY <1>1, <1>12, <2>2, EmptyType, PostShows DEF SendNew
  <2> QED
    BY <1>8, <2>1, <2>3
<1>13. ASSUME NEW d \in Convs, Stop(d)
       PROVE  m \in Range(byId'[c].messages)
  <2>1. PICK old, K : /\ old = byId[d].messages
                      /\ K = {i \in DOMAIN old : ~ old[i].streaming}
    OBVIOUS
  <2>2. Now(d, Kept(old, K), FALSE)
    BY <1>1, <1>13, <2>1, StopShows
  <2>3. ASSUME d = c
        PROVE  m \in Range(Kept(old, K))
    <3>1. old = q /\ K \subseteq DOMAIN q /\ k \in K
      BY <1>2, <1>3, <1>4, <2>1, <2>3
    <3> QED
      BY <1>3, <1>4, <3>1, KeptRange
  <2> QED
    BY <1>8, <2>2, <2>3
<1>14. ASSUME NEW s \in Calls, Done(s)
       PROVE  m \in Range(byId'[c].messages)
  <2>1. PICK d, ms : d = call[s].conv /\ ms = Settled(s)
    OBVIOUS
  <2>2. d \in Convs /\ Now(d, ms, FALSE)
    BY <1>1, <1>14, <2>1, CallTypes, DoneShows
  <2>3. d = c => m \in Range(ms)
    BY <1>1, <1>6, <1>14, <2>1, SettledKeeps
  <2> QED
    BY <1>8, <2>2, <2>3
<1>15. ASSUME NEW s \in Calls, Refused(s)
       PROVE  m \in Range(byId'[c].messages)
  <2>1. PICK d, old, K : d = call[s].conv /\ old = byId[d].messages /\ K = Others(s)
    OBVIOUS
  <2>2. d \in Convs /\ Now(d, Kept(old, K), FALSE)
    BY <1>1, <1>15, <2>1, CallTypes, RefusedShows
  <2>3. ASSUME d = c
        PROVE  m \in Range(Kept(old, K))
    <3>1. old = q /\ K \subseteq DOMAIN q /\ k \in K
      BY <1>2, <1>4, <1>6, <2>1, <2>3 DEF Others
    <3> QED
      BY <1>3, <1>4, <3>1, KeptRange
  <2> QED
    BY <1>8, <2>2, <2>3
<1> QED
  BY <1>1, <1>7, <1>9, <1>10, <1>11, <1>12, <1>13, <1>14, <1>15, Showing

(***************************************************************************)
(* A reply once shown stays and is shown once: no step takes a stored      *)
(* message away, and no load shows it beside the one that is there.        *)
(***************************************************************************)
THEOREM RepliesAreKept == Spec => RepliesStay
<1> DEFINE Places(c, m) == {i \in DOMAIN byId'[c].messages :
                               byId'[c].messages[i] = m}
           Stays(c, m)  == /\ Cardinality(Places(c, m)) <= 1
                           /\ c \notin hasty => Places(c, m) # {}
           AllStay == \A c \in Convs : \A m \in Range(byId[c].messages) :
                        m.id > 0 => Stays(c, m)
<1>1. StoreInv /\ StoreInv' /\ [Next]_vars => [AllStay]_byId
  <2>1. SUFFICES ASSUME StoreInv, StoreInv', Next, NEW c \in Convs,
                        NEW m \in Range(byId[c].messages), m.id > 0
                 PROVE  Stays(c, m)
    BY DEF vars
  <2>2. PICK p : p = byId'[c].messages
    OBVIOUS
  <2>3. p \in Seq(Shown) /\ Distinct(p)
    <3>1. byId' \in [Convs -> ConvState] /\ Distinct(p)
      BY <2>1, <2>2 DEF StoreInv, TypeOK, IdsInv, ShownIds, Distinct
    <3> QED
      BY <2>2, <3>1 DEF ConvState
  <2>4. Cardinality(Places(c, m)) <= 1
    <3>1. CASE Places(c, m) = {}
      BY <3>1, FS_EmptySet
    <3>2. CASE Places(c, m) # {}
      <4>1. PICK i : i \in Places(c, m)
        BY <3>2
      <4>2. Places(c, m) = {i}
        BY <2>2, <2>3, <4>1 DEF Distinct
      <4> QED
        BY <4>2, FS_Singleton
    <3> QED
      BY <3>1, <3>2
  <2>5. ASSUME c \notin hasty
        PROVE  Places(c, m) # {}
    <3>1. m \in Range(p)
      BY <2>1, <2>2, <2>5, MessageStays
    <3> QED
      BY <2>2, <2>3, <3>1, MessageFacts
  <2> QED
    BY <2>4, <2>5
<1>2. [][AllStay]_byId => RepliesStay
  BY DEF RepliesStay
<1> QED
  BY <1>1, <1>2, StoreInvariant, PTL DEF Spec

=============================================================================
