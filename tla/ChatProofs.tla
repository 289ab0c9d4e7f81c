----------------------------- MODULE ChatProofs -----------------------------
(***************************************************************************)
(* Theorems about the conversation service, for every number of accounts,  *)
(* conversations, concurrent sends and messages.                           *)
(***************************************************************************)
EXTENDS Chat, FiniteSetTheorems, TLAPS

LEMMA AnyRequestType == AnyRequest \in [user : Users, conv : Convs]
<1>1. PICK u \in Users, c \in Convs : TRUE
  BY ChatAssumption
<1>2. [user |-> u, conv |-> c] \in [user : Users, conv : Convs]
  OBVIOUS
<1> QED
  BY <1>2 DEF AnyRequest

LEMMA NoSummaryType == NoSummary \in Summary
BY ChatAssumption DEF NoSummary, Summary

LEMMA InitType == Init => TypeOK
BY AnyRequestType, NoSummaryType, ChatAssumption
   DEF Init, TypeOK, Absent, Live, Deleted, ConvRow,
       NoContext, Context, PC, Inserting

(***************************************************************************)
(* A handler that returns has well-typed local variables.                  *)
(***************************************************************************)
LEMMA ReturnType ==
  ASSUME TypeOK, NEW h \in Handlers, Return(h)
  PROVE  /\ pc' \in [Handlers -> PC]
         /\ req' \in [Handlers -> [user : Users, conv : Convs]]
         /\ alive' \in [Handlers -> BOOLEAN]
         /\ msg' \in [Handlers -> 0 .. MaxMsg]
         /\ ctx' \in [Handlers -> Context]
         /\ fold' \in [Handlers -> Summary]
         /\ \A g \in Handlers : Inserting(g)' => msg'[g] # 0
BY AnyRequestType, ChatAssumption
   DEF TypeOK, Return, Goto, PC, Context, NoContext, Summary, NoSummary, Ids,
       Inserting

LEMMA RowsType ==
  ASSUME TypeOK, NEW D \in SUBSET Convs, DropConvs(D)
  PROVE  /\ conv' \in [Convs -> ConvRow]
         /\ messages' \subseteq [id : Ids, conv : Convs]
<1>1. ASSUME NEW r \in ConvRow
      PROVE  [r EXCEPT !.status = Deleted, !.title = "none",
                       !.summary = NoSummary] \in ConvRow
  BY NoSummaryType DEF ConvRow
<1>2. conv \in [Convs -> ConvRow] /\ messages \subseteq [id : Ids, conv : Convs]
  BY DEF TypeOK
<1> QED
  BY <1>1, <1>2 DEF DropConvs

(***************************************************************************)
(* The local variables and the rows a step of Send leaves well-typed.      *)
(***************************************************************************)
LocalType ==
  /\ pc \in [Handlers -> PC]
  /\ req \in [Handlers -> [user : Users, conv : Convs]]
  /\ alive \in [Handlers -> BOOLEAN]
  /\ msg \in [Handlers -> 0 .. MaxMsg]
  /\ ctx \in [Handlers -> Context]
  /\ fold \in [Handlers -> Summary]
  /\ \A h \in Handlers : Inserting(h) => msg[h] # 0

DataType ==
  /\ account \in [Users -> {Absent, Live, Deleted}]
  /\ conv \in [Convs -> ConvRow]
  /\ messages \subseteq [id : Ids, conv : Convs]
  /\ nextId \in 1 .. MaxMsg + 1
  /\ marks \in [Subjects -> Nat]

LEMMA SendType ==
  ASSUME TypeOK, NEW h \in Handlers, Send(h)
  PROVE  TypeOK'
<1> SUFFICES DataType' /\ LocalType'
  BY DEF TypeOK, DataType, LocalType
<1>1. DataType /\ LocalType
  BY DEF TypeOK, DataType, LocalType
<1>2. ASSUME Return(h) PROVE LocalType'
  BY <1>2, ReturnType DEF LocalType
<1>3. ASSUME NEW l \in PC, Goto(h, l), l \notin {"commitUser", "commitReply"},
             UNCHANGED local
      PROVE  LocalType'
  BY <1>1, <1>3 DEF LocalType, Goto, local, Inserting
<1>4. ASSUME UNCHANGED database PROVE DataType'
  BY <1>1, <1>4 DEF DataType, database
<1>5. Conv(h) \in Convs /\ User(h) \in Users /\ Subject(h) \in Subjects
  BY <1>1, ChatAssumption DEF LocalType, Conv, User, Subject
<1>6. conv[Conv(h)] \in ConvRow /\ conv[Conv(h)].summary \in Summary
  BY <1>1, <1>5 DEF DataType, ConvRow
<1>7. CASE CheckOwner(h)
  BY <1>7, <1>2, <1>3, <1>4 DEF CheckOwner, PC, Before
<1>8. CASE CheckBudget(h)
  BY <1>8, <1>2, <1>3, <1>4 DEF CheckBudget, PC, Before
<1>9. ASSUME NEW from, NEW to \in PC, DrawId(h, from, to)
      PROVE  DataType' /\ LocalType'
  <2>1. nextId \in 1 .. MaxMsg /\ nextId + 1 \in 1 .. MaxMsg + 1
    BY <1>1, <1>9, ChatAssumption DEF DrawId, DataType
  <2> QED
    BY <1>1, <1>9, <2>1 DEF DrawId, Goto, DataType, LocalType, Inserting
<1>10. ASSUME NEW from \in {"commitUser", "commitReply"}, NEW to \in PC,
              to \notin {"commitUser", "commitReply"}, Commit(h, from, to)
       PROVE  DataType' /\ LocalType'
  <2>1. msg[h] \in Ids
    BY <1>1, <1>10, ChatAssumption DEF Commit, LocalType, Inserting, Ids
  <2>2. [id |-> msg[h], conv |-> Conv(h)] \in [id : Ids, conv : Convs]
    BY <2>1, <1>5
  <2>3. DataType'
    BY <1>1, <1>10, <2>2 DEF Commit, DataType
  <2> QED
    BY <1>2, <1>3, <1>10, <2>3 DEF Commit
<1>11. CASE ReadSummary(h)
  <2>1. [ctx[h] EXCEPT !.summary = conv[Conv(h)].summary] \in Context
    BY <1>1, <1>6 DEF LocalType, Context
  <2>2. ctx' \in [Handlers -> Context] \/ Return(h)
    BY <1>1, <1>11, <2>1 DEF ReadSummary, LocalType
  <2> QED
    BY <1>1, <1>2, <1>4, <1>11, <2>2
       DEF ReadSummary, LocalType, Goto, PC, Before, Inserting
<1>12. CASE ReadHistory(h)
  <2>1. Readings(Tail(h, Conv(h))) \subseteq SUBSET Ids
    BY <1>1 DEF Tail, Readings, DataType
  <2>2. ctx' \in [Handlers -> Context]
    BY <1>1, <1>12, <2>1 DEF ReadHistory, LocalType, Context
  <2> QED
    BY <1>1, <1>4, <1>12, <2>2
       DEF ReadHistory, LocalType, Goto, PC, Before, Inserting
<1>13. CASE AgentReplies(h)
  <2>1. ctx[h].tail \in SUBSET Ids /\ ctx[h].summary.covers \in SUBSET Ids
    BY <1>1 DEF LocalType, Context, Summary
  <2>2. Folds(h) \subseteq Summary
    BY <2>1, ChatAssumption DEF Folds, FoldThrough, FoldAfterLoss, Summary, Ids
  <2> QED
    BY <1>1, <1>4, <1>13, <2>2
       DEF AgentReplies, LocalType, Goto, PC, After, Inserting
<1>14. CASE AgentFails(h) \/ Abort(h)
  BY <1>2, <1>4, <1>14 DEF AgentFails, Abort
<1>15. CASE StoreSummary(h)
  <2>1. [conv[Conv(h)] EXCEPT !.summary = fold[h]] \in ConvRow
    BY <1>1, <1>6 DEF LocalType, ConvRow
  <2>2. conv' \in [Convs -> ConvRow]
    BY <1>1, <1>15, <2>1 DEF StoreSummary, DataType
  <2> QED
    BY <1>1, <1>3, <1>15, <2>2 DEF StoreSummary, DataType, PC, After
<1>16. CASE RecordMark(h)
  BY <1>1, <1>3, <1>5, <1>16 DEF RecordMark, DataType, PC, After
<1>17. CASE SendDone(h)
  BY <1>2, <1>3, <1>4, <1>17 DEF SendDone, PC, After
<1>18. CASE SetTitle(h)
  <2>1. [conv[Conv(h)] EXCEPT !.title = "auto"] \in ConvRow
    BY <1>6 DEF ConvRow
  <2>2. conv' \in [Convs -> ConvRow]
    BY <1>1, <1>18, <2>1 DEF SetTitle, DataType
  <2> QED
    BY <1>1, <1>2, <1>18, <2>2 DEF SetTitle, DataType
<1> QED
  BY <1>7, <1>8, <1>9, <1>10, <1>11, <1>12, <1>13, <1>14, <1>15, <1>16, <1>17,
     <1>18, Zenon
     DEF Send, InsertUser, InsertReply, CommitUser, CommitReply, PC, Before, After

LEMMA NextType == TypeOK /\ [Next]_vars => TypeOK'
<1> SUFFICES ASSUME TypeOK, [Next]_vars
             PROVE  TypeOK'
  OBVIOUS
<1>1. ASSUME NEW u \in Users, SignUp(u)
      PROVE  TypeOK'
  BY <1>1 DEF TypeOK, SignUp, local, Live, Inserting
<1>2. ASSUME NEW u \in Users, DeleteAccount(u)
      PROVE  TypeOK'
  <2>1. OwnedBy(u) \in SUBSET Convs
    BY DEF OwnedBy
  <2> QED
    BY <1>2, <2>1, RowsType DEF TypeOK, DeleteAccount, local, Deleted, Inserting
<1>3. ASSUME NEW u \in Users, NEW c \in Convs, CreateConv(u, c)
      PROVE  TypeOK'
  <2>1. [status |-> Live, owner |-> u, title |-> "none", summary |-> NoSummary]
          \in ConvRow
    BY ChatAssumption DEF ConvRow, Summary, NoSummary, Live
  <2> QED
    BY <1>3, <2>1 DEF TypeOK, CreateConv, local, Inserting
<1>4. ASSUME NEW u \in Users, NEW c \in Convs, Rename(u, c)
      PROVE  TypeOK'
  <2>1. [conv[c] EXCEPT !.title = "renamed"] \in ConvRow
    <3>1. conv[c] \in ConvRow
      BY DEF TypeOK, DataType
    <3> QED
      BY <3>1 DEF ConvRow
  <2> QED
    BY <1>4, <2>1 DEF TypeOK, Rename, local, Inserting
<1>5. ASSUME NEW u \in Users, NEW c \in Convs, DeleteConv(u, c)
      PROVE  TypeOK'
  BY <1>5, RowsType DEF TypeOK, DeleteConv, local, Inserting
<1>6. ASSUME NEW s \in Subjects, ExpireMark(s)
      PROVE  TypeOK'
  BY <1>6 DEF TypeOK, ExpireMark, local, Inserting
<1>7. ASSUME NEW h \in Handlers, NEW u \in Users, NEW c \in Convs,
             Receive(h, u, c)
      PROVE  TypeOK'
  BY <1>7 DEF TypeOK, Receive, Goto, database, PC, Before, Inserting
<1>8. ASSUME NEW h \in Handlers, Disconnect(h)
      PROVE  TypeOK'
  BY <1>8 DEF TypeOK, Disconnect, database, Inserting
<1>9. CASE UNCHANGED vars
  BY <1>9 DEF TypeOK, vars, Inserting
<1> QED
  BY <1>1, <1>2, <1>3, <1>4, <1>5, <1>6, <1>7, <1>8, <1>9, SendType DEF Next

(***************************************************************************)
(* Every row and every local variable of a handler stays well-typed.       *)
(***************************************************************************)
THEOREM TypeCorrect == Spec => []TypeOK
BY InitType, NextType, PTL DEF Spec

-----------------------------------------------------------------------------
(* Whose rows there are, and whose a handler works on. *)

\* A handler past the ownership check has found the row of its conversation.
FoundInv ==
  \A h \in Handlers :
    pc[h] \notin {"idle", "own"} => conv[Conv(h)].status # Absent

RowsInv == TypeOK /\ NoOrphans /\ CheckedOwnership /\ FoundInv

\* A conversation keeps its status and its owner, or it is deleted.
KeptOrDeleted(c) ==
  /\ conv'[c].owner = conv[c].owner
  /\ conv'[c].status = conv[c].status \/ conv'[c].status = Deleted

(***************************************************************************)
(* Steps that neither create a conversation nor take a handler past the    *)
(* ownership check.                                                        *)
(***************************************************************************)
LEMMA HandlersKeepRows ==
  ASSUME RowsInv,
         \A c \in Convs : KeptOrDeleted(c),
         \A h \in Handlers :
           \/ pc'[h] \in {"idle", "own"}
           \/ pc[h] \notin {"idle", "own"} /\ req'[h] = req[h]
  PROVE  CheckedOwnership' /\ FoundInv'
<1> SUFFICES ASSUME NEW h \in Handlers, pc'[h] \notin {"idle", "own"}
             PROVE  /\ conv'[Conv(h)'].status # Absent
                    /\ conv'[Conv(h)'].status = Live
                       => conv'[Conv(h)'].owner = User(h)'
  BY DEF CheckedOwnership, FoundInv
<1>1. pc[h] \notin {"idle", "own"} /\ Conv(h)' = Conv(h) /\ User(h)' = User(h)
  BY DEF Conv, User
<1>2. Conv(h) \in Convs
  BY DEF RowsInv, TypeOK, Conv
<1> QED
  BY <1>1, <1>2
     DEF RowsInv, CheckedOwnership, FoundInv, KeptOrDeleted, Absent, Deleted, Live

LEMMA DropRowsInv ==
  ASSUME RowsInv, NEW D \in SUBSET Convs, DropConvs(D)
  PROVE  /\ \A c \in Convs : KeptOrDeleted(c)
         /\ \A m \in messages' : conv'[m.conv].status = Live
         /\ \A c \in Convs :
              conv'[c].status = Live => c \notin D /\ conv[c].status = Live
<1>1. ASSUME NEW c \in Convs
      PROVE  /\ c \in D => conv'[c].status = Deleted /\ conv'[c].owner = conv[c].owner
             /\ c \notin D => conv'[c] = conv[c]
  <2>1. conv[c] \in ConvRow
    BY DEF RowsInv, TypeOK
  <2> QED
    BY <2>1 DEF DropConvs, ConvRow
<1>2. \A m \in messages' : m \in messages /\ m.conv \in Convs /\ m.conv \notin D
  BY DEF DropConvs, RowsInv, TypeOK
<1> QED
  BY <1>1, <1>2 DEF RowsInv, NoOrphans, KeptOrDeleted, Deleted, Live

\* A step of Send writes no owner and no status.
LEMMA SendRows ==
  ASSUME RowsInv, NEW h \in Handlers, Send(h)
  PROVE  /\ account' = account
         /\ \A c \in Convs : /\ conv'[c].owner = conv[c].owner
                              /\ conv'[c].status = conv[c].status
         /\ \A m \in messages' :
              m \in messages \/ conv[m.conv].status = Live
<1>1. /\ conv \in [Convs -> ConvRow] /\ Conv(h) \in Convs
  BY DEF RowsInv, TypeOK, Conv
<1>2. CASE StoreSummary(h) \/ SetTitle(h)
  <2>1. account' = account /\ messages' = messages
    BY <1>2 DEF StoreSummary, SetTitle
  <2>2. \/ conv' = conv
        \/ conv' = [conv EXCEPT ![Conv(h)].summary = fold[h]]
        \/ conv' = [conv EXCEPT ![Conv(h)].title = "auto"]
    BY <1>2 DEF StoreSummary, SetTitle
  <2> QED
    BY <1>1, <2>1, <2>2 DEF ConvRow
<1>3. CASE CommitUser(h) \/ CommitReply(h)
  BY <1>3 DEF CommitUser, CommitReply, Commit, Accepts
<1>4. CASE InsertUser(h) \/ InsertReply(h)
  BY <1>4 DEF InsertUser, InsertReply, DrawId
<1>5. CASE RecordMark(h)
  BY <1>5 DEF RecordMark
<1>6. CASE UNCHANGED database
  BY <1>6 DEF database
<1> QED
  BY <1>2, <1>3, <1>4, <1>5, <1>6
     DEF Send, CheckOwner, CheckBudget, ReadSummary, ReadHistory, AgentReplies,
         AgentFails, SendDone, Abort

LEMMA SendPositions ==
  ASSUME RowsInv, NEW h \in Handlers, Send(h)
  PROVE  /\ \A g \in Handlers \ {h} : pc'[g] = pc[g] /\ req'[g] = req[g]
         /\ \/ pc'[h] = "idle"
            \/ pc[h] \notin {"idle", "own"} /\ req'[h] = req[h]
            \/ /\ req'[h] = req[h]
               /\ Conv(h) \in OwnedBy(User(h)) /\ UNCHANGED conv
<1>0. pc \in [Handlers -> PC] /\ req \in [Handlers -> [user : Users, conv : Convs]]
  BY DEF RowsInv, TypeOK
<1>1. ASSUME Return(h)
      PROVE  /\ \A g \in Handlers \ {h} : pc'[g] = pc[g] /\ req'[g] = req[g]
             /\ pc'[h] = "idle"
  BY <1>0, <1>1 DEF Return, Goto
<1>2. ASSUME NEW l, Goto(h, l), req' = req
      PROVE  \A g \in Handlers \ {h} : pc'[g] = pc[g] /\ req'[g] = req[g]
  BY <1>0, <1>2 DEF Goto
<1>3. CASE CheckOwner(h)
  BY <1>1, <1>2, <1>3 DEF CheckOwner, local, database
<1>4. CASE CheckBudget(h) \/ SendDone(h)
  BY <1>1, <1>2, <1>4 DEF CheckBudget, SendDone, local
<1>5. CASE CommitUser(h) \/ CommitReply(h)
  BY <1>1, <1>2, <1>5 DEF CommitUser, CommitReply, Commit, local
<1>6. CASE InsertUser(h) \/ InsertReply(h)
  BY <1>2, <1>6 DEF InsertUser, InsertReply, DrawId
<1>7. CASE ReadSummary(h) \/ ReadHistory(h) \/ AgentReplies(h)
  BY <1>1, <1>2, <1>7 DEF ReadSummary, ReadHistory, AgentReplies
<1>8. CASE StoreSummary(h) \/ RecordMark(h)
  BY <1>1, <1>2, <1>8 DEF StoreSummary, RecordMark, local
<1>9. CASE AgentFails(h) \/ Abort(h) \/ SetTitle(h)
  BY <1>1, <1>9 DEF AgentFails, Abort, SetTitle
<1> QED
  BY <1>3, <1>4, <1>5, <1>6, <1>7, <1>8, <1>9 DEF Send

LEMMA NextRows == RowsInv /\ [Next]_vars => RowsInv'
<1> SUFFICES ASSUME RowsInv, [Next]_vars
             PROVE  RowsInv'
  OBVIOUS
<1>1. TypeOK' /\ TypeOK
  BY NextType DEF RowsInv
<1>2. SUFFICES NoOrphans' /\ CheckedOwnership' /\ FoundInv'
  BY <1>1 DEF RowsInv
<1>3. ASSUME NEW u \in Users, SignUp(u)
      PROVE  NoOrphans' /\ CheckedOwnership' /\ FoundInv'
  <2>1. CheckedOwnership' /\ FoundInv'
    BY <1>3, HandlersKeepRows DEF SignUp, local, KeptOrDeleted
  <2>2. NoOrphans'
    BY <1>3, <1>1 DEF SignUp, RowsInv, NoOrphans, TypeOK, Live, Absent
  <2> QED
    BY <2>1, <2>2
<1>4. ASSUME NEW u \in Users, DeleteAccount(u)
      PROVE  NoOrphans' /\ CheckedOwnership' /\ FoundInv'
  <2>1. OwnedBy(u) \in SUBSET Convs /\ UNCHANGED <<pc, req>>
    BY <1>4 DEF OwnedBy, DeleteAccount, local
  <2>2. /\ \A c \in Convs : KeptOrDeleted(c)
        /\ \A m \in messages' : conv'[m.conv].status = Live
        /\ \A c \in Convs :
              conv'[c].status = Live => c \notin OwnedBy(u) /\ conv[c].status = Live
    BY <1>4, <2>1, DropRowsInv DEF DeleteAccount
  <2>3. \A v \in Users : v # u => account'[v] = account[v]
    BY <1>4, <1>1 DEF DeleteAccount, TypeOK
  <2>4. \A c \in Convs : conv[c].owner \in Users
    BY <1>1 DEF TypeOK, ConvRow
  <2>5. NoOrphans'
    BY <2>2, <2>3, <2>4 DEF RowsInv, NoOrphans, OwnedBy, KeptOrDeleted
  <2> QED
    BY <2>1, <2>2, <2>5, HandlersKeepRows
<1>5. ASSUME NEW u \in Users, NEW c \in Convs, DeleteConv(u, c)
      PROVE  NoOrphans' /\ CheckedOwnership' /\ FoundInv'
  <2>1. UNCHANGED <<account, pc, req>>
    BY <1>5 DEF DeleteConv, local
  <2>2. /\ \A d \in Convs : KeptOrDeleted(d)
        /\ \A m \in messages' : conv'[m.conv].status = Live
        /\ \A d \in Convs : conv'[d].status = Live => conv[d].status = Live
    BY <1>5, DropRowsInv DEF DeleteConv
  <2>3. NoOrphans'
    BY <2>1, <2>2 DEF RowsInv, NoOrphans, KeptOrDeleted
  <2> QED
    BY <2>1, <2>2, <2>3, HandlersKeepRows
<1>6. ASSUME NEW u \in Users, NEW c \in Convs, CreateConv(u, c)
      PROVE  NoOrphans' /\ CheckedOwnership' /\ FoundInv'
  <2>1. /\ conv[c].status = Absent /\ account[u] = Live
        /\ UNCHANGED <<account, messages, pc, req>>
        /\ conv'[c].status = Live /\ conv'[c].owner = u
        /\ \A d \in Convs \ {c} : conv'[d] = conv[d]
    BY <1>6, <1>1 DEF CreateConv, local, TypeOK
  <2>2. \A m \in messages : m.conv \in Convs \ {c}
    BY <1>1, <2>1 DEF RowsInv, NoOrphans, TypeOK, Live, Absent
  <2>3. NoOrphans'
    BY <2>1, <2>2 DEF RowsInv, NoOrphans
  <2>4. \A h \in Handlers :
          /\ Conv(h)' = Conv(h) /\ User(h)' = User(h) /\ Conv(h) \in Convs
          /\ pc[h] \notin {"idle", "own"} => Conv(h) # c
    BY <1>1, <2>1 DEF RowsInv, FoundInv, TypeOK, Conv, User
  <2>5. CheckedOwnership' /\ FoundInv'
    BY <2>1, <2>4 DEF RowsInv, CheckedOwnership, FoundInv
  <2> QED
    BY <2>3, <2>5
<1>7. ASSUME NEW u \in Users, NEW c \in Convs, Rename(u, c)
      PROVE  NoOrphans' /\ CheckedOwnership' /\ FoundInv'
  <2>1. conv \in [Convs -> ConvRow]
    BY <1>1 DEF TypeOK
  <2>2. \A d \in Convs : /\ conv'[d].owner = conv[d].owner
                         /\ conv'[d].status = conv[d].status
    BY <1>7, <2>1 DEF Rename, ConvRow
  <2>3. UNCHANGED <<account, messages, pc, req>>
    BY <1>7 DEF Rename, local
  <2>4. NoOrphans'
    BY <1>1, <2>2, <2>3 DEF RowsInv, NoOrphans, TypeOK
  <2> QED
    BY <2>2, <2>3, <2>4, HandlersKeepRows DEF KeptOrDeleted
<1>8. ASSUME NEW h \in Handlers, Send(h)
      PROVE  NoOrphans' /\ CheckedOwnership' /\ FoundInv'
  <2>1. /\ account' = account
        /\ \A c \in Convs : /\ conv'[c].owner = conv[c].owner
                             /\ conv'[c].status = conv[c].status
        /\ \A m \in messages' : m \in messages \/ conv[m.conv].status = Live
    BY <1>8, SendRows
  <2>2. NoOrphans'
    BY <1>1, <2>1 DEF RowsInv, NoOrphans, TypeOK
  <2>3. /\ \A g \in Handlers \ {h} : pc'[g] = pc[g] /\ req'[g] = req[g]
        /\ \/ pc'[h] = "idle"
           \/ pc[h] \notin {"idle", "own"} /\ req'[h] = req[h]
           \/ /\ req'[h] = req[h]
              /\ Conv(h) \in OwnedBy(User(h)) /\ UNCHANGED conv
    BY <1>8, SendPositions
  <2>4. CASE \/ pc'[h] = "idle"
             \/ pc[h] \notin {"idle", "own"} /\ req'[h] = req[h]
    BY <2>1, <2>2, <2>3, <2>4, HandlersKeepRows DEF KeptOrDeleted
  <2>5. CASE /\ req'[h] = req[h]
             /\ Conv(h) \in OwnedBy(User(h)) /\ UNCHANGED conv
    <3>1. \A g \in Handlers : Conv(g)' = Conv(g) /\ User(g)' = User(g)
      BY <2>3, <2>5 DEF Conv, User
    <3>2. conv[Conv(h)].status = Live /\ conv[Conv(h)].owner = User(h)
      BY <2>5 DEF OwnedBy
    <3>3. CheckedOwnership' /\ FoundInv'
      BY <2>3, <2>5, <3>1, <3>2
         DEF RowsInv, CheckedOwnership, FoundInv, Live, Absent
    <3> QED
      BY <2>2, <3>3
  <2> QED
    BY <2>3, <2>4, <2>5
<1>9. ASSUME UNCHANGED <<account, conv, messages>>,
             \A h \in Handlers :
               \/ pc'[h] \in {"idle", "own"}
               \/ pc[h] \notin {"idle", "own"} /\ req'[h] = req[h]
      PROVE  NoOrphans' /\ CheckedOwnership' /\ FoundInv'
  BY <1>9, HandlersKeepRows DEF RowsInv, NoOrphans, KeptOrDeleted
<1>10. ASSUME NEW s \in Subjects, ExpireMark(s)
       PROVE  NoOrphans' /\ CheckedOwnership' /\ FoundInv'
  BY <1>9, <1>10 DEF ExpireMark, local
<1>11. ASSUME NEW h \in Handlers,
              Disconnect(h) \/ \E u \in Users, c \in Convs : Receive(h, u, c)
       PROVE  NoOrphans' /\ CheckedOwnership' /\ FoundInv'
  BY <1>1, <1>9, <1>11 DEF Disconnect, Receive, Goto, database, TypeOK
<1>12. CASE UNCHANGED vars
  BY <1>9, <1>12 DEF vars
<1> QED
  BY <1>3, <1>4, <1>5, <1>6, <1>7, <1>8, <1>10, <1>11, <1>12 DEF Next

LEMMA RowsInvariant == Spec => []RowsInv
<1>1. Init => RowsInv
  BY InitType DEF Init, RowsInv, NoOrphans, CheckedOwnership, FoundInv, Absent, Live
<1> QED
  BY <1>1, NextRows, PTL DEF Spec

(***************************************************************************)
(* No delete, of a conversation or of an account, and no late reply leaves *)
(* a row behind, for any number of concurrent sends.                       *)
(***************************************************************************)
THEOREM OrphanFree == Spec => []NoOrphans
BY RowsInvariant, PTL DEF RowsInv

(***************************************************************************)
(* The one ownership check of a send holds for all its later statements.   *)
(***************************************************************************)
THEOREM OwnershipHolds == Spec => []CheckedOwnership
BY RowsInvariant, PTL DEF RowsInv

-----------------------------------------------------------------------------
(* The reply is stored before it is charged and announced. *)

\* The statements of a send whose reply has been committed.
Announced == {"storeSummary", "mark", "done", "title"}

StoredInv == RowsInv /\ ChargedRepliesStored

(***************************************************************************)
(* Steps that bring no deleted conversation back, keep the messages of the *)
(* live ones, and take no handler past the commit of its reply.            *)
(***************************************************************************)
LEMMA StoredKept ==
  ASSUME StoredInv,
         \A c \in Convs : conv'[c].status = Live => conv[c].status # Deleted,
         \A m \in messages : conv'[m.conv].status = Live => m \in messages',
         NEW h \in Handlers,
         pc'[h] \in Announced =>
           pc[h] \in Announced /\ req'[h] = req[h] /\ msg'[h] = msg[h]
  PROVE  pc'[h] \in Announced /\ conv'[Conv(h)'].status = Live
           => [id |-> msg'[h], conv |-> Conv(h)'] \in messages'
<1> SUFFICES ASSUME pc'[h] \in Announced, conv'[Conv(h)'].status = Live
             PROVE  [id |-> msg'[h], conv |-> Conv(h)'] \in messages'
  OBVIOUS
<1>1. pc[h] \in Announced /\ Conv(h)' = Conv(h) /\ msg'[h] = msg[h]
  BY DEF Conv
<1>2. Conv(h) \in Convs /\ conv[Conv(h)] \in ConvRow
  BY DEF StoredInv, RowsInv, TypeOK, Conv
<1>3. conv[Conv(h)].status = Live
  BY <1>1, <1>2 DEF StoredInv, RowsInv, FoundInv, Announced, ConvRow
<1>4. [id |-> msg[h], conv |-> Conv(h)] \in messages
  BY <1>1, <1>3 DEF StoredInv, ChargedRepliesStored, Announced
<1> QED
  BY <1>1, <1>4

LEMMA SendAnnounces ==
  ASSUME RowsInv, NEW h \in Handlers, Send(h), ~ CommitReply(h), NEW g \in Handlers,
         pc'[g] \in Announced
  PROVE  pc[g] \in Announced /\ req'[g] = req[g] /\ msg'[g] = msg[g]
<1>0. /\ pc \in [Handlers -> PC] /\ req \in [Handlers -> [user : Users, conv : Convs]]
      /\ msg \in [Handlers -> 0 .. MaxMsg]
  BY DEF RowsInv, TypeOK
<1>1. ~ Return(h) \/ g # h
  BY <1>0 DEF Return, Goto, Announced
<1>2. ASSUME Return(h)
      PROVE  pc[g] \in Announced /\ req'[g] = req[g] /\ msg'[g] = msg[g]
  BY <1>0, <1>1, <1>2 DEF Return, Goto
<1>3. ASSUME NEW l, Goto(h, l), l \in Announced => pc[h] \in Announced,
             req' = req, msg' = msg
      PROVE  pc[g] \in Announced /\ req'[g] = req[g] /\ msg'[g] = msg[g]
  BY <1>0, <1>3 DEF Goto
<1>4. CASE CheckOwner(h)
  BY <1>2, <1>3, <1>4 DEF CheckOwner, local, Announced
<1>5. CASE CheckBudget(h) \/ SendDone(h)
  BY <1>2, <1>3, <1>5 DEF CheckBudget, SendDone, local, Announced
<1>6. CASE CommitUser(h)
  BY <1>2, <1>3, <1>6 DEF CommitUser, Commit, local, Announced
<1>7. CASE InsertUser(h) \/ InsertReply(h)
  BY <1>0, <1>7 DEF InsertUser, InsertReply, DrawId, Goto, Announced
<1>8. CASE ReadSummary(h) \/ ReadHistory(h) \/ AgentReplies(h)
  BY <1>2, <1>3, <1>8 DEF ReadSummary, ReadHistory, AgentReplies, Announced
<1>9. CASE StoreSummary(h) \/ RecordMark(h)
  BY <1>3, <1>9 DEF StoreSummary, RecordMark, local, Announced
<1>10. CASE AgentFails(h) \/ Abort(h) \/ SetTitle(h)
  BY <1>2, <1>10 DEF AgentFails, Abort, SetTitle
<1> QED
  BY <1>4, <1>5, <1>6, <1>7, <1>8, <1>9, <1>10 DEF Send

\* The rows of live conversations stay, and deleted conversations stay deleted.
LEMMA RowsStay ==
  ASSUME RowsInv, [Next]_vars
  PROVE  /\ \A c \in Convs : conv'[c].status = Live => conv[c].status # Deleted
         /\ \A m \in messages : conv'[m.conv].status = Live => m \in messages'
<1>1. /\ \A m \in messages : m.conv \in Convs
      /\ conv \in [Convs -> ConvRow]
  BY DEF RowsInv, TypeOK
<1>2. ASSUME NEW D \in SUBSET Convs, DropConvs(D)
      PROVE  /\ \A c \in Convs : conv'[c].status = Live => conv[c].status # Deleted
             /\ \A m \in messages : conv'[m.conv].status = Live => m \in messages'
  <2>1. \A c \in Convs : conv'[c].status = Live => c \notin D /\ conv[c].status = Live
    BY <1>2, DropRowsInv
  <2> QED
    BY <1>1, <1>2, <2>1 DEF DropConvs, Live, Deleted
<1>3. ASSUME NEW u \in Users, DeleteAccount(u)
      PROVE  /\ \A c \in Convs : conv'[c].status = Live => conv[c].status # Deleted
             /\ \A m \in messages : conv'[m.conv].status = Live => m \in messages'
  <2>1. OwnedBy(u) \in SUBSET Convs
    BY DEF OwnedBy
  <2> QED
    BY <1>2, <1>3, <2>1 DEF DeleteAccount
<1>4. ASSUME NEW u \in Users, NEW c \in Convs, DeleteConv(u, c)
      PROVE  /\ \A d \in Convs : conv'[d].status = Live => conv[d].status # Deleted
             /\ \A m \in messages : conv'[m.conv].status = Live => m \in messages'
  BY <1>2, <1>4 DEF DeleteConv
<1>5. ASSUME NEW u \in Users, NEW c \in Convs, CreateConv(u, c) \/ Rename(u, c)
      PROVE  /\ \A d \in Convs : conv'[d].status = Live => conv[d].status # Deleted
             /\ messages' = messages
  <2>1. messages' = messages /\ \A d \in Convs \ {c} : conv'[d] = conv[d]
    BY <1>1, <1>5 DEF CreateConv, Rename
  <2>2. conv[c].status # Deleted
    BY <1>5 DEF CreateConv, Rename, OwnedBy, Absent, Live, Deleted
  <2> QED
    BY <2>1, <2>2 DEF Live, Deleted
<1>6. ASSUME NEW h \in Handlers, Send(h)
      PROVE  /\ \A c \in Convs : conv'[c].status = Live => conv[c].status # Deleted
             /\ \A m \in messages : m \in messages'
  <2>1. \A c \in Convs : conv'[c].status = conv[c].status
    BY <1>6, SendRows
  <2>2. messages \subseteq messages'
    BY <1>6 DEF Send, CheckOwner, CheckBudget, InsertUser, CommitUser, ReadSummary,
       ReadHistory, AgentReplies, AgentFails, InsertReply, CommitReply, StoreSummary,
       RecordMark, SendDone, SetTitle, Abort, DrawId, Commit, database
  <2> QED
    BY <2>1, <2>2 DEF Live, Deleted
<1>7. CASE UNCHANGED <<conv, messages>>
  BY <1>7 DEF Live, Deleted
<1> QED
  BY <1>3, <1>4, <1>5, <1>6, <1>7
     DEF Next, vars, SignUp, ExpireMark, Receive, Disconnect, database

LEMMA NextStored == StoredInv /\ [Next]_vars => StoredInv'
<1> SUFFICES ASSUME StoredInv, [Next]_vars
             PROVE  StoredInv'
  OBVIOUS
<1>1. RowsInv /\ RowsInv'
  BY NextRows DEF StoredInv
<1>2. /\ \A c \in Convs : conv'[c].status = Live => conv[c].status # Deleted
      /\ \A m \in messages : conv'[m.conv].status = Live => m \in messages'
  BY <1>1, RowsStay
<1>3. ASSUME NEW g \in Handlers
      PROVE  pc'[g] \in Announced /\ conv'[Conv(g)'].status = Live
               => [id |-> msg'[g], conv |-> Conv(g)'] \in messages'
  <2>1. ASSUME NEW h \in Handlers, CommitReply(h)
        PROVE  pc'[g] \in Announced /\ conv'[Conv(g)'].status = Live
                 => [id |-> msg'[g], conv |-> Conv(g)'] \in messages'
    <3>1. CASE g = h /\ Accepts(h)
      BY <2>1, <3>1 DEF CommitReply, Commit, local, Conv
    <3>2. CASE g = h /\ ~ Accepts(h)
      BY <1>1, <2>1, <3>2
         DEF CommitReply, Commit, Return, Goto, RowsInv, TypeOK, Announced
    <3>3. CASE g # h
      <4>1. pc'[g] = pc[g] /\ req'[g] = req[g] /\ msg'[g] = msg[g]
        BY <1>1, <2>1, <3>3
           DEF CommitReply, Commit, Return, Goto, RowsInv, TypeOK, local
      <4> QED
        BY <1>2, <4>1, StoredKept
    <3> QED
      BY <3>1, <3>2, <3>3
  <2>2. ASSUME NEW h \in Handlers, Send(h), ~ CommitReply(h)
        PROVE  pc'[g] \in Announced /\ conv'[Conv(g)'].status = Live
                 => [id |-> msg'[g], conv |-> Conv(g)'] \in messages'
    <3>1. pc'[g] \in Announced =>
            pc[g] \in Announced /\ req'[g] = req[g] /\ msg'[g] = msg[g]
      BY <1>1, <2>2, SendAnnounces
    <3> QED
      BY <1>2, <3>1, StoredKept
  <2>3. ASSUME NEW h \in Handlers, NEW u \in Users, NEW c \in Convs, Receive(h, u, c)
        PROVE  pc'[g] \in Announced /\ conv'[Conv(g)'].status = Live
                 => [id |-> msg'[g], conv |-> Conv(g)'] \in messages'
    <3>1. pc'[g] \in Announced =>
            pc[g] \in Announced /\ req'[g] = req[g] /\ msg'[g] = msg[g]
      BY <1>1, <2>3 DEF Receive, Goto, RowsInv, TypeOK, Announced
    <3> QED
      BY <1>2, <3>1, StoredKept
  <2>4. CASE UNCHANGED <<pc, req, msg>>
    BY <1>2, <2>4, StoredKept
  <2> QED
    BY <2>1, <2>2, <2>3, <2>4
       DEF Next, vars, SignUp, DeleteAccount, CreateConv, Rename, DeleteConv,
           ExpireMark, Disconnect, local
<1> QED
  BY <1>1, <1>3 DEF StoredInv, ChargedRepliesStored, Announced

(***************************************************************************)
(* A send that charges, announces or names anything has its reply among    *)
(* the rows, whatever is deleted, disconnected or fails between any two of *)
(* its statements, unless the conversation is gone (chat.go 441-488).      *)
(***************************************************************************)
THEOREM RepliesStored == Spec => []ChargedRepliesStored
<1>1. Init => StoredInv
  <2>1. Init => RowsInv
    BY InitType DEF Init, RowsInv, NoOrphans, CheckedOwnership, FoundInv, Absent, Live
  <2> QED
    BY <2>1 DEF Init, StoredInv, ChargedRepliesStored
<1>2. StoredInv => ChargedRepliesStored
  BY DEF StoredInv
<1> QED
  BY <1>1, <1>2, NextStored, PTL DEF Spec

-----------------------------------------------------------------------------
(* The run budget. *)

\* The step changes the position of one handler, and its request only there.
Moves(h, label) ==
  /\ pc' = [pc EXCEPT ![h] = label]
  /\ \A g \in Handlers \ {h} : req'[g] = req[g]

(***************************************************************************)
(* What a move of one handler does to the set of runs of a usage key.      *)
(***************************************************************************)
LEMMA InFlightMoves ==
  ASSUME TypeOK, NEW h \in Handlers, NEW label, Moves(h, label),
         NEW s \in Subjects
  PROVE  /\ /\ pc[h] \notin Admitted
            /\ label \notin Admitted
            => InFlight(s)' = InFlight(s)
         /\ /\ pc[h] \in Admitted
            /\ label \in Admitted
            /\ req' = req
            => InFlight(s)' = InFlight(s)
         /\ /\ pc[h] \in Admitted
            /\ label \notin Admitted
            => InFlight(s)' = IF s = Subject(h) THEN InFlight(s) \ {h}
                                                ELSE InFlight(s)
         /\ /\ pc[h] \notin Admitted
            /\ label \in Admitted
            /\ req' = req
            => InFlight(s)' = IF s = Subject(h) THEN InFlight(s) \cup {h}
                                                ELSE InFlight(s)
<1>1. pc'[h] = label /\ \A g \in Handlers \ {h} : pc'[g] = pc[g]
  BY DEF Moves, TypeOK
<1>2. \A g \in Handlers : Subject(g)' = SubjectOf[req'[g].user]
  BY DEF Subject, User
<1>3. \A g \in Handlers \ {h} : Subject(g)' = Subject(g)
  BY DEF Moves, Subject, User
<1>4. req' = req => Subject(h)' = Subject(h)
  BY DEF Subject, User
<1>5. InFlight(s)' = {g \in Handlers : pc'[g] \in Admitted /\ Subject(g)' = s}
  BY DEF InFlight, Admitted
<1> QED
  BY <1>1, <1>3, <1>4, <1>5 DEF InFlight

LEMMA ReturnMoves ==
  ASSUME TypeOK, NEW h \in Handlers, Return(h)
  PROVE  Moves(h, "idle")
BY DEF TypeOK, Return, Goto, Moves

LEMMA GotoMoves ==
  ASSUME TypeOK, NEW h \in Handlers, NEW label, Goto(h, label), req' = req
  PROVE  Moves(h, label)
BY DEF Goto, Moves

(***************************************************************************)
(* Each step of the service is a step of the admission control or leaves   *)
(* the marks and the admitted runs of every metered key alone.             *)
(***************************************************************************)
LEMMA AbandonStep ==
  ASSUME TypeOK, NEW h \in Handlers, NEW label, Moves(h, label),
         label \notin Admitted, UNCHANGED marks
  PROVE  [Admission!Next]_(Admission!vars)
<1>1. \A s \in Metered : s \in Subjects
  BY DEF Metered
<1>2. CASE pc[h] \notin Admitted
  BY <1>1, <1>2, InFlightMoves DEF Admission!vars
<1>3. CASE pc[h] \in Admitted /\ Subject(h) \in Metered
  <2>1. h \in InFlight(Subject(h))
    BY <1>3 DEF InFlight
  <2>2. \A s \in Metered :
          InFlight(s)' = IF s = Subject(h) THEN InFlight(s) \ {h} ELSE InFlight(s)
    BY <1>1, <1>3, InFlightMoves
  <2>3. Admission!Abandon(Subject(h), h)
    BY <1>3, <2>1, <2>2 DEF Admission!Abandon
  <2> QED
    BY <2>3, <1>3 DEF Admission!Next
<1>4. CASE pc[h] \in Admitted /\ Subject(h) \notin Metered
  BY <1>1, <1>4, InFlightMoves DEF Admission!vars
<1> QED
  BY <1>2, <1>3, <1>4

LEMMA StayStep ==
  ASSUME TypeOK, NEW h \in Handlers, NEW label, Goto(h, label),
         pc[h] \in Admitted, label \in Admitted, UNCHANGED <<req, marks>>
  PROVE  [Admission!Next]_(Admission!vars)
<1>1. \A s \in Metered : s \in Subjects
  BY DEF Metered
<1>2. Moves(h, label)
  BY GotoMoves
<1> QED
  BY <1>1, <1>2, InFlightMoves DEF Admission!vars

LEMMA AdmitStep ==
  ASSUME TypeOK, NEW h \in Handlers, CheckBudget(h)
  PROVE  [Admission!Next]_(Admission!vars)
<1>1. \A s \in Metered : s \in Subjects
  BY DEF Metered
<1>2. CASE Return(h)
  BY <1>2, ReturnMoves, AbandonStep DEF CheckBudget, database, Admitted
<1>3. CASE Goto(h, "insertUser") /\ WithinBudget(h) /\ UNCHANGED local
  <2>1. Moves(h, "insertUser") /\ req' = req
    BY <1>3, GotoMoves DEF local
  <2>2. pc[h] \notin Admitted /\ "insertUser" \in Admitted /\ UNCHANGED marks
    BY DEF CheckBudget, Admitted, database
  <2>3. \A s \in Metered :
          InFlight(s)' = IF s = Subject(h) THEN InFlight(s) \cup {h}
                                           ELSE InFlight(s)
    BY <1>1, <2>1, <2>2, InFlightMoves
  <2>4. CASE Subject(h) \in Metered
    <3>1. marks[Subject(h)] < RunsBudget
      BY <1>3, <2>4 DEF WithinBudget, Metered, Subject, User, TypeOK
    <3>2. h \notin InFlight(Subject(h))
      BY <2>2 DEF InFlight
    <3>3. Admission!Admit(Subject(h), h)
      BY <2>2, <2>3, <2>4, <3>1, <3>2 DEF Admission!Admit
    <3> QED
      BY <2>4, <3>3 DEF Admission!Next
  <2>5. CASE Subject(h) \notin Metered
    BY <2>2, <2>3, <2>5 DEF Admission!vars
  <2> QED
    BY <2>4, <2>5
<1> QED
  BY <1>2, <1>3 DEF CheckBudget

LEMMA ChargeStep ==
  ASSUME TypeOK, NEW h \in Handlers, RecordMark(h)
  PROVE  [Admission!Next]_(Admission!vars)
<1>1. \A s \in Metered : s \in Subjects
  BY DEF Metered
<1>2. /\ Moves(h, "done")
      /\ pc[h] \in Admitted /\ "done" \notin Admitted
  BY GotoMoves DEF RecordMark, local, Admitted
<1>3. CASE UNCHANGED marks
  BY <1>2, <1>3, AbandonStep
<1>4. CASE marks' = [marks EXCEPT ![Subject(h)] = @ + 1]
  <2>1. \A s \in Metered :
          InFlight(s)' = IF s = Subject(h) THEN InFlight(s) \ {h}
                                           ELSE InFlight(s)
    BY <1>1, <1>2, InFlightMoves
  <2>2. h \in InFlight(Subject(h))
    BY <1>2 DEF InFlight
  <2>3. \A s \in Metered :
          marks'[s] = IF s = Subject(h) THEN marks[s] + 1 ELSE marks[s]
    BY <1>1, <1>4 DEF TypeOK
  <2>4. CASE Subject(h) \in Metered
    <3>1. Admission!Charge(Subject(h), h)
      BY <2>1, <2>2, <2>3, <2>4 DEF Admission!Charge
    <3> QED
      BY <2>4, <3>1 DEF Admission!Next
  <2>5. CASE Subject(h) \notin Metered
    BY <2>1, <2>3, <2>5 DEF Admission!vars
  <2> QED
    BY <2>4, <2>5
<1> QED
  BY <1>3, <1>4 DEF RecordMark

LEMMA SendImplements ==
  ASSUME TypeOK, NEW h \in Handlers, Send(h)
  PROVE  [Admission!Next]_(Admission!vars)
<1>1. ASSUME Return(h), UNCHANGED marks
      PROVE  [Admission!Next]_(Admission!vars)
  BY <1>1, ReturnMoves, AbandonStep DEF Admitted
<1>2. ASSUME NEW label, label \notin Admitted, Goto(h, label),
             UNCHANGED <<req, marks>>
      PROVE  [Admission!Next]_(Admission!vars)
  BY <1>2, GotoMoves, AbandonStep
<1>3. CASE CheckOwner(h)
  BY <1>1, <1>2, <1>3 DEF CheckOwner, database, local, Admitted
<1>4. CASE CheckBudget(h)
  BY <1>4, AdmitStep
<1>5. CASE InsertUser(h) \/ InsertReply(h)
  BY <1>5, StayStep DEF InsertUser, InsertReply, DrawId, Admitted
<1>6. CASE CommitUser(h) \/ CommitReply(h)
  BY <1>1, <1>6, StayStep DEF CommitUser, CommitReply, Commit, local, Admitted
<1>7. CASE ReadSummary(h) \/ ReadHistory(h) \/ AgentReplies(h)
  BY <1>1, <1>7, StayStep
     DEF ReadSummary, ReadHistory, AgentReplies, database, Admitted
<1>8. CASE AgentFails(h) \/ Abort(h)
  BY <1>1, <1>8 DEF AgentFails, Abort, database
<1>9. CASE StoreSummary(h)
  BY <1>9, StayStep DEF StoreSummary, local, Admitted
<1>10. CASE RecordMark(h)
  BY <1>10, ChargeStep
<1>11. CASE SendDone(h)
  BY <1>1, <1>2, <1>11 DEF SendDone, database, local, Admitted
<1>12. CASE SetTitle(h)
  BY <1>1, <1>12 DEF SetTitle
<1> QED
  BY <1>3, <1>4, <1>5, <1>6, <1>7, <1>8, <1>9, <1>10, <1>11, <1>12 DEF Send

LEMMA NextImplements ==
  TypeOK /\ [Next]_vars => [Admission!Next]_(Admission!vars)
<1> SUFFICES ASSUME TypeOK, [Next]_vars
             PROVE  [Admission!Next]_(Admission!vars)
  OBVIOUS
<1>1. ASSUME UNCHANGED <<pc, req, marks>>
      PROVE  [Admission!Next]_(Admission!vars)
  BY <1>1 DEF Admission!vars, InFlight, Subject, User
<1>2. ASSUME NEW u \in Users, SignUp(u) \/ DeleteAccount(u)
      PROVE  [Admission!Next]_(Admission!vars)
  BY <1>1, <1>2 DEF SignUp, DeleteAccount, local
<1>3. ASSUME NEW u \in Users, NEW c \in Convs,
             CreateConv(u, c) \/ Rename(u, c) \/ DeleteConv(u, c)
      PROVE  [Admission!Next]_(Admission!vars)
  BY <1>1, <1>3 DEF CreateConv, Rename, DeleteConv, local
<1>4. ASSUME NEW s \in Subjects, ExpireMark(s)
      PROVE  [Admission!Next]_(Admission!vars)
  <2>1. \A t \in Metered : t \in Subjects /\ InFlight(t)' = InFlight(t)
    BY <1>4 DEF Metered, ExpireMark, local, InFlight, Subject, User
  <2>2. \A t \in Metered :
          marks'[t] = IF t = s THEN marks[t] - 1 ELSE marks[t]
    BY <1>4, <2>1 DEF ExpireMark, TypeOK
  <2>3. CASE s \in Metered
    <3>1. Admission!Expire(s)
      BY <1>4, <2>1, <2>2, <2>3 DEF ExpireMark, Admission!Expire
    <3> QED
      BY <2>3, <3>1 DEF Admission!Next
  <2>4. CASE s \notin Metered
    BY <2>1, <2>2, <2>4 DEF Admission!vars
  <2> QED
    BY <2>3, <2>4
<1>5. ASSUME NEW h \in Handlers, NEW u \in Users, NEW c \in Convs,
             Receive(h, u, c)
      PROVE  [Admission!Next]_(Admission!vars)
  <2>1. Moves(h, "own") /\ "own" \notin Admitted /\ UNCHANGED marks
    BY <1>5 DEF Receive, Goto, Moves, TypeOK, Admitted, database
  <2> QED
    BY <2>1, AbandonStep
<1>6. ASSUME NEW h \in Handlers, Disconnect(h)
      PROVE  [Admission!Next]_(Admission!vars)
  BY <1>1, <1>6 DEF Disconnect, database
<1>7. CASE UNCHANGED vars
  BY <1>1, <1>7 DEF vars
<1> QED
  BY <1>2, <1>3, <1>4, <1>5, <1>6, <1>7, SendImplements DEF Next

(***************************************************************************)
(* The service implements the admission control: between the check and the *)
(* mark every send is one admitted run of its usage key.                   *)
(***************************************************************************)
THEOREM Implements == Spec => ImplementsAdmission
<1>1. Init => Admission!Init
  BY DEF Init, Admission!Init, InFlight, Admitted, Metered
<1> QED
  BY <1>1, NextImplements, TypeCorrect, PTL
     DEF Spec, ImplementsAdmission, Admission!Spec

(***************************************************************************)
(* The size of a set of sends under the changes the steps make.            *)
(***************************************************************************)
LEMMA SendCount ==
  ASSUME NEW S \in SUBSET Handlers
  PROVE  /\ Cardinality(S) \in Nat
         /\ Cardinality(S) <= Cardinality(Handlers)
         /\ Cardinality(Handlers) \in Nat
         /\ \A h \in S : Cardinality(S \ {h}) = Cardinality(S) - 1
<1>1. IsFiniteSet(S) /\ IsFiniteSet(Handlers)
  BY FS_Subset, ChatAssumption
<1> QED
  BY <1>1, FS_CardinalityType, FS_Subset, FS_RemoveElement

\* The charges n of a key and its running sends S are inside the bound.
Inside(n, S) == n + Cardinality(S) <= RunsBudget - 1 + Cardinality(Handlers)

\* What a step of the admission control does to the charges and the running
\* sends of one key.
Counts(n, S, m, T) ==
  \/ m = n /\ T = S
  \/ m = n - 1 /\ T = S
  \/ n < RunsBudget /\ m = n /\ T \in SUBSET Handlers
  \/ \E h \in S : m \in {n, n + 1} /\ T = S \ {h}

LEMMA StaysInside ==
  ASSUME NEW n \in Nat, NEW S \in SUBSET Handlers, NEW m, NEW T, Inside(n, S), Counts(n, S, m, T)
  PROVE  Inside(m, T)
<1>1. /\ Cardinality(S) \in Nat /\ Cardinality(Handlers) \in Nat /\ RunsBudget \in Nat
      /\ \A h \in S : Cardinality(S \ {h}) = Cardinality(S) - 1
      /\ n + Cardinality(S) <= RunsBudget - 1 + Cardinality(Handlers)
  BY SendCount, ChatAssumption DEF Inside
<1>2. CASE T = S /\ m \in {n, n - 1}
  BY <1>1, <1>2 DEF Inside
<1>3. CASE n < RunsBudget /\ m = n /\ T \in SUBSET Handlers
  <2>1. Cardinality(T) \in Nat /\ Cardinality(T) <= Cardinality(Handlers)
    BY <1>3, SendCount
  <2> QED
    BY <1>1, <1>3, <2>1 DEF Inside
<1>4. ASSUME NEW h \in S, m \in {n, n + 1}, T = S \ {h}
      PROVE  Inside(m, T)
  BY <1>1, <1>4 DEF Inside
<1> QED
  BY <1>2, <1>3, <1>4 DEF Counts

\* Each step of the admission control counts so for every key.
LEMMA AdmissionCounts ==
  ASSUME [Admission!Next]_(Admission!vars), NEW t \in Metered,
         \A s \in Metered : marks[s] \in Nat
  PROVE  Counts(marks[t], InFlight(t), marks'[t], InFlight(t)')
<1>1. PICK u, v, R, Q : /\ u = [s \in Metered |-> marks[s]]
                        /\ v = [s \in Metered |-> marks'[s]]
                        /\ R = [s \in Metered |-> InFlight(s)]
                        /\ Q = [s \in Metered |-> InFlight(s)']
  OBVIOUS
<1>2. /\ u[t] = marks[t] /\ v[t] = marks'[t] /\ R[t] = InFlight(t) /\ Q[t] = InFlight(t)'
      /\ DOMAIN u = Metered /\ DOMAIN R = Metered
      /\ \A s \in Metered : R[s] \in SUBSET Handlers
  BY <1>1 DEF InFlight
<1>3. CASE UNCHANGED Admission!vars
  <2>1. v = u /\ Q = R
    BY <1>1, <1>3 DEF Admission!vars
  <2> QED
    BY <1>2, <2>1 DEF Counts
<1>4. ASSUME NEW s \in Metered, Admission!Expire(s)
      PROVE  Counts(u[t], R[t], v[t], Q[t])
  <2>1. v = [u EXCEPT ![s] = @ - 1] /\ Q = R
    BY <1>1, <1>4 DEF Admission!Expire
  <2> QED
    BY <1>2, <2>1 DEF Counts
<1>5. ASSUME NEW s \in Metered, NEW h \in Handlers, Admission!Admit(s, h)
      PROVE  Counts(u[t], R[t], v[t], Q[t])
  <2>1. u[s] < RunsBudget /\ v = u /\ Q = [R EXCEPT ![s] = @ \cup {h}]
    BY <1>1, <1>5 DEF Admission!Admit
  <2> QED
    BY <1>2, <2>1 DEF Counts
<1>6. ASSUME NEW s \in Metered, NEW h \in Handlers, Admission!Charge(s, h) \/ Admission!Abandon(s, h)
      PROVE  Counts(u[t], R[t], v[t], Q[t])
  <2>1. /\ h \in R[s] /\ Q = [R EXCEPT ![s] = @ \ {h}]
        /\ v = u \/ v = [u EXCEPT ![s] = @ + 1]
    BY <1>1, <1>6 DEF Admission!Charge, Admission!Abandon
  <2> QED
    BY <1>2, <2>1 DEF Counts
<1> QED
  BY <1>2, <1>3, <1>4, <1>5, <1>6 DEF Admission!Next

(***************************************************************************)
(* Concurrent sends overshoot the daily budget by less than their number:  *)
(* an admission sees fewer charges than the budget, and every other step   *)
(* of the admission control that the service implements moves one send or  *)
(* removes one.                                                            *)
(***************************************************************************)
THEOREM Overshoot == Spec => []BudgetOvershoot
<1> DEFINE Bounded == \A s \in Metered : Inside(marks[s], InFlight(s))
<1>1. Init => Bounded
  <2>1. Inside(0, {})
    <3>1. Cardinality(Handlers) \in Nat /\ Cardinality(Handlers) # 0 /\ RunsBudget \in Nat
      BY FS_CardinalityType, FS_EmptySet, ChatAssumption
    <3>2. Cardinality({}) = 0
      BY FS_EmptySet
    <3> QED
      BY <3>1, <3>2 DEF Inside
  <2>2. Init => \A s \in Metered : marks[s] = 0 /\ InFlight(s) = {}
    BY DEF Init, InFlight, Admitted, Metered
  <2> QED
    BY <2>1, <2>2
<1>2. TypeOK /\ Bounded /\ [Next]_vars => Bounded'
  <2> SUFFICES ASSUME TypeOK, Bounded, [Next]_vars, NEW t \in Metered
               PROVE  Inside(marks'[t], InFlight(t)')
    BY DEF Inside, Metered
  <2>1. \A s \in Metered : marks[s] \in Nat
    BY DEF TypeOK, Metered
  <2>2. [Admission!Next]_(Admission!vars)
    BY NextImplements
  <2>3. Counts(marks[t], InFlight(t), marks'[t], InFlight(t)')
    BY <2>1, <2>2, AdmissionCounts
  <2>4. InFlight(t) \in SUBSET Handlers /\ Inside(marks[t], InFlight(t))
    BY DEF InFlight
  <2> QED
    BY <2>1, <2>3, <2>4, StaysInside
<1>3. Bounded => BudgetOvershoot
  <2>1. \A S : Admission!Cardinality(S) = Cardinality(S)
    BY Zenon DEF Admission!Cardinality, Cardinality
  <2> QED
    BY <2>1 DEF BudgetOvershoot, Admission!OvershootBounded, Inside
<1> QED
  BY <1>1, <1>2, <1>3, TypeCorrect, PTL DEF Spec

-----------------------------------------------------------------------------
(***************************************************************************)
(* The rolling summary: when the inserts of a conversation commit in the   *)
(* order of their ids, the stored summary stands for everything its        *)
(* watermark hides, and every run is sent the whole conversation.          *)
(***************************************************************************)

\* The ids of the committed rows of a conversation.
RowIds(c) == {i \in Ids : [id |-> i, conv |-> c] \in messages}

\* A summary S is sound for the rows R: it covers what its watermark hides,
\* and its watermark is one of the rows.
Sound(R, S) ==
  /\ S.through = 0 \/ S.through \in R
  /\ \A i \in R : i <= S.through => i \in S.covers

\* A tail T continues the summary S in the rows R without a gap.
Contiguous(R, S, T) ==
  /\ T \subseteq R
  /\ \A j \in R : (j > S.through /\ \E i \in T : j <= i) => j \in T

HasOwn     == {"summary", "history", "stream"}
HasSummary == {"history", "stream"}
HasTail    == {"stream"}

\* What a handler holds, as long as its conversation is there.
HandlerInv(h) ==
  LET R == RowIds(Conv(h)) IN
  conv[Conv(h)].status = Live =>
    /\ Inserting(h) => \A i \in R : i < msg[h]
    /\ pc[h] \in HasOwn => msg[h] \in R
    /\ pc[h] \in HasSummary => Sound(R, ctx[h].summary)
    /\ pc[h] \in HasTail =>
         /\ Contiguous(R, ctx[h].summary, ctx[h].tail)
         /\ ~DBFaults =>
              \A i \in R :
                i <= msg[h] => i \in ctx[h].summary.covers \cup ctx[h].tail
    /\ pc[h] \in After => Sound(R, fold[h])

ConvInv(c) ==
  conv[c].status = Live => Sound(RowIds(c), conv[c].summary)

\* Ids are drawn once and in increasing order.
DrawnInv ==
  /\ \A m \in messages : m.id < nextId
  /\ \A h \in Handlers : Inserting(h) => msg[h] < nextId
  /\ \A g, h \in Handlers :
       Inserting(g) /\ Inserting(h) /\ g # h => msg[g] # msg[h]

\* A handler past the ownership check found the row; no run, no fold.
StartedInv ==
  \A h \in Handlers :
    /\ pc[h] \notin {"idle", "own"} => conv[Conv(h)].status # Absent
    /\ pc[h] \notin After => fold[h].through = 0

ContextInv ==
  /\ TypeOK
  /\ DrawnInv
  /\ StartedInv
  /\ \A c \in Convs : ConvInv(c)
  /\ \A h \in Handlers : HandlerInv(h)

-----------------------------------------------------------------------------
(* Summaries and tails when the newest row is added. *)

LEMMA SoundGrows ==
  ASSUME NEW R \in SUBSET Ids, NEW k \in Ids, \A i \in R : i < k,
         NEW S \in Summary, Sound(R, S)
  PROVE  Sound(R \cup {k}, S)
BY ChatAssumption DEF Sound, Summary, Ids

LEMMA ContiguousGrows ==
  ASSUME NEW R \in SUBSET Ids, NEW k \in Ids, \A i \in R : i < k,
         NEW S \in Summary, NEW T \in SUBSET Ids, Contiguous(R, S, T)
  PROVE  Contiguous(R \cup {k}, S, T)
BY ChatAssumption DEF Contiguous, Summary, Ids

(***************************************************************************)
(* Folding a contiguous tail up to one of its rows keeps the summary sound.*)
(***************************************************************************)
LEMMA FoldSound ==
  ASSUME TypeOK, NEW h \in Handlers, NEW R \in SUBSET Ids,
         Sound(R, ctx[h].summary),
         Contiguous(R, ctx[h].summary, ctx[h].tail),
         NEW i \in ctx[h].tail
  PROVE  Sound(R, FoldThrough(h, i))
<1>1. /\ ctx[h].summary.through \in 0 .. MaxMsg
      /\ i \in R
      /\ FoldThrough(h, i).through = i
      /\ FoldThrough(h, i).covers
           = ctx[h].summary.covers \cup {j \in ctx[h].tail : j <= i}
  BY DEF TypeOK, Context, Summary, Contiguous, FoldThrough
<1>2. ASSUME NEW j \in R, j <= i
      PROVE  j \in FoldThrough(h, i).covers
  <2>1. CASE j <= ctx[h].summary.through
    BY <1>1, <2>1 DEF Sound
  <2>2. CASE j > ctx[h].summary.through
    BY <1>1, <1>2, <2>2 DEF Contiguous
  <2>3. j \in Int /\ ctx[h].summary.through \in Int
    BY <1>1, ChatAssumption DEF Ids
  <2> QED
    BY <2>1, <2>2, <2>3
<1> QED
  BY <1>1, <1>2 DEF Sound

-----------------------------------------------------------------------------
(* What a step that leaves a handler alone does to what the handler holds. *)

\* The local variables of g are as they were.
Untouched(g) ==
  /\ pc'[g] = pc[g] /\ req'[g] = req[g] /\ msg'[g] = msg[g]
  /\ ctx'[g] = ctx[g] /\ fold'[g] = fold[g]

LEMMA HandlerSameRows ==
  ASSUME NEW g \in Handlers, HandlerInv(g), Untouched(g),
         conv'[Conv(g)].status = Live =>
           /\ conv[Conv(g)].status = Live
           /\ RowIds(Conv(g))' = RowIds(Conv(g))
  PROVE  HandlerInv(g)'
BY DEF HandlerInv, Untouched, Conv, Inserting, RowIds

LEMMA HandlerMoreRows ==
  ASSUME TypeOK, NEW g \in Handlers, HandlerInv(g), Untouched(g),
         NEW k \in Ids, conv[Conv(g)].status = Live,
         \A i \in RowIds(Conv(g)) : i < k,
         Inserting(g) => k < msg[g],
         RowIds(Conv(g))' = RowIds(Conv(g)) \cup {k}
  PROVE  HandlerInv(g)'
<1> DEFINE R == RowIds(Conv(g))
<1>1. /\ R \in SUBSET Ids
      /\ ctx[g].summary \in Summary /\ ctx[g].tail \in SUBSET Ids
      /\ fold[g] \in Summary
  BY DEF RowIds, TypeOK, Context
<1>2. pc[g] \in HasSummary => Sound(R \cup {k}, ctx[g].summary)
  BY <1>1, SoundGrows DEF HandlerInv
<1>3. pc[g] \in After => Sound(R \cup {k}, fold[g])
  BY <1>1, SoundGrows DEF HandlerInv
<1>4. pc[g] \in HasTail =>
        Contiguous(R \cup {k}, ctx[g].summary, ctx[g].tail)
  BY <1>1, ContiguousGrows DEF HandlerInv
<1>5. pc[g] \in HasTail /\ ~DBFaults =>
        \A i \in R \cup {k} :
          i <= msg[g] => i \in ctx[g].summary.covers \cup ctx[g].tail
  <2>1. pc[g] \in HasTail => msg[g] \in R
    BY DEF HandlerInv, HasTail, HasOwn
  <2> QED
    BY <2>1, <1>1, ChatAssumption DEF HandlerInv, Ids
<1>6. pc[g] \in HasOwn => msg[g] \in R \cup {k}
  BY DEF HandlerInv
<1>7. Inserting(g) => \A i \in R \cup {k} : i < msg[g]
  BY DEF HandlerInv
<1>8. /\ Conv(g)' = Conv(g) /\ (Inserting(g)' <=> Inserting(g))
      /\ RowIds(Conv(g))' = R \cup {k}
  BY DEF Untouched, Conv, Inserting
<1> HIDE DEF R
<1> QED
  BY <1>2, <1>3, <1>4, <1>5, <1>6, <1>7, <1>8
     DEF HandlerInv, Untouched, HasTail, HasSummary, HasOwn, After

-----------------------------------------------------------------------------
(* The steps that are not a commit. *)

\* The rows of D disappear together with their messages.
LEMMA DropRows ==
  ASSUME TypeOK, NEW D \in SUBSET Convs, DropConvs(D), NEW c \in Convs
  PROVE  /\ c \notin D => /\ conv'[c] = conv[c]
                          /\ RowIds(c)' = RowIds(c)
         /\ c \in D => conv'[c].status = Deleted
<1>1. conv[c] \in ConvRow
  BY DEF TypeOK
<1> QED
  BY <1>1 DEF DropConvs, RowIds, ConvRow, TypeOK

\* Nothing of the context but rows that are dropped has changed.
LEMMA DropKeeps ==
  ASSUME ContextInv, TypeOK', NEW D \in SUBSET Convs, DropConvs(D),
         UNCHANGED <<nextId, pc, local>>
  PROVE  ContextInv'
<1>1. \A c \in Convs :
        /\ conv'[c].status = Live => /\ conv'[c] = conv[c]
                                     /\ RowIds(c)' = RowIds(c)
        /\ conv[c].status # Absent => conv'[c].status # Absent
  BY DropRows DEF ContextInv, Live, Deleted, Absent
<1>2. \A c \in Convs : ConvInv(c)'
  BY <1>1 DEF ContextInv, ConvInv
<1>3. \A h \in Handlers : HandlerInv(h)'
  <2> TAKE h \in Handlers
  <2>1. Conv(h) \in Convs /\ Conv(h)' = Conv(h) /\ Untouched(h)
    BY DEF ContextInv, TypeOK, Conv, Untouched, local
  <2> QED
    BY <1>1, <2>1, HandlerSameRows DEF ContextInv
<1>4. DrawnInv'
  BY DEF ContextInv, DrawnInv, DropConvs, Inserting, local
<1>5. StartedInv'
  <2>1. \A h \in Handlers : Conv(h) \in Convs /\ Conv(h)' = Conv(h)
    BY DEF ContextInv, TypeOK, Conv, local
  <2> QED
    BY <1>1, <2>1 DEF ContextInv, StartedInv, local
<1> QED
  BY <1>2, <1>3, <1>4, <1>5 DEF ContextInv

\* A handler without a checked conversation holds nothing.
LEMMA IdleHolds ==
  ASSUME NEW h, pc'[h] \in {"idle", "own"}
  PROVE  HandlerInv(h)'
<1>1. /\ ~Inserting(h)'
      /\ pc'[h] \notin HasOwn /\ pc'[h] \notin HasSummary
      /\ pc'[h] \notin HasTail /\ pc'[h] \notin After
  BY DEF Inserting, HasOwn, HasSummary, HasTail, After
<1> QED
  BY <1>1 DEF HandlerInv

LEMMA CreateKeeps ==
  ASSUME ContextInv, TypeOK', NEW u \in Users, NEW c \in Convs, CreateConv(u, c)
  PROVE  ContextInv'
<1>1. /\ \A d \in Convs : d # c => conv'[d] = conv[d]
      /\ conv[c].status = Absent
      /\ conv'[c].summary = NoSummary /\ conv'[c].status = Live
      /\ \A d : RowIds(d)' = RowIds(d)
  BY DEF ContextInv, TypeOK, CreateConv, RowIds
<1>2. \A d \in Convs : ConvInv(d)'
  <2>1. Sound(RowIds(c), NoSummary)
    BY ChatAssumption DEF Sound, NoSummary, RowIds, Ids
  <2> QED
    BY <1>1, <2>1 DEF ContextInv, ConvInv
<1>3. \A h \in Handlers :
        /\ Conv(h) \in Convs /\ Conv(h)' = Conv(h) /\ Untouched(h)
        /\ pc[h] \notin {"idle", "own"} => Conv(h) # c
  BY <1>1 DEF ContextInv, TypeOK, StartedInv, Conv, Untouched, CreateConv, local
<1>4. \A h \in Handlers : HandlerInv(h)'
  <2> TAKE h \in Handlers
  <2>1. CASE pc[h] \in {"idle", "own"}
    <3>1. pc'[h] \in {"idle", "own"}
      BY <1>3, <2>1 DEF Untouched
    <3> QED
      BY <3>1, IdleHolds
  <2>2. CASE pc[h] \notin {"idle", "own"}
    BY <1>1, <1>3, <2>2, HandlerSameRows DEF ContextInv
  <2> QED
    BY <2>1, <2>2
<1>5. DrawnInv'
  BY DEF ContextInv, DrawnInv, CreateConv, Inserting, local
<1>6. StartedInv'
  BY <1>1, <1>3 DEF ContextInv, StartedInv, CreateConv, local
<1> QED
  BY <1>2, <1>4, <1>5, <1>6 DEF ContextInv

\* A step of Send that changes no row: only the handler itself matters.
LEMMA LocalStep ==
  ASSUME ContextInv, TypeOK', NEW h \in Handlers,
         UNCHANGED <<messages, conv>>,
         nextId' >= nextId,
         \A g \in Handlers \ {h} : Untouched(g),
         Inserting(h)' =>
           /\ msg'[h] < nextId' 
           /\ \A g \in Handlers \ {h} : Inserting(g) => msg[g] # msg'[h],
         pc'[h] \notin {"idle", "own"} => conv[Conv(h)'].status # Absent,
         pc'[h] \notin After => fold'[h].through = 0,
         HandlerInv(h)'
  PROVE  ContextInv'
<1>1. \A c : RowIds(c)' = RowIds(c)
  BY DEF RowIds
<1>2. \A c \in Convs : ConvInv(c)'
  BY <1>1 DEF ContextInv, ConvInv
<1>3. ASSUME NEW g \in Handlers PROVE HandlerInv(g)'
  <2>1. CASE g = h
    BY <2>1
  <2>2. CASE g # h
    <3>1. Untouched(g) /\ Conv(g)' = Conv(g) /\ HandlerInv(g)
      BY <2>2 DEF Untouched, Conv, ContextInv
    <3> QED
      BY <1>1, <3>1, HandlerSameRows
  <2> QED
    BY <2>1, <2>2
<1>4. DrawnInv'
  <2>1. \A m \in messages : m.id \in Int
    BY ChatAssumption DEF ContextInv, TypeOK, Ids
  <2>2. nextId \in Int /\ nextId' \in Int /\ \A g \in Handlers : msg[g] \in Int
    BY ChatAssumption DEF ContextInv, TypeOK
  <2>3. \A g \in Handlers \ {h} :
          (Inserting(g)' <=> Inserting(g)) /\ msg'[g] = msg[g]
    BY DEF Untouched, Inserting
  <2> QED
    BY <2>1, <2>2, <2>3 DEF ContextInv, DrawnInv
<1>5. StartedInv'
  <2>1. ASSUME NEW g \in Handlers
        PROVE  /\ pc'[g] \notin {"idle", "own"} => conv'[Conv(g)'].status # Absent
               /\ pc'[g] \notin After => fold'[g].through = 0
    <3>1. CASE g = h
      BY <3>1
    <3>2. CASE g # h
      <4>1. Conv(g)' = Conv(g) /\ pc'[g] = pc[g] /\ fold'[g] = fold[g]
        BY <3>2 DEF Untouched, Conv
      <4>2. /\ pc[g] \notin {"idle", "own"} => conv[Conv(g)].status # Absent
            /\ pc[g] \notin After => fold[g].through = 0
        BY DEF ContextInv, StartedInv
      <4> QED
        BY <4>1, <4>2
    <3> QED
      BY <3>1, <3>2
  <2> QED
    BY <2>1 DEF StartedInv, Absent, After
<1> QED
  BY <1>2, <1>3, <1>4, <1>5 DEF ContextInv

\* A handler that returns holds nothing.
LEMMA ReturnKeeps ==
  ASSUME ContextInv, TypeOK', NEW h \in Handlers, Return(h),
         UNCHANGED <<messages, conv>>, nextId' = nextId
  PROVE  ContextInv'
<1>1. /\ pc'[h] = "idle" /\ fold'[h].through = 0
      /\ \A g \in Handlers \ {h} : Untouched(g)
  BY DEF ContextInv, TypeOK, Return, Goto, Untouched, NoSummary
<1>2. HandlerInv(h)' /\ ~Inserting(h)'
  BY <1>1, IdleHolds DEF Inserting
<1>3. nextId' >= nextId
  BY ChatAssumption DEF ContextInv, TypeOK
<1> QED
  BY <1>1, <1>2, <1>3, LocalStep

\* A step that only moves h on, to a place where it holds no more than before.
LEMMA GotoKeeps ==
  ASSUME ContextInv, TypeOK', NEW h \in Handlers, NEW label, Goto(h, label),
         UNCHANGED <<messages, conv, nextId, req, msg, ctx, fold>>,
         pc[h] # "idle",
         pc[h] = "own" => conv[Conv(h)].status # Absent,
         label \notin {"commitUser", "commitReply", "stream"} \cup HasOwn,
         label \in After <=> pc[h] \in After
  PROVE  ContextInv'
<1>1. /\ pc'[h] = label /\ Conv(h)' = Conv(h) /\ RowIds(Conv(h))' = RowIds(Conv(h))
      /\ \A g \in Handlers \ {h} : Untouched(g)
  BY DEF ContextInv, TypeOK, Goto, Untouched, Conv, RowIds
<1>2. /\ ~Inserting(h)'
      /\ label \notin HasOwn /\ label \notin HasSummary /\ label \notin HasTail
  BY <1>1 DEF Inserting, HasOwn, HasSummary, HasTail
<1>3. HandlerInv(h) /\ HandlerInv(h)'
  <2>1. HandlerInv(h)
    BY DEF ContextInv
  <2> QED
    BY <1>1, <1>2, <2>1 DEF HandlerInv
<1>4. nextId' >= nextId
  BY ChatAssumption DEF ContextInv, TypeOK
<1>5. /\ label \notin {"idle", "own"} => conv[Conv(h)'].status # Absent
      /\ label \notin After => fold'[h].through = 0
  BY <1>1 DEF ContextInv, StartedInv, After
<1> QED
  BY <1>1, <1>2, <1>3, <1>4, <1>5, LocalStep

\* Drawing the next id of the sequence.
LEMMA DrawKeeps ==
  ASSUME ContextInv, TypeOK', NEW h \in Handlers,
         InsertUser(h) \/ InsertReply(h)
  PROVE  ContextInv'
<1>1. PICK from \in {"insertUser", "insertReply"},
           to \in {"commitUser", "commitReply"} :
        /\ DrawId(h, from, to)
        /\ from = "insertReply" <=> to = "commitReply"
  BY DEF InsertUser, InsertReply
<1>2. /\ pc[h] = from /\ pc'[h] = to /\ msg'[h] = nextId /\ nextId' = nextId + 1
      /\ Conv(h)' = Conv(h) /\ fold' = fold /\ UNCHANGED <<messages, conv>>
      /\ RowIds(Conv(h))' = RowIds(Conv(h))
      /\ \A g \in Handlers \ {h} : Untouched(g)
      /\ nextId \in Int
  BY <1>1, ChatAssumption
     DEF ContextInv, TypeOK, DrawId, Goto, Untouched, Conv, RowIds
<1>3. \A i \in RowIds(Conv(h)) : i < nextId
  BY DEF ContextInv, DrawnInv, RowIds
<1>4. \A g \in Handlers : Inserting(g) => msg[g] # nextId
  BY <1>2, ChatAssumption DEF ContextInv, TypeOK, DrawnInv
<1>5. HandlerInv(h)'
  <2>1. /\ to \notin HasOwn /\ to \notin HasSummary /\ to \notin HasTail
        /\ to \in After => from \in After
    BY <1>1 DEF HasOwn, HasSummary, HasTail, After
  <2>2. HandlerInv(h)
    BY DEF ContextInv
  <2> QED
    BY <1>2, <1>3, <2>1, <2>2 DEF HandlerInv
<1>6. /\ conv[Conv(h)'].status # Absent
      /\ to \notin After => fold'[h].through = 0
  BY <1>1, <1>2 DEF ContextInv, StartedInv, After
<1> QED
  BY <1>2, <1>4, <1>5, <1>6, LocalStep

(***************************************************************************)
(* A commit in its turn adds the newest row of its conversation.           *)
(***************************************************************************)
LEMMA CommitKeeps ==
  ASSUME ContextInv, TypeOK', CommitInOrder, NEW h \in Handlers,
         CommitUser(h) \/ CommitReply(h)
  PROVE  ContextInv'
<1>1. PICK from \in {"commitUser", "commitReply"},
           to \in {"summary", "storeSummary"} :
        /\ Commit(h, from, to)
        /\ from = "commitReply" <=> to = "storeSummary"
  BY DEF CommitUser, CommitReply
<1>2. CASE Return(h) /\ UNCHANGED messages
  BY <1>1, <1>2, ReturnKeeps DEF Commit
<1>3. CASE /\ Accepts(h) /\ Goto(h, to) /\ UNCHANGED local
           /\ messages' = messages \cup {[id |-> msg[h], conv |-> Conv(h)]}
  <2> DEFINE c == Conv(h)
             k == msg[h]
  <2>1. /\ c \in Convs /\ k \in Ids /\ Inserting(h) /\ conv[c].status = Live
        /\ conv' = conv /\ nextId' = nextId
        /\ pc[h] = from /\ pc'[h] = to /\ ~Inserting(h)'
        /\ Conv(h)' = c /\ msg'[h] = k /\ fold' = fold
        /\ \A g \in Handlers \ {h} : Untouched(g) /\ Conv(g)' = Conv(g)
    BY <1>1, <1>3, ChatAssumption
       DEF ContextInv, TypeOK, Commit, Accepts, Goto, Untouched, Conv, local,
           Inserting, Ids
  <2>2. \A i \in RowIds(c) : i < k
    BY <2>1 DEF ContextInv, HandlerInv
  <2>3. /\ RowIds(c)' = RowIds(c) \cup {k}
        /\ \A d \in Convs \ {c} : RowIds(d)' = RowIds(d)
    BY <1>3, <2>1 DEF RowIds
  <2>4. ASSUME NEW g \in Handlers \ {h}, Inserting(g), Conv(g) = c
        PROVE  k < msg[g]
    <3>1. k <= msg[g]
      BY <1>1, <2>4 DEF Commit, MyTurn
    <3>2. k # msg[g]
      BY <2>1, <2>4 DEF ContextInv, DrawnInv
    <3>3. k \in Int /\ msg[g] \in Int
      BY ChatAssumption DEF ContextInv, TypeOK
    <3> QED
      BY <3>1, <3>2, <3>3
  <2>5. RowIds(c) \in SUBSET Ids
    BY DEF RowIds
  <2>6. ASSUME NEW d \in Convs PROVE ConvInv(d)'
    <3>1. ConvInv(d) /\ conv[d].summary \in Summary
      BY DEF ContextInv, TypeOK, ConvRow
    <3>2. CASE d = c
      BY <2>1, <2>2, <2>3, <2>5, <3>1, <3>2, SoundGrows DEF ConvInv
    <3>3. CASE d # c
      BY <2>1, <2>3, <3>1, <3>3 DEF ConvInv
    <3> QED
      BY <3>2, <3>3
  <2>7. ASSUME NEW g \in Handlers, g # h PROVE HandlerInv(g)'
    <3>1. HandlerInv(g) /\ Conv(g) \in Convs
      BY DEF ContextInv, TypeOK, Conv
    <3>2. CASE Conv(g) = c
      <4>1. RowIds(Conv(g))' = RowIds(Conv(g)) \cup {k}
        BY <2>1, <2>3, <2>7, <3>2
      <4> QED
        BY <2>1, <2>2, <2>4, <2>7, <3>1, <3>2, <4>1, HandlerMoreRows
           DEF ContextInv
    <3>3. CASE Conv(g) # c
      <4>1. RowIds(Conv(g))' = RowIds(Conv(g))
        BY <2>1, <2>3, <2>7, <3>1, <3>3
      <4> QED
        BY <2>1, <2>7, <3>1, <4>1, HandlerSameRows
    <3> QED
      BY <3>2, <3>3
  <2>8. HandlerInv(h)'
    <3>1. fold[h] \in Summary /\ HandlerInv(h)
      BY DEF ContextInv, TypeOK
    <3>2. to \in After => Sound(RowIds(c) \cup {k}, fold[h])
      <4>1. to \in After => Sound(RowIds(c), fold[h])
        BY <1>1, <2>1, <3>1 DEF HandlerInv, After
      <4> QED
        BY <2>1, <2>2, <2>5, <3>1, <4>1, SoundGrows
    <3>3. to \notin HasSummary /\ to \notin HasTail
      BY DEF HasSummary, HasTail
    <3>4. RowIds(Conv(h))' = RowIds(c) \cup {k}
      BY <2>1, <2>3
    <3> QED
      BY <2>1, <3>2, <3>3, <3>4 DEF HandlerInv
  <2>9. DrawnInv'
    <3>1. \A m \in messages' : m.id < nextId'
      BY <1>3, <2>1 DEF ContextInv, DrawnInv
    <3>2. \A g \in Handlers :
            Inserting(g)' => g # h /\ Inserting(g) /\ msg'[g] = msg[g]
      BY <2>1 DEF Untouched, Inserting
    <3> QED
      BY <2>1, <3>1, <3>2 DEF ContextInv, DrawnInv
  <2>10. StartedInv'
    <3>1. ASSUME NEW g \in Handlers, g # h
          PROVE  /\ pc'[g] = pc[g] /\ Conv(g)' = Conv(g) /\ fold'[g] = fold[g]
      BY <2>1, <3>1 DEF Untouched
    <3>2. to \notin After => fold[h].through = 0
      BY <1>1, <2>1 DEF ContextInv, StartedInv, After
    <3> QED
      BY <2>1, <3>1, <3>2 DEF ContextInv, StartedInv, Absent, Live
  <2> QED
    BY <2>6, <2>7, <2>8, <2>9, <2>10 DEF ContextInv
<1> QED
  BY <1>1, <1>2, <1>3 DEF Commit

-----------------------------------------------------------------------------
(* The reads, the run and the write of the summary. *)

LEMMA ReadSummaryKeeps ==
  ASSUME ContextInv, TypeOK', NEW h \in Handlers, ReadSummary(h)
  PROVE  ContextInv'
<1>1. CASE Return(h)
  BY <1>1, ReturnKeeps DEF ReadSummary, database
<1>2. CASE ~Return(h)
  <2>1. /\ pc[h] = "summary" /\ pc'[h] = "history"
        /\ ctx'[h].summary = conv[Conv(h)].summary
        /\ conv[Conv(h)].status = Live /\ Conv(h) \in Convs
        /\ Conv(h)' = Conv(h) /\ msg' = msg /\ fold' = fold
        /\ UNCHANGED <<messages, conv, nextId>>
        /\ RowIds(Conv(h))' = RowIds(Conv(h))
        /\ \A g \in Handlers \ {h} : Untouched(g)
    BY <1>2 DEF ContextInv, TypeOK, Context, ReadSummary, Goto, Untouched, Conv,
                RowIds, database
  <2>2. HandlerInv(h) /\ ConvInv(Conv(h))
    BY <2>1 DEF ContextInv
  <2>3. HandlerInv(h)' /\ ~Inserting(h)'
    BY <2>1, <2>2
       DEF HandlerInv, ConvInv, Inserting, HasOwn, HasSummary, HasTail, After
  <2>4. /\ conv[Conv(h)'].status # Absent
        /\ fold'[h].through = 0
    BY <2>1 DEF ContextInv, StartedInv, After
  <2>5. nextId' >= nextId
    BY <2>1, ChatAssumption DEF ContextInv, TypeOK
  <2> QED
    BY <2>1, <2>3, <2>4, <2>5, LocalStep
<1> QED
  BY <1>1, <1>2

LEMMA ReadHistoryKeeps ==
  ASSUME ContextInv, TypeOK', NEW h \in Handlers, ReadHistory(h)
  PROVE  ContextInv'
<1> DEFINE R == RowIds(Conv(h))
<1>1. /\ pc[h] = "history" /\ pc'[h] = "stream"
      /\ ctx'[h].summary = ctx[h].summary
      /\ ctx'[h].tail \in Readings(Tail(h, Conv(h))) /\ Conv(h) \in Convs
      /\ Conv(h)' = Conv(h) /\ msg' = msg /\ fold' = fold
      /\ UNCHANGED <<messages, conv, nextId>>
      /\ RowIds(Conv(h))' = R
      /\ \A g \in Handlers \ {h} : Untouched(g)
  BY DEF ContextInv, TypeOK, ReadHistory, Goto, Untouched, Conv, RowIds, database
<1>2. Tail(h, Conv(h)) = {i \in R : i > ctx[h].summary.through}
  BY SMTT(30) DEF Tail, RowIds, ContextInv, TypeOK
<1>3. HandlerInv(h)
  BY DEF ContextInv
<1>4. /\ ctx[h].summary.through \in Int /\ R \in SUBSET Int
  BY ChatAssumption DEF ContextInv, TypeOK, Context, Summary, RowIds, Ids
<1>5. conv[Conv(h)].status = Live =>
        /\ Sound(R, ctx[h].summary)
        /\ msg[h] \in R
        /\ Contiguous(R, ctx[h].summary, ctx'[h].tail)
        /\ ~DBFaults =>
             \A i \in R : i \in ctx[h].summary.covers \cup ctx'[h].tail
  BY <1>1, <1>2, <1>3, <1>4
     DEF HandlerInv, HasOwn, HasSummary, Contiguous, Sound, Readings
<1>6. HandlerInv(h)' /\ ~Inserting(h)'
  BY <1>1, <1>5 DEF HandlerInv, Inserting, HasOwn, HasSummary, HasTail, After
<1>7. conv[Conv(h)'].status # Absent /\ fold'[h].through = 0
  BY <1>1 DEF ContextInv, StartedInv, After
<1>8. nextId' >= nextId
  BY <1>1, ChatAssumption DEF ContextInv, TypeOK
<1> QED
  BY <1>1, <1>6, <1>7, <1>8, LocalStep

LEMMA AgentRepliesKeeps ==
  ASSUME ContextInv, TypeOK', ~SummaryFaults, NEW h \in Handlers,
         AgentReplies(h)
  PROVE  ContextInv'
<1> DEFINE R == RowIds(Conv(h))
<1>1. /\ pc[h] = "stream" /\ pc'[h] = "insertReply"
      /\ Conv(h) \in Convs /\ Conv(h)' = Conv(h) /\ msg' = msg
      /\ UNCHANGED <<messages, conv, nextId>>
      /\ RowIds(Conv(h))' = R /\ R \in SUBSET Ids
      /\ \A g \in Handlers \ {h} : Untouched(g)
      /\ \/ fold'[h] = fold[h]
         \/ \E i \in ctx[h].tail : fold'[h] = FoldThrough(h, i)
  BY DEF ContextInv, TypeOK, AgentReplies, Goto, Untouched, Conv, RowIds, database,
         Folds
<1>2. HandlerInv(h) /\ TypeOK
  BY DEF ContextInv
<1>3. conv[Conv(h)].status = Live => Sound(R, fold'[h])
  <2> SUFFICES ASSUME conv[Conv(h)].status = Live
               PROVE  Sound(R, fold'[h])
    OBVIOUS
  <2>1. CASE fold'[h] = fold[h]
    <3>1. fold[h].through = 0
      BY <1>1 DEF ContextInv, StartedInv, After
    <3> QED
      BY <1>1, <2>1, <3>1, ChatAssumption DEF Sound, Ids
  <2>2. ASSUME NEW i \in ctx[h].tail, fold'[h] = FoldThrough(h, i)
        PROVE  Sound(R, fold'[h])
    <3>1. /\ Sound(R, ctx[h].summary)
          /\ Contiguous(R, ctx[h].summary, ctx[h].tail)
      BY <1>1, <1>2 DEF HandlerInv, HasSummary, HasTail
    <3> QED
      BY <1>1, <1>2, <2>2, <3>1, FoldSound
  <2> QED
    BY <1>1, <2>1, <2>2
<1>4. HandlerInv(h)' /\ ~Inserting(h)'
  BY <1>1, <1>3 DEF HandlerInv, Inserting, HasOwn, HasSummary, HasTail, After
<1>5. conv[Conv(h)'].status # Absent
  BY <1>1 DEF ContextInv, StartedInv
<1>6. nextId' >= nextId
  BY <1>1, ChatAssumption DEF ContextInv, TypeOK
<1>7. pc'[h] \in After
  BY <1>1 DEF After
<1> QED
  BY <1>1, <1>4, <1>5, <1>6, <1>7, LocalStep

\* Only a title or a sound summary is written, and h moves on after the run.
LEMMA RowWriteKeeps ==
  ASSUME ContextInv, TypeOK', NEW h \in Handlers, pc[h] \in After,
         UNCHANGED <<messages, nextId>>,
         \A g \in Handlers \ {h} : Untouched(g),
         pc'[h] = "idle" \/ (pc'[h] \in {"mark", "done"} /\ UNCHANGED local),
         pc'[h] = "idle" => fold'[h].through = 0,
         \A c \in Convs :
           /\ conv'[c].status = conv[c].status
           /\ ConvInv(c)'
  PROVE  ContextInv'
<1>1. /\ \A g \in Handlers : Conv(g) \in Convs
      /\ \A g \in Handlers \ {h} : Conv(g)' = Conv(g)
      /\ \A c : RowIds(c)' = RowIds(c)
  BY DEF ContextInv, TypeOK, Conv, Untouched, RowIds
<1>2. ASSUME NEW g \in Handlers, g # h PROVE HandlerInv(g)'
  BY <1>1, <1>2, HandlerSameRows DEF ContextInv
<1>3. HandlerInv(h)' /\ ~Inserting(h)'
  <2>1. CASE pc'[h] = "idle"
    BY <2>1, IdleHolds DEF Inserting
  <2>2. CASE pc'[h] \in {"mark", "done"} /\ UNCHANGED local
    <3>1. /\ ~Inserting(h)' /\ pc'[h] \notin HasOwn
          /\ pc'[h] \notin HasSummary /\ pc'[h] \notin HasTail
      BY <2>2 DEF Inserting, HasOwn, HasSummary, HasTail
    <3>2. HandlerInv(h) /\ Conv(h)' = Conv(h) /\ fold' = fold
      BY <2>2 DEF ContextInv, Conv, local
    <3>3. conv[Conv(h)].status = Live => Sound(RowIds(Conv(h)), fold[h])
      BY <3>2 DEF HandlerInv
    <3> QED
      BY <1>1, <3>1, <3>2, <3>3 DEF HandlerInv
  <2> QED
    BY <2>1, <2>2
<1>4. DrawnInv'
  <2>1. \A g \in Handlers :
          Inserting(g)' => g # h /\ Inserting(g) /\ msg'[g] = msg[g]
    BY <1>3 DEF Untouched, Inserting
  <2> QED
    BY <2>1 DEF ContextInv, DrawnInv
<1>5. StartedInv'
  <2>1. ASSUME NEW g \in Handlers
        PROVE  /\ pc'[g] \notin {"idle", "own"} => conv'[Conv(g)'].status # Absent
               /\ pc'[g] \notin After => fold'[g].through = 0
    <3>1. CASE g = h
      <4>1. conv[Conv(h)].status # Absent
        BY DEF ContextInv, StartedInv, After
      <4>2. UNCHANGED local => Conv(h)' = Conv(h)
        BY DEF local, Conv
      <4> QED
        BY <1>1, <3>1, <4>1, <4>2 DEF After
    <3>2. CASE g # h
      <4>1. pc'[g] = pc[g] /\ fold'[g] = fold[g]
        BY <3>2 DEF Untouched
      <4> QED
        BY <1>1, <3>2, <4>1 DEF ContextInv, StartedInv
    <3> QED
      BY <3>1, <3>2
  <2> QED
    BY <2>1 DEF StartedInv, Absent, After
<1> QED
  BY <1>2, <1>3, <1>4, <1>5 DEF ContextInv

LEMMA StoreSummaryKeeps ==
  ASSUME ContextInv, TypeOK', NEW h \in Handlers, StoreSummary(h)
  PROVE  ContextInv'
<1>1. /\ pc[h] = "storeSummary" /\ pc[h] \in After /\ pc'[h] = "mark"
      /\ UNCHANGED <<messages, nextId, local>> /\ Conv(h) \in Convs
      /\ \A g \in Handlers \ {h} : Untouched(g)
      /\ \A c : RowIds(c)' = RowIds(c)
  BY DEF ContextInv, TypeOK, StoreSummary, Goto, Untouched, Conv, RowIds,
         After, local
<1>2. ASSUME NEW c \in Convs
      PROVE  conv'[c].status = conv[c].status /\ ConvInv(c)'
  <2>1. ConvInv(c) /\ HandlerInv(h) /\ conv[c] \in ConvRow /\ conv[Conv(h)] \in ConvRow
    BY <1>1 DEF ContextInv, TypeOK
  <2>2. CASE conv' = conv
    BY <1>1, <2>1, <2>2 DEF ConvInv
  <2>3. CASE /\ conv[Conv(h)].status = Live
             /\ conv' = [conv EXCEPT ![Conv(h)].summary = fold[h]]
    <3>1. CASE c = Conv(h)
      <4>1. conv'[c].status = conv[c].status /\ conv'[c].summary = fold[h]
        BY <1>1, <2>1, <2>3, <3>1 DEF ContextInv, TypeOK, ConvRow
      <4> QED
        BY <1>1, <2>1, <2>3, <3>1, <4>1 DEF ConvInv, HandlerInv
    <3>2. CASE c # Conv(h)
      BY <1>1, <2>1, <2>3, <3>2 DEF ConvInv, ContextInv, TypeOK
    <3> QED
      BY <3>1, <3>2
  <2> QED
    BY <2>2, <2>3 DEF StoreSummary
<1> QED
  BY <1>1, <1>2, RowWriteKeeps

LEMMA SetTitleKeeps ==
  ASSUME ContextInv, TypeOK', NEW h \in Handlers, SetTitle(h)
  PROVE  ContextInv'
<1>1. /\ pc[h] \in After /\ pc'[h] = "idle" /\ fold'[h].through = 0
      /\ UNCHANGED <<messages, nextId>>
      /\ \A g \in Handlers \ {h} : Untouched(g)
      /\ \A c : RowIds(c)' = RowIds(c)
  BY DEF ContextInv, TypeOK, SetTitle, Return, Goto, Untouched, RowIds, After,
         NoSummary
<1>2. ASSUME NEW c \in Convs
      PROVE  conv'[c].status = conv[c].status /\ ConvInv(c)'
  <2>1. ConvInv(c) /\ conv[c] \in ConvRow /\ conv \in [Convs -> ConvRow]
    BY DEF ContextInv, TypeOK
  <2>2. conv'[c].status = conv[c].status /\ conv'[c].summary = conv[c].summary
    <3>1. CASE conv' = conv
      BY <3>1
    <3>2. CASE conv' = [conv EXCEPT ![Conv(h)].title = "auto"]
      BY <2>1, <3>2 DEF ConvRow
    <3> QED
      BY <3>1, <3>2 DEF SetTitle
  <2> QED
    BY <1>1, <2>1, <2>2 DEF ConvInv
<1> QED
  BY <1>1, <1>2, RowWriteKeeps

LEMMA RenameKeeps ==
  ASSUME ContextInv, TypeOK', NEW u \in Users, NEW c \in Convs, Rename(u, c)
  PROVE  ContextInv'
<1>1. ASSUME NEW d \in Convs
      PROVE  conv'[d].status = conv[d].status /\ conv'[d].summary = conv[d].summary
  <2>1. conv[d] \in ConvRow
    BY DEF ContextInv, TypeOK
  <2> QED
    BY <2>1 DEF Rename, ContextInv, TypeOK, ConvRow
<1>2. /\ \A d : RowIds(d)' = RowIds(d)
      /\ \A h \in Handlers : Conv(h) \in Convs /\ Conv(h)' = Conv(h) /\ Untouched(h)
  BY DEF Rename, RowIds, Conv, Untouched, local, ContextInv, TypeOK
<1>3. \A d \in Convs : ConvInv(d)'
  BY <1>1, <1>2 DEF ContextInv, ConvInv
<1>4. \A h \in Handlers : HandlerInv(h)'
  BY <1>1, <1>2, HandlerSameRows DEF ContextInv
<1>5. DrawnInv'
  BY DEF Rename, ContextInv, DrawnInv, Inserting, local
<1>6. StartedInv'
  BY <1>1, <1>2 DEF ContextInv, StartedInv, Untouched
<1> QED
  BY <1>3, <1>4, <1>5, <1>6 DEF ContextInv

\* The rows, the ids and what the handlers hold of them are as they were.
LEMMA OtherKeeps ==
  ASSUME ContextInv, TypeOK',
         UNCHANGED <<conv, messages, nextId, pc, req, msg, ctx, fold>>
  PROVE  ContextInv'
<1>1. /\ \A c : RowIds(c)' = RowIds(c)
      /\ \A h \in Handlers : Conv(h)' = Conv(h) /\ Untouched(h)
  BY DEF RowIds, Conv, Untouched
<1>2. \A c \in Convs : ConvInv(c)'
  BY <1>1 DEF ContextInv, ConvInv
<1>3. \A h \in Handlers : HandlerInv(h)'
  BY <1>1, HandlerSameRows DEF ContextInv
<1>4. DrawnInv' /\ StartedInv'
  BY <1>1 DEF ContextInv, DrawnInv, StartedInv, Inserting
<1> QED
  BY <1>2, <1>3, <1>4 DEF ContextInv

LEMMA SendKeeps ==
  ASSUME ContextInv, TypeOK', CommitInOrder, ~SummaryFaults,
         NEW h \in Handlers, Send(h)
  PROVE  ContextInv'
<1>1. ASSUME Return(h), UNCHANGED database
      PROVE  ContextInv'
  BY <1>1, ReturnKeeps DEF database
<1>2. CASE CheckOwner(h)
  <2>1. CASE Return(h)
    BY <1>1, <1>2, <2>1 DEF CheckOwner
  <2>2. CASE Goto(h, "budget") /\ UNCHANGED local /\ Conv(h) \in OwnedBy(User(h))
    <3>1. conv[Conv(h)].status # Absent
      BY <2>2 DEF OwnedBy, Live, Absent
    <3> QED
      BY <1>2, <2>2, <3>1, GotoKeeps DEF CheckOwner, database, local, HasOwn, After
  <2> QED
    BY <1>2, <2>1, <2>2 DEF CheckOwner
<1>3. CASE CheckBudget(h)
  <2>1. CASE Return(h)
    BY <1>1, <1>3, <2>1 DEF CheckBudget
  <2>2. CASE Goto(h, "insertUser") /\ UNCHANGED local
    BY <1>3, <2>2, GotoKeeps DEF CheckBudget, database, local, HasOwn, After
  <2> QED
    BY <1>3, <2>1, <2>2 DEF CheckBudget
<1>4. CASE InsertUser(h) \/ InsertReply(h)
  BY <1>4, DrawKeeps
<1>5. CASE CommitUser(h) \/ CommitReply(h)
  BY <1>5, CommitKeeps
<1>6. CASE AgentFails(h) \/ Abort(h)
  BY <1>1, <1>6 DEF AgentFails, Abort
<1>7. CASE RecordMark(h)
  BY <1>7, GotoKeeps DEF RecordMark, local, HasOwn, After
<1>8. CASE SendDone(h)
  <2>1. CASE Return(h)
    BY <1>1, <1>8, <2>1 DEF SendDone
  <2>2. CASE Goto(h, "title") /\ UNCHANGED local
    BY <1>8, <2>2, GotoKeeps DEF SendDone, database, local, HasOwn, After
  <2> QED
    BY <1>8, <2>1, <2>2 DEF SendDone
<1> QED
  BY <1>2, <1>3, <1>4, <1>5, <1>6, <1>7, <1>8, ReadSummaryKeeps, ReadHistoryKeeps,
     AgentRepliesKeeps, StoreSummaryKeeps, SetTitleKeeps DEF Send

LEMMA NextKeeps ==
  CommitInOrder /\ ~SummaryFaults /\ ContextInv /\ [Next]_vars => ContextInv'
<1> SUFFICES ASSUME CommitInOrder, ~SummaryFaults, ContextInv, [Next]_vars
             PROVE  ContextInv'
  OBVIOUS
<1>1. TypeOK'
  BY NextType DEF ContextInv
<1>2. ASSUME NEW u \in Users, SignUp(u)
      PROVE  ContextInv'
  BY <1>1, <1>2, OtherKeeps DEF SignUp, local
<1>3. ASSUME NEW u \in Users, DeleteAccount(u)
      PROVE  ContextInv'
  <2>1. OwnedBy(u) \in SUBSET Convs
    BY DEF OwnedBy
  <2> QED
    BY <1>1, <1>3, <2>1, DropKeeps DEF DeleteAccount
<1>4. ASSUME NEW u \in Users, NEW c \in Convs, DeleteConv(u, c)
      PROVE  ContextInv'
  BY <1>1, <1>4, DropKeeps DEF DeleteConv
<1>5. ASSUME NEW u \in Users, NEW c \in Convs, CreateConv(u, c) \/ Rename(u, c)
      PROVE  ContextInv'
  BY <1>1, <1>5, CreateKeeps, RenameKeeps
<1>6. ASSUME NEW s \in Subjects, ExpireMark(s)
      PROVE  ContextInv'
  BY <1>1, <1>6, OtherKeeps DEF ExpireMark, local
<1>7. ASSUME NEW h \in Handlers, NEW u \in Users, NEW c \in Convs,
             Receive(h, u, c)
      PROVE  ContextInv'
  <2>1. /\ pc'[h] = "own" /\ UNCHANGED <<messages, conv, nextId, msg, fold>>
        /\ \A g \in Handlers \ {h} : Untouched(g)
        /\ fold[h].through = 0
    BY <1>7 DEF Receive, Goto, Untouched, database, ContextInv, TypeOK,
                StartedInv, After
  <2>2. HandlerInv(h)' /\ ~Inserting(h)'
    BY <2>1, IdleHolds DEF Inserting
  <2>3. nextId' >= nextId
    BY <2>1, ChatAssumption DEF ContextInv, TypeOK
  <2> QED
    BY <1>1, <2>1, <2>2, <2>3, LocalStep
<1>8. ASSUME NEW h \in Handlers, Disconnect(h)
      PROVE  ContextInv'
  BY <1>1, <1>8, OtherKeeps DEF Disconnect, database
<1>9. CASE UNCHANGED vars
  BY <1>1, <1>9, OtherKeeps DEF vars
<1> QED
  BY <1>1, <1>2, <1>3, <1>4, <1>5, <1>6, <1>7, <1>8, <1>9, SendKeeps DEF Next

LEMMA InitContext == Init => ContextInv
<1> SUFFICES ASSUME Init PROVE ContextInv
  OBVIOUS
<1>1. TypeOK
  BY InitType
<1>2. DrawnInv /\ StartedInv
  BY DEF Init, DrawnInv, StartedInv, Inserting, NoSummary
<1>3. \A c \in Convs : conv[c].status # Live
  BY DEF Init, Absent, Live
<1>4. \A c \in Convs : ConvInv(c)
  BY <1>3 DEF ConvInv
<1>5. \A h \in Handlers : Conv(h) \in Convs
  BY <1>1 DEF TypeOK, Conv
<1>6. \A h \in Handlers : HandlerInv(h)
  BY <1>3, <1>5 DEF HandlerInv
<1> QED
  BY <1>1, <1>2, <1>4, <1>6 DEF ContextInv

\* A row of messages is one of the row ids of its conversation.
LEMMA RowOf ==
  ASSUME TypeOK, NEW m \in messages
  PROVE  m.conv \in Convs /\ m.id \in RowIds(m.conv)
<1>1. m \in [id : Ids, conv : Convs]
  BY DEF TypeOK
<1>2. m = [id |-> m.id, conv |-> m.conv]
  BY <1>1
<1> QED
  BY <1>1, <1>2 DEF RowIds

LEMMA ContextInvariant ==
  CommitInOrder /\ ~SummaryFaults => (Spec => []ContextInv)
<1>1. CASE CommitInOrder /\ ~SummaryFaults
  <2>1. ContextInv /\ [Next]_vars => ContextInv'
    BY <1>1, NextKeeps
  <2> QED
    BY <2>1, InitContext, PTL DEF Spec
<1> QED
  BY <1>1, Zenon

(***************************************************************************)
(* The watermark hides only messages the stored summary stands for, for    *)
(* any number of concurrent sends, if the inserts of a conversation commit *)
(* in the order of their ids and no run goes on folding after a failed     *)
(* summarization.                                                          *)
(***************************************************************************)
THEOREM WatermarkSound ==
  CommitInOrder /\ ~SummaryFaults => (Spec => []WatermarkCovered)
<1>1. ContextInv => WatermarkCovered
  BY RowOf DEF ContextInv, ConvInv, Sound, WatermarkCovered
<1> QED
  BY <1>1, ContextInvariant, PTL

(***************************************************************************)
(* Every run is sent the whole of its conversation up to the caller's own  *)
(* message, as a summary or as rows, under the same conditions and when    *)
(* the history is read to its end.                                         *)
(***************************************************************************)
THEOREM ContextSound ==
  CommitInOrder /\ ~SummaryFaults /\ ~DBFaults => (Spec => []ContextComplete)
<1>1. CASE CommitInOrder /\ ~SummaryFaults /\ ~DBFaults
  <2>1. ContextInv /\ NoOrphans => ContextComplete
    <3> SUFFICES ASSUME ContextInv, NoOrphans,
                        NEW h \in Handlers, pc[h] = "stream",
                        NEW m \in messages, m.conv = Conv(h), m.id <= msg[h]
                 PROVE  m.id \in ctx[h].summary.covers \cup ctx[h].tail
      BY DEF ContextComplete
    <3>1. m.id \in RowIds(Conv(h)) /\ conv[Conv(h)].status = Live
      BY RowOf DEF ContextInv, NoOrphans
    <3> QED
      BY <1>1, <3>1 DEF ContextInv, HandlerInv, HasTail
  <2> QED
    BY <1>1, <2>1, ContextInvariant, OrphanFree, PTL
<1> QED
  BY <1>1, Zenon
=============================================================================
