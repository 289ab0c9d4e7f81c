------------------------ MODULE ConversationListProofs ------------------------
(***************************************************************************)
(* Theorems about the list of conversations, for any number of             *)
(* conversations, titles and requests: what is shown ends up as what is    *)
(* stored, editors open with the title that is shown, nothing is left      *)
(* waiting for an answer that has come, and nobody is left on the page of  *)
(* a conversation they deleted.                                            *)
(***************************************************************************)
EXTENDS ConversationList, TLAPS

-----------------------------------------------------------------------------
(* Types. *)

\* A change is of a conversation, and so is a creation the api has made.
CallsNamed ==
  \A k \in DOMAIN call :
    call[k].kind \in {"rename", "remove"} \/ (call[k].kind = "create" /\ call[k].at = "made")
    => call[k].conv \in Convs

Typed == TypeOK /\ CallsNamed

\* Two requests that differ at most in what an answer or a menu changes.
Alike(r, s) ==
  /\ r.kind = s.kind /\ r.conv = s.conv /\ r.title = s.title /\ r.was = s.was
  /\ r.open = s.open

LEMMA CallRange ==
  ASSUME TypeOK
  PROVE  /\ Len(call) \in Nat /\ DOMAIN call = 1 .. Len(call)
         /\ \A k \in DOMAIN call : call[k] \in Call
BY DEF TypeOK

LEMMA Names ==
  /\ Unborn \in Rows /\ Gone \in Rows /\ Untitled \in Named /\ FirstWords \in Named
  /\ Unborn \notin Named /\ Gone \notin Named /\ Unborn # Gone
  /\ \A t \in Titles : t \in Named
  /\ \A r \in Named : r \in Rows
BY ConversationListAssumption DEF Rows, Named, Unborn, Gone

LEMMA DoneIsCall == Done \in Call /\ Done.kind = "done"
BY Names DEF Done, Call

LEMMA EntryType ==
  ASSUME NEW r \in Rows
  PROVE  /\ Entry(r) \in Seq(Named)
         /\ Entry(r) # <<>> <=> Stored(r)
         /\ Stored(r) => Entry(r)[1] = r
BY DEF Entry, Stored, Rows

LEMMA RetitledType ==
  ASSUME TypeOK, NEW c \in Convs, NEW t \in Named
  PROVE  /\ Retitled(c, t) \in [Convs -> Seq(Named)]
         /\ \A d \in Convs : Retitled(c, t)[d] = <<>> <=> shown[d] = <<>>
<1>1. shown[c] \in Seq(Named)
  BY DEF TypeOK
<1>2. PICK s : s = [i \in DOMAIN shown[c] |-> t]
  OBVIOUS
<1>3. DOMAIN shown[c] = 1 .. Len(shown[c]) /\ Len(shown[c]) \in Nat
  BY <1>1
<1>4. s \in Seq(Named) /\ Len(s) = Len(shown[c])
  BY <1>2, <1>3
<1>5. s = <<>> <=> shown[c] = <<>>
  BY <1>1, <1>4
<1>6. Retitled(c, t) = [shown EXCEPT ![c] = s]
  BY <1>2 DEF Retitled
<1> QED
  BY <1>4, <1>5, <1>6 DEF TypeOK

LEMMA AskCall ==
  ASSUME Typed, NEW kind \in {"create", "rename", "remove"}, NEW c \in Convs \cup {NoConv},
         NEW t \in Named, NEW was \in Named, Ask(kind, c, t, was),
         kind # "create" => c \in Convs
  PROVE  /\ call' \in Seq(Call) /\ Len(call') = Len(call) + 1 /\ Len(call') <= MaxCalls
         /\ DOMAIN call' = DOMAIN call \cup {Len(call')}
         /\ \A k \in DOMAIN call : call'[k] = call[k]
         /\ call'[Len(call')].kind = kind /\ call'[Len(call')].conv = c
         /\ call'[Len(call')].at = "sent"
         /\ call'[Len(call')].open = (kind = "remove" /\ page = c)
         /\ call'[Len(call')].here = (kind = "remove")
         /\ CallsNamed'
<1>1. PICK r : r = [kind |-> kind, conv |-> c, title |-> t, was |-> was,
                    open |-> kind = "remove" /\ page = c, here |-> kind = "remove",
                    at |-> "sent"]
  OBVIOUS
<1>2. (kind = "remove" /\ page = c) \in BOOLEAN /\ (kind = "remove") \in BOOLEAN
  OBVIOUS
<1>3. \A b, h \in BOOLEAN :
        [kind |-> kind, conv |-> c, title |-> t, was |-> was, open |-> b, here |-> h,
         at |-> "sent"] \in Call
  BY DEF Call
<1>4. r \in Call
  BY <1>1, <1>2, <1>3, Zenon
<1>5. /\ r.kind = kind /\ r.conv = c /\ r.at = "sent"
      /\ r.open = (kind = "remove" /\ page = c) /\ r.here = (kind = "remove")
  BY <1>1, Zenon
<1>6. call' = Append(call, r) /\ Len(call) < MaxCalls
  BY <1>1, Zenon DEF Ask
<1>7. call \in Seq(Call) /\ Len(call) \in Nat /\ MaxCalls \in Nat
  BY ConversationListAssumption DEF Typed, TypeOK
<1>8. /\ call' \in Seq(Call) /\ Len(call') = Len(call) + 1 /\ Len(call') <= MaxCalls
      /\ DOMAIN call' = 1 .. Len(call') /\ DOMAIN call = 1 .. Len(call)
      /\ \A k \in 1 .. Len(call) : call'[k] = call[k]
      /\ call'[Len(call) + 1] = r
  BY <1>4, <1>6, <1>7
<1>9. DOMAIN call' = DOMAIN call \cup {Len(call')}
  BY <1>7, <1>8
<1>10. CallsNamed'
  BY <1>5, <1>8, <1>9, Zenon DEF CallsNamed, Typed
<1> QED
  BY <1>5, <1>8, <1>9, <1>10
LEMMA InitTyped == Init => Typed
<1> SUFFICES ASSUME Init PROVE Typed
  OBVIOUS
<1>1. row \in [Convs -> Rows]
  BY Names DEF Init
<1>2. load \in [at : {"sent", "read", "listed", "failed"}, rows : [Convs -> Rows]]
  BY Names DEF Init, NoRows
<1>3. shown \in [Convs -> Seq(Named)]
  BY DEF Init
<1>4. draft \in [Convs -> Named]
  BY Names DEF Init
<1>5. call \in Seq(Call) /\ Len(call) = 0 /\ DOMAIN call = {} /\ Len(call) <= MaxCalls
  BY ConversationListAssumption DEF Init
<1>6. run \in [Convs -> {"none", "running", "named", "over"}]
  BY DEF Init
<1>7. page \in Pages /\ ui \in Fronts \cup {NoUi} /\ busy \in {0} \cup DOMAIN call
  BY DEF Init, Pages
<1>8. odd \in [Convs -> SUBSET {"mixed", "early", "lost", "visited", "left"}]
  BY DEF Init
<1> QED
  BY <1>1, <1>2, <1>3, <1>4, <1>5, <1>6, <1>7, <1>8 DEF Typed, TypeOK, CallsNamed

\* The requests a menu that closes is no longer open for.
LEMMA Unwatched ==
  ASSUME Typed, NEW c \in Convs,
         call' = [k \in DOMAIN call |-> IF call[k].conv = c
                                          THEN [call[k] EXCEPT !.here = FALSE] ELSE call[k]]
  PROVE  /\ call' \in Seq(Call) /\ Len(call') = Len(call) /\ DOMAIN call' = DOMAIN call
         /\ \A k \in DOMAIN call : Alike(call'[k], call[k]) /\ call'[k].at = call[k].at
         /\ \A k \in DOMAIN call : call[k].conv # c => call'[k] = call[k]
         /\ CallsNamed'
<1>1. /\ Len(call) \in Nat /\ DOMAIN call = 1 .. Len(call)
      /\ \A k \in DOMAIN call : call[k] \in Call
  BY CallRange DEF Typed
<1>2. \A r \in Call : /\ [r EXCEPT !.here = FALSE] \in Call
                      /\ Alike([r EXCEPT !.here = FALSE], r)
                      /\ [r EXCEPT !.here = FALSE].at = r.at
  BY DEF Call, Alike
<1>3. \A k \in DOMAIN call : call'[k] = call[k] \/ call'[k] = [call[k] EXCEPT !.here = FALSE]
  OBVIOUS
<1>4. \A k \in DOMAIN call : call'[k] \in Call /\ Alike(call'[k], call[k])
                             /\ call'[k].at = call[k].at
  <2>1. \A r \in Call : Alike(r, r)
    BY DEF Alike
  <2> QED
    BY <1>1, <1>2, <1>3, <2>1, Zenon
<1>5. call' \in Seq(Call) /\ Len(call') = Len(call) /\ DOMAIN call' = DOMAIN call
  BY <1>1, <1>4
<1>6. CallsNamed'
  BY <1>4, <1>5 DEF Typed, CallsNamed, Alike
<1> QED
  BY <1>4, <1>5, <1>6

\* A request the api has carried out.
LEMMA MakingCall ==
  ASSUME Typed, NEW k \in DOMAIN call, call' = Making(k), call[k].kind \in {"rename", "remove"}
  PROVE  /\ call' \in Seq(Call) /\ Len(call') = Len(call) /\ DOMAIN call' = DOMAIN call
         /\ call'[k].at = "made" /\ Alike(call'[k], call[k]) /\ call'[k].here = call[k].here
         /\ \A j \in DOMAIN call \ {k} : call'[j] = call[j]
         /\ CallsNamed'
<1>1. /\ Len(call) \in Nat /\ DOMAIN call = 1 .. Len(call)
      /\ \A j \in DOMAIN call : call[j] \in Call
  BY CallRange DEF Typed
<1>2. PICK w : w = [call[k] EXCEPT !.at = "made"]
  OBVIOUS
<1>3. w \in Call /\ w.at = "made" /\ Alike(w, call[k]) /\ w.here = call[k].here
  BY <1>1, <1>2 DEF Call, Alike
<1>4. call' = [call EXCEPT ![k] = w]
  BY <1>2, Zenon DEF Making
<1>5. call' \in Seq(Call) /\ Len(call') = Len(call) /\ DOMAIN call' = DOMAIN call
  BY <1>1, <1>3, <1>4 DEF Typed, TypeOK
<1>6. call'[k] = w /\ \A j \in DOMAIN call \ {k} : call'[j] = call[j]
  BY <1>4, <1>5
<1>7. CallsNamed'
  BY <1>3, <1>5, <1>6 DEF Typed, CallsNamed, Alike
<1> QED
  BY <1>3, <1>5, <1>6, <1>7

\* A request that is over.
LEMMA OverCall ==
  ASSUME Typed, NEW k \in DOMAIN call, call' = Over(k)
  PROVE  /\ call' \in Seq(Call) /\ Len(call') = Len(call) /\ DOMAIN call' = DOMAIN call
         /\ call'[k].kind = "done"
         /\ \A j \in DOMAIN call \ {k} : call'[j] = call[j]
         /\ CallsNamed'
<1>1. Len(call) \in Nat /\ DOMAIN call = 1 .. Len(call) /\ call \in Seq(Call)
  BY CallRange DEF Typed, TypeOK
<1>2. PICK w : w = Done
  OBVIOUS
<1>3. w \in Call /\ w.kind = "done"
  BY <1>2, DoneIsCall
<1>4. call' = [call EXCEPT ![k] = w]
  BY <1>2 DEF Over
<1>5. call' \in Seq(Call) /\ Len(call') = Len(call) /\ DOMAIN call' = DOMAIN call
  BY <1>1, <1>3, <1>4
<1>6. call'[k] = w /\ \A j \in DOMAIN call \ {k} : call'[j] = call[j]
  BY <1>4, <1>5
<1>7. CallsNamed'
  BY <1>3, <1>5, <1>6 DEF Typed, CallsNamed
<1> QED
  BY <1>3, <1>5, <1>6, <1>7

\* A conversation the api has created.
LEMMA CreateCall ==
  ASSUME Typed, NEW k \in DOMAIN call, NEW c \in Convs, Create(k, c)
  PROVE  /\ call' \in Seq(Call) /\ Len(call') = Len(call) /\ DOMAIN call' = DOMAIN call
         /\ call'[k].at = "made" /\ call'[k].kind = "create" /\ call'[k].conv = c
         /\ \A j \in DOMAIN call \ {k} : call'[j] = call[j]
         /\ CallsNamed'
<1>1. /\ Len(call) \in Nat /\ DOMAIN call = 1 .. Len(call)
      /\ \A j \in DOMAIN call : call[j] \in Call
  BY CallRange DEF Typed
<1>2. PICK v : v = [call[k] EXCEPT !.at = "made"]
  OBVIOUS
<1>3. PICK w : w = [v EXCEPT !.conv = c]
  OBVIOUS
<1>4. w \in Call /\ w.at = "made" /\ w.kind = "create" /\ w.conv = c
  BY <1>1, <1>2, <1>3 DEF Call, Create
<1>5. PICK m : m = [call EXCEPT ![k] = v]
  OBVIOUS
<1>6. m = Making(k)
  BY <1>2, <1>5, Zenon DEF Making
<1>7. m[k] = v /\ DOMAIN m = DOMAIN call /\ \A j \in DOMAIN call \ {k} : m[j] = call[j]
  BY <1>5
<1>8. call' = [m EXCEPT ![k].conv = c]
  BY <1>6, Zenon DEF Create
<1>9. call' = [m EXCEPT ![k] = w]
  BY <1>3, <1>7, <1>8, Zenon
<1>10. DOMAIN call' = DOMAIN call /\ call'[k] = w /\ \A j \in DOMAIN call \ {k} : call'[j] = call[j]
  BY <1>7, <1>9
<1>11. call' \in Seq(Call) /\ Len(call') = Len(call)
  <2>1. call' = [j \in 1 .. Len(call) |-> call'[j]]
    BY <1>1, <1>7, <1>9
  <2>2. \A j \in 1 .. Len(call) : call'[j] \in Call
    BY <1>1, <1>4, <1>10
  <2> QED
    BY <1>1, <2>1, <2>2
<1>12. CallsNamed'
  BY <1>4, <1>10 DEF Typed, CallsNamed
<1> QED
  BY <1>4, <1>10, <1>11, <1>12

\* A menu or an editor is that of an entry.
LEMMA OnEntry ==
  ASSUME Typed, NothingLeftWaiting, NEW c \in Convs, Editing(c) \/ InMenu(c)
  PROVE  /\ load.at = "listed" /\ shown[c] # <<>> /\ Title(c) \in Named
         /\ ui[1] = c
<1>1. ui[1] = c
  BY DEF Editing, InMenu
<1>2. load.at = "listed" /\ shown[c] # <<>>
  BY <1>1 DEF NothingLeftWaiting, Mounted
<1>3. shown[c] \in Seq(Named)
  BY DEF Typed, TypeOK
<1> QED
  BY <1>1, <1>2, <1>3 DEF Title

LEMMA UserTyped == Typed /\ NothingLeftWaiting /\ User => Typed'
<1> SUFFICES ASSUME Typed, NothingLeftWaiting, User PROVE Typed'
  OBVIOUS
<1>1. CASE SendNew
  <2>1. Ask("create", NoConv, Untitled, Untitled)
    BY <1>1 DEF SendNew
  <2>2. /\ call' \in Seq(Call) /\ Len(call') <= MaxCalls /\ CallsNamed'
        /\ DOMAIN call' = DOMAIN call \cup {Len(call')}
    BY <2>1, Names, AskCall
  <2> QED
    BY <1>1, <2>2 DEF SendNew, Typed, TypeOK
<1>2. ASSUME NEW c \in Convs, OpenMenu(c)
      PROVE  Typed'
  BY <1>2 DEF OpenMenu, Typed, TypeOK, CallsNamed, Fronts
<1>3. ASSUME NEW c \in Convs, Dismiss(c)
      PROVE  Typed'
  <2>1. call' \in Seq(Call) /\ Len(call') = Len(call) /\ DOMAIN call' = DOMAIN call /\ CallsNamed'
    BY <1>3, Unwatched DEF Dismiss
  <2> QED
    BY <1>3, <2>1 DEF Dismiss, Typed, TypeOK
<1>4. ASSUME NEW c \in Convs, ChooseRename(c)
      PROVE  Typed'
  <2>1. call' \in Seq(Call) /\ Len(call') = Len(call) /\ DOMAIN call' = DOMAIN call /\ CallsNamed'
    BY <1>4, Unwatched DEF ChooseRename
  <2> QED
    BY <1>4, <2>1 DEF ChooseRename, Typed, TypeOK, Fronts
<1>5. ASSUME NEW c \in Convs, ChooseDelete(c) \/ CancelDelete(c)
      PROVE  Typed'
  BY <1>5 DEF ChooseDelete, CancelDelete, Typed, TypeOK, CallsNamed, Fronts
<1>6. ASSUME NEW c \in Convs, ConfirmDelete(c)
      PROVE  Typed'
  <2>1. Ask("remove", c, Untitled, Untitled)
    BY <1>6 DEF ConfirmDelete
  <2>2. /\ call' \in Seq(Call) /\ Len(call') <= MaxCalls /\ CallsNamed'
        /\ DOMAIN call' = DOMAIN call \cup {Len(call')}
    BY <2>1, Names, AskCall
  <2> QED
    BY <1>6, <2>2 DEF ConfirmDelete, Typed, TypeOK, Fronts
<1>7. ASSUME NEW c \in Convs, NEW t \in Named, Type(c, t)
      PROVE  Typed'
  BY <1>7 DEF Type, Typed, TypeOK, CallsNamed
<1>8. ASSUME NEW c \in Convs, NEW t \in Named, SaveRename(c, t)
      PROVE  Typed'
  <2>1. PICK w \in Named : w = Title(c)
    BY <1>8, OnEntry DEF SaveRename
  <2>2. Ask("rename", c, t, w)
    BY <1>8, <2>1 DEF SaveRename
  <2>3. /\ call' \in Seq(Call) /\ Len(call') <= MaxCalls /\ CallsNamed'
        /\ DOMAIN call' = DOMAIN call \cup {Len(call')}
    BY <2>2, AskCall
  <2> QED
    BY <1>8, <2>3 DEF SaveRename, Again, Typed, TypeOK, Fronts
<1>9. ASSUME NEW c \in Convs, NEW t \in Named, SaveNothing(c, t)
      PROVE  Typed'
  BY <1>9 DEF SaveNothing, Again, Typed, TypeOK, CallsNamed
<1>10. ASSUME NEW c \in Convs, CancelEdit(c)
       PROVE  Typed'
  <2>1. Title(c) \in Named
    BY <1>10, OnEntry DEF CancelEdit
  <2> QED
    BY <1>10, <2>1 DEF CancelEdit, Again, Typed, TypeOK, CallsNamed
<1>11. ASSUME NEW c \in Convs, SendFirst(c)
       PROVE  Typed'
  BY <1>11 DEF SendFirst, Typed, TypeOK, CallsNamed
<1>12. ASSUME NEW p \in Pages, Visit(p)
       PROVE  Typed'
  BY <1>12 DEF Visit, Typed, TypeOK, CallsNamed
<1> QED
  BY <1>1, <1>2, <1>3, <1>4, <1>5, <1>6, <1>7, <1>8, <1>9, <1>10, <1>11, <1>12 DEF User

LEMMA ApiTyped == Typed /\ Api => Typed'
<1> SUFFICES ASSUME Typed, Api PROVE Typed'
  OBVIOUS
<1>1. CASE ListRead
  BY <1>1 DEF ListRead, Typed, TypeOK, CallsNamed
<1>2. ASSUME NEW k \in DOMAIN call, NEW c \in Convs, Create(k, c)
      PROVE  Typed'
  <2>1. /\ call' \in Seq(Call) /\ Len(call') = Len(call) /\ DOMAIN call' = DOMAIN call
        /\ CallsNamed'
    BY <1>2, CreateCall
  <2> QED
    BY <1>2, <2>1, Names DEF Create, Typed, TypeOK
<1>3. ASSUME NEW k \in DOMAIN call, Rename(k) \/ Delete(k)
      PROVE  Typed'
  <2>1. call' = Making(k) /\ call[k].kind \in {"rename", "remove"}
    BY <1>3 DEF Rename, Delete
  <2>2. /\ call' \in Seq(Call) /\ Len(call') = Len(call) /\ DOMAIN call' = DOMAIN call
        /\ CallsNamed'
    BY <2>1, MakingCall
  <2>3. PICK c \in Convs : c = call[k].conv
    BY <2>1 DEF Typed, CallsNamed
  <2>4. call[k].title \in Rows
    BY CallRange, Names DEF Typed, Call
  <2>5. row' \in [Convs -> Rows]
    BY <1>3, <2>3, <2>4, Names DEF Rename, Delete, Typed, TypeOK
  <2>6. odd' \in [Convs -> SUBSET {"mixed", "early", "lost", "visited", "left"}]
    <3>1. odd[c] \in SUBSET {"mixed", "early", "lost", "visited", "left"}
      BY DEF Typed, TypeOK
    <3>2. Crossing(c, k) \in SUBSET {"mixed", "early", "lost", "visited", "left"}
      BY <3>1 DEF Crossing
    <3>3. odd' = odd \/ odd' = [odd EXCEPT ![c] = Crossing(c, k)]
      BY <1>3, <2>3, Zenon DEF Rename, Delete
    <3> QED
      BY <3>2, <3>3 DEF Typed, TypeOK
  <2> QED
    BY <1>3, <2>2, <2>5, <2>6 DEF Rename, Delete, Typed, TypeOK
<1>4. ASSUME NEW c \in Convs, SetTitle(c)
      PROVE  Typed'
  <2>1. row' \in [Convs -> Rows]
    BY <1>4, Names DEF SetTitle, Typed, TypeOK
  <2>2. odd' \in [Convs -> SUBSET {"mixed", "early", "lost", "visited", "left"}]
    BY <1>4 DEF SetTitle, Crossing, Typed, TypeOK
  <2> QED
    BY <1>4, <2>1, <2>2 DEF SetTitle, Typed, TypeOK, CallsNamed
<1>5. ASSUME NEW c \in Convs, RunEnds(c)
      PROVE  Typed'
  BY <1>5 DEF RunEnds, Typed, TypeOK, CallsNamed
<1> QED
  BY <1>1, <1>2, <1>3, <1>4, <1>5 DEF Api
LEMMA AnswersTyped == Typed /\ NothingLeftWaiting /\ Answers => Typed'
<1> SUFFICES ASSUME Typed, NothingLeftWaiting, Answers PROVE Typed'
  OBVIOUS
<1> DEFINE Odds == {"mixed", "early", "lost", "visited", "left"}
<1>1. CASE Listed
  <2>1. \A c \in Convs : ListedAs(c) \in Seq(Named)
    BY EntryType DEF ListedAs, Typed, TypeOK
  <2>2. shown' \in [Convs -> Seq(Named)]
    BY <1>1, <2>1 DEF Listed
  <2>3. draft' \in [Convs -> Named]
    BY <1>1, <2>2, Names DEF Listed
  <2>4. load' \in [at : {"sent", "read", "listed", "failed"}, rows : [Convs -> Rows]]
    BY <1>1, Names DEF Listed, NoRows
  <2>5. odd' \in [Convs -> SUBSET Odds]
    BY <1>1 DEF Listed, Typed, TypeOK
  <2> QED
    BY <1>1, <2>2, <2>3, <2>4, <2>5 DEF Listed, Typed, TypeOK, CallsNamed
<1>2. CASE ListFails
  BY <1>2, Names DEF ListFails, NoRows, Typed, TypeOK, CallsNamed
<1>3. ASSUME NEW k \in DOMAIN call, Created(k)
      PROVE  Typed'
  <2>1. PICK c \in Convs : c = call[k].conv
    BY <1>3 DEF Created, Typed, CallsNamed
  <2>2. /\ call' \in Seq(Call) /\ Len(call') = Len(call) /\ DOMAIN call' = DOMAIN call
        /\ CallsNamed'
    BY <1>3, OverCall DEF Created
  <2>3. shown' \in [Convs -> Seq(Named)]
    <3>1. PICK s : s = <<Untitled>> \o shown[c]
      OBVIOUS
    <3>2. s \in Seq(Named)
      BY <3>1, Names DEF Typed, TypeOK
    <3>3. shown' = [shown EXCEPT ![c] = s]
      BY <1>3, <2>1, <3>1, Zenon DEF Created
    <3> QED
      BY <3>2, <3>3 DEF Typed, TypeOK
  <2>4. draft' \in [Convs -> Named]
    BY <1>3, <2>1, Names DEF Created, Typed, TypeOK
  <2>5. run' \in [Convs -> {"none", "running", "named", "over"}]
    BY <1>3, <2>1 DEF Created, Typed, TypeOK
  <2>6. odd' \in [Convs -> SUBSET Odds]
    BY <1>3, <2>1 DEF Created, Overtaken, Typed, TypeOK
  <2>7. page' \in Pages /\ busy' = 0
    BY <1>3, <2>1 DEF Created, Pages
  <2> QED
    BY <1>3, <2>2, <2>3, <2>4, <2>5, <2>6, <2>7 DEF Created, Typed, TypeOK
<1>4. ASSUME NEW k \in DOMAIN call, Renamed(k)
      PROVE  Typed'
  <2>1. PICK c \in Convs : c = call[k].conv
    BY <1>4 DEF Renamed, Typed, CallsNamed
  <2>2. /\ call' \in Seq(Call) /\ Len(call') = Len(call) /\ DOMAIN call' = DOMAIN call
        /\ CallsNamed'
    BY <1>4, OverCall DEF Renamed
  <2>3. call[k].title \in Named
    BY CallRange DEF Typed, Call
  <2>4. shown' \in [Convs -> Seq(Named)]
    BY <1>4, <2>1, <2>3, RetitledType DEF Renamed, Typed
  <2>5. odd' \in [Convs -> SUBSET Odds]
    BY <1>4, <2>1 DEF Renamed, Overtaken, Typed, TypeOK
  <2>6. ui' \in Fronts \cup {NoUi}
    BY <1>4 DEF Renamed, Typed, TypeOK
  <2> QED
    BY <1>4, <2>2, <2>4, <2>5, <2>6 DEF Renamed, Typed, TypeOK
<1>5. ASSUME NEW k \in DOMAIN call, Removed(k)
      PROVE  Typed'
  <2>1. PICK c \in Convs : c = call[k].conv
    BY <1>5 DEF Removed, Typed, CallsNamed
  <2>2. /\ call' \in Seq(Call) /\ Len(call') = Len(call) /\ DOMAIN call' = DOMAIN call
        /\ CallsNamed'
    BY <1>5, OverCall DEF Removed
  <2>3. shown' \in [Convs -> Seq(Named)] /\ draft' \in [Convs -> Named]
    BY <1>5, <2>1, Names DEF Removed, Typed, TypeOK
  <2>4. odd' \in [Convs -> SUBSET Odds]
    BY <1>5, <2>1 DEF Removed, Overtaken, Typed, TypeOK
  <2>5. ui' \in Fronts \cup {NoUi} /\ page' \in Pages
    BY <1>5 DEF Removed, PageAfterRemoval, Pages, Typed, TypeOK
  <2> QED
    BY <1>5, <2>2, <2>3, <2>4, <2>5 DEF Removed, Typed, TypeOK
<1>6. ASSUME NEW k \in DOMAIN call, Fails(k)
      PROVE  Typed'
  <2>1. /\ call' \in Seq(Call) /\ Len(call') = Len(call) /\ DOMAIN call' = DOMAIN call
        /\ CallsNamed'
    BY <1>6, OverCall DEF Fails
  <2>2. draft' \in [Convs -> Named]
    <3>1. call[k].was \in Named
      BY CallRange DEF Typed, Call
    <3> QED
      BY <1>6, <3>1 DEF Fails, DraftAfterFailure, Typed, TypeOK
  <2>3. ui' \in Fronts \cup {NoUi}
    <3>1. PICK c : c = call[k].conv
      OBVIOUS
    <3>2. call[k].kind = "remove" => c \in Convs
      BY <3>1 DEF Typed, CallsNamed
    <3> QED
      BY <1>6, <3>1, <3>2 DEF Fails, FrontAfterFailure, Fronts, Typed, TypeOK
  <2>4. odd' \in [Convs -> SUBSET Odds]
    BY <1>6 DEF Fails, Typed, TypeOK
  <2>5. busy' \in {0} \cup DOMAIN call'
    BY <1>6, <2>1 DEF Fails, Waiting, Typed, TypeOK
  <2> QED
    BY <1>6, <2>1, <2>2, <2>3, <2>4, <2>5 DEF Fails, Typed, TypeOK
<1>7. ASSUME NEW c \in Convs, Patched(c)
      PROVE  Typed'
  <2>1. shown' \in [Convs -> Seq(Named)]
    BY <1>7, Names, RetitledType DEF Patched, Typed, TypeOK
  <2>2. odd' \in [Convs -> SUBSET Odds]
    <3>1. odd[c] \in SUBSET Odds
      BY DEF Typed, TypeOK
    <3>2. odd[c] \cup {"left"} \cup Overtaken(c, {FirstWords}) \in SUBSET Odds
      BY <3>1 DEF Overtaken
    <3>3. odd[c] \cup {"lost"} \in SUBSET Odds
      BY <3>1
    <3>4. \/ odd' = [odd EXCEPT ![c] = odd[c] \cup {"left"} \cup Overtaken(c, {FirstWords})]
          \/ odd' = [odd EXCEPT ![c] = odd[c] \cup {"lost"}]
      BY <1>7, Zenon DEF Patched
    <3>5. PICK w \in SUBSET Odds : odd' = [odd EXCEPT ![c] = w]
      BY <3>2, <3>3, <3>4, Zenon
    <3> QED
      BY <3>5 DEF Typed, TypeOK
  <2> QED
    BY <1>7, <2>1, <2>2 DEF Patched, Typed, TypeOK, CallsNamed
<1> QED
  BY <1>1, <1>2, <1>3, <1>4, <1>5, <1>6, <1>7 DEF Answers

LEMMA StepTyped == Typed /\ NothingLeftWaiting /\ [Next]_vars => Typed'
<1>1. UNCHANGED vars /\ Typed => Typed'
  BY DEF vars, Typed, TypeOK, CallsNamed
<1> QED
  BY <1>1, UserTyped, ApiTyped, AnswersTyped DEF Next
-----------------------------------------------------------------------------
(* Nothing is left waiting. *)

\* What the open menu or editor of c waits for, and the page for a new
\* conversation.
OnUi(c) ==
  /\ ui = <<c, "asked">> => \E k \in DOMAIN call : /\ call[k].kind = "remove"
                                                   /\ call[k].conv = c /\ call[k].here
  /\ ui = <<c, "saving">> => Renaming(c) # {}
  /\ ui[1] = c => Mounted(c)

OnBusy == busy # 0 => page = Home /\ call[busy].kind = "create"

LEMMA WaitingParts == NothingLeftWaiting <=> (\A c \in Convs : OnUi(c)) /\ OnBusy
BY DEF NothingLeftWaiting, OnUi, OnBusy

\* Nothing waits at a menu or an editor that is closed.
LEMMA Closed ==
  ASSUME ui' = NoUi, NEW c \in Convs
  PROVE  OnUi(c)'
<1>1. NoUi[1] = NoConv /\ NoConv # c
  BY ConversationListAssumption DEF NoUi
<1> QED
  BY <1>1 DEF OnUi, NoUi

\* What stays open waits for a request that is still under way.
LEMMA StaysOpen ==
  ASSUME Typed, NothingLeftWaiting, ui' = ui, NEW c \in Convs,
         ui[1] = c => Mounted(c)',
         \A k \in DOMAIN call :
           /\ call[k].conv = c /\ call[k].kind \in {"rename", "remove"}
           /\ ui \in {<<c, "asked">>, <<c, "saving">>}
           => /\ k \in DOMAIN call' /\ call'[k].kind = call[k].kind
              /\ call'[k].conv = c /\ call'[k].here = call[k].here
  PROVE  OnUi(c)'
<1>1. OnUi(c)
  BY WaitingParts
<1>2. ASSUME ui' = <<c, "asked">>
      PROVE  \E k \in DOMAIN call' : call'[k].kind = "remove" /\ call'[k].conv = c /\ call'[k].here
  BY <1>1, <1>2 DEF OnUi
<1>3. ASSUME ui' = <<c, "saving">>
      PROVE  Renaming(c)' # {}
  BY <1>1, <1>3 DEF OnUi, Renaming
<1> QED
  BY <1>2, <1>3 DEF OnUi

\* The same, for a step that changes neither menus nor requests.
LEMMA Untouched ==
  ASSUME Typed, NothingLeftWaiting, UNCHANGED <<ui, load, page, busy>>,
         \A c \in Convs : shown[c] # <<>> => shown'[c] # <<>>,
         DOMAIN call' = DOMAIN call,
         \A k \in DOMAIN call :
           /\ call'[k].kind = call[k].kind /\ call'[k].here = call[k].here
           /\ call[k].kind \in {"rename", "remove"} => call'[k].conv = call[k].conv
  PROVE  NothingLeftWaiting'
<1>1. ASSUME NEW c \in Convs
      PROVE  OnUi(c)'
  <2>1. ui[1] = c => Mounted(c)'
    BY WaitingParts DEF OnUi, Mounted
  <2> QED
    BY <2>1, StaysOpen
<1>2. OnBusy'
  <2>1. OnBusy /\ busy \in {0} \cup DOMAIN call
    BY WaitingParts DEF Typed, TypeOK
  <2> QED
    BY <2>1 DEF OnBusy
<1> QED
  BY <1>1, <1>2 DEF NothingLeftWaiting, OnUi, OnBusy

LEMMA UserWaits == Typed /\ NothingLeftWaiting /\ User => NothingLeftWaiting'
<1> SUFFICES ASSUME Typed, NothingLeftWaiting, User PROVE NothingLeftWaiting'
  OBVIOUS
<1>a. (\A c \in Convs : OnUi(c)') /\ OnBusy' => NothingLeftWaiting'
  BY DEF NothingLeftWaiting, OnUi, OnBusy
<1>b. (\A c \in Convs : OnUi(c)) /\ OnBusy /\ busy \in {0} \cup DOMAIN call
  BY WaitingParts DEF Typed, TypeOK
<1>c. UNCHANGED <<page, busy, call>> => OnBusy'
  BY <1>b DEF OnBusy
<1>1. CASE SendNew
  <2>1. Ask("create", NoConv, Untitled, Untitled)
    BY <1>1 DEF SendNew
  <2>2. /\ DOMAIN call' = DOMAIN call \cup {Len(call')}
        /\ \A k \in DOMAIN call : call'[k] = call[k]
        /\ call'[Len(call')].kind = "create"
    BY <2>1, Names, AskCall
  <2>3. OnBusy'
    BY <1>1, <2>2 DEF SendNew, OnBusy
  <2>4. ASSUME NEW c \in Convs
        PROVE  OnUi(c)'
    <3>1. ui' = ui /\ load' = load /\ shown' = shown
      BY <1>1 DEF SendNew
    <3>2. ui[1] = c => Mounted(c)'
      BY <1>b, <3>1 DEF OnUi, Mounted
    <3> QED
      BY <2>2, <3>1, <3>2, StaysOpen
  <2> QED
    BY <1>a, <2>3, <2>4
<1>2. ASSUME NEW c \in Convs, OpenMenu(c)
      PROVE  NothingLeftWaiting'
  <2>1. \A d \in Convs : OnUi(d)'
    BY <1>2 DEF OpenMenu, OnUi, Mounted
  <2> QED
    BY <1>2, <1>c, <2>1, <1>a DEF OpenMenu
<1>3. ASSUME NEW c \in Convs, Dismiss(c)
      PROVE  NothingLeftWaiting'
  <2>1. /\ DOMAIN call' = DOMAIN call
        /\ \A k \in DOMAIN call : Alike(call'[k], call[k])
    BY <1>3, Unwatched DEF Dismiss
  <2>2. OnBusy'
    BY <1>3, <1>b, <2>1 DEF Dismiss, OnBusy, Alike
  <2> QED
    BY <1>3, <1>a, <2>2, Closed DEF Dismiss
<1>4. ASSUME NEW c \in Convs, ChooseRename(c)
      PROVE  NothingLeftWaiting'
  <2>1. /\ DOMAIN call' = DOMAIN call
        /\ \A k \in DOMAIN call : Alike(call'[k], call[k])
    BY <1>4, Unwatched DEF ChooseRename
  <2>2. OnBusy'
    BY <1>4, <1>b, <2>1 DEF ChooseRename, OnBusy, Alike
  <2>3. \A d \in Convs : OnUi(d)'
    BY <1>4, <1>b DEF ChooseRename, OnUi, Mounted
  <2> QED
    BY <1>a, <2>2, <2>3
<1>5. ASSUME NEW c \in Convs, ChooseDelete(c) \/ CancelDelete(c)
      PROVE  NothingLeftWaiting'
  <2>1. \A d \in Convs : OnUi(d)'
    BY <1>5, <1>b DEF ChooseDelete, CancelDelete, OnUi, Mounted
  <2> QED
    BY <1>5, <1>c, <2>1, <1>a DEF ChooseDelete, CancelDelete
<1>6. ASSUME NEW c \in Convs, ConfirmDelete(c)
      PROVE  NothingLeftWaiting'
  <2>1. Ask("remove", c, Untitled, Untitled)
    BY <1>6 DEF ConfirmDelete
  <2>2. PICK n : n = Len(call')
    OBVIOUS
  <2>3. /\ DOMAIN call' = DOMAIN call \cup {n} /\ \A k \in DOMAIN call : call'[k] = call[k]
        /\ call'[n].kind = "remove" /\ call'[n].conv = c /\ call'[n].here
    BY <2>1, <2>2, Names, AskCall
  <2>4. OnBusy'
    BY <1>6, <1>b, <2>3 DEF ConfirmDelete, OnBusy
  <2>5. Mounted(c)'
    BY <1>6, <1>b DEF ConfirmDelete, OnUi, Mounted
  <2>6. ui' = <<c, "asked">>
    BY <1>6 DEF ConfirmDelete
  <2>7. \A d \in Convs : OnUi(d)'
    BY <2>3, <2>5, <2>6 DEF OnUi
  <2> QED
    BY <1>a, <2>4, <2>7
<1>7. ASSUME NEW c \in Convs, NEW t \in Named, Type(c, t)
      PROVE  NothingLeftWaiting'
  BY <1>7, Untouched DEF Type
<1>8. ASSUME NEW c \in Convs, NEW t \in Named, SaveRename(c, t)
      PROVE  NothingLeftWaiting'
  <2>1. PICK w \in Named : w = Title(c)
    BY <1>8, OnEntry DEF SaveRename
  <2>2. Ask("rename", c, t, w)
    BY <1>8, <2>1 DEF SaveRename
  <2>3. PICK n : n = Len(call')
    OBVIOUS
  <2>4. /\ DOMAIN call' = DOMAIN call \cup {n} /\ \A k \in DOMAIN call : call'[k] = call[k]
        /\ call'[n].kind = "rename" /\ call'[n].conv = c
    BY <2>2, <2>3, AskCall
  <2>5. OnBusy'
    BY <1>8, <1>b, <2>4 DEF SaveRename, OnBusy
  <2>6. Mounted(c)'
    BY <1>8, OnEntry DEF SaveRename, Mounted
  <2>7. ui' = <<c, "saving">> /\ Renaming(c)' # {}
    BY <1>8, <2>4 DEF SaveRename, Renaming
  <2>8. \A d \in Convs : OnUi(d)'
    BY <2>6, <2>7 DEF OnUi
  <2> QED
    BY <1>a, <2>5, <2>8
<1>9. ASSUME NEW c \in Convs,
             CancelEdit(c) \/ \E t \in Named : SaveNothing(c, t)
      PROVE  NothingLeftWaiting'
  BY <1>9, <1>a, <1>c, Closed DEF CancelEdit, SaveNothing
<1>10. ASSUME NEW c \in Convs, SendFirst(c)
       PROVE  NothingLeftWaiting'
  BY <1>10, Untouched DEF SendFirst
<1>11. ASSUME NEW p \in Pages, Visit(p)
       PROVE  NothingLeftWaiting'
  <2>1. ui' = NoUi /\ busy' = 0
    BY <1>11 DEF Visit
  <2> QED
    BY <1>a, <2>1, Closed DEF OnBusy
<1> QED
  BY <1>1, <1>2, <1>3, <1>4, <1>5, <1>6, <1>7, <1>8, <1>9, <1>10, <1>11 DEF User
LEMMA ApiWaits == Typed /\ NothingLeftWaiting /\ Api => NothingLeftWaiting'
<1> SUFFICES ASSUME Typed, NothingLeftWaiting, Api PROVE NothingLeftWaiting'
  OBVIOUS
<1>1. CASE ListRead
  <2>1. \A c \in Convs : ui[1] = c => Mounted(c)
    BY DEF NothingLeftWaiting
  <2>2. \A c \in Convs : ui[1] # c
    BY <1>1, <2>1 DEF ListRead, Mounted
  <2> QED
    BY <1>1, <2>2 DEF ListRead, NothingLeftWaiting, Renaming
<1>2. ASSUME NEW k \in DOMAIN call, NEW c \in Convs, Create(k, c)
      PROVE  NothingLeftWaiting'
  <2>1. /\ DOMAIN call' = DOMAIN call /\ call'[k].kind = "create"
        /\ \A j \in DOMAIN call \ {k} : call'[j] = call[j]
    BY <1>2, CreateCall
  <2>2. call[k].kind = "create" /\ UNCHANGED <<ui, load, shown, page, busy>>
    BY <1>2 DEF Create
  <2>3. OnBusy /\ busy \in {0} \cup DOMAIN call
    BY WaitingParts DEF Typed, TypeOK
  <2>4. OnBusy'
    BY <2>1, <2>2, <2>3 DEF OnBusy
  <2>5. ASSUME NEW d \in Convs
        PROVE  OnUi(d)'
    <3>1. ui[1] = d => Mounted(d)'
      BY <2>2, WaitingParts DEF OnUi, Mounted
    <3> QED
      BY <2>1, <2>2, <3>1, StaysOpen
  <2> QED
    BY <2>4, <2>5 DEF NothingLeftWaiting, OnUi, OnBusy
<1>3. ASSUME NEW k \in DOMAIN call, Rename(k) \/ Delete(k)
      PROVE  NothingLeftWaiting'
  <2>1. call' = Making(k) /\ call[k].kind \in {"rename", "remove"}
    BY <1>3 DEF Rename, Delete
  <2>2. /\ DOMAIN call' = DOMAIN call /\ Alike(call'[k], call[k]) /\ call'[k].here = call[k].here
        /\ \A j \in DOMAIN call \ {k} : call'[j] = call[j]
    BY <2>1, MakingCall
  <2>3. UNCHANGED <<ui, load, shown, page, busy>>
    BY <1>3 DEF Rename, Delete
  <2> QED
    BY <2>2, <2>3, Untouched DEF Alike
<1>4. ASSUME NEW c \in Convs, SetTitle(c) \/ RunEnds(c)
      PROVE  NothingLeftWaiting'
  BY <1>4, Untouched DEF SetTitle, RunEnds
<1> QED
  BY <1>1, <1>2, <1>3, <1>4 DEF Api

LEMMA AnswersWait == Typed /\ NothingLeftWaiting /\ Answers => NothingLeftWaiting'
<1> SUFFICES ASSUME Typed, NothingLeftWaiting, Answers PROVE NothingLeftWaiting'
  OBVIOUS
<1>a. (\A c \in Convs : OnUi(c)') /\ OnBusy' => NothingLeftWaiting'
  BY DEF NothingLeftWaiting, OnUi, OnBusy
<1>b. (\A c \in Convs : OnUi(c)) /\ OnBusy /\ busy \in {0} \cup DOMAIN call
  BY WaitingParts DEF Typed, TypeOK
<1>1. CASE Listed \/ ListFails
  <2>1. \A c \in Convs : ui[1] # c
    BY <1>1, <1>b DEF OnUi, Listed, ListFails, Mounted
  <2> QED
    BY <1>1, <2>1 DEF Listed, ListFails, NothingLeftWaiting, Renaming
<1>2. ASSUME NEW k \in DOMAIN call, Created(k)
      PROVE  NothingLeftWaiting'
  <2>1. PICK c \in Convs : c = call[k].conv
    BY <1>2 DEF Created, Typed, CallsNamed
  <2>2. /\ DOMAIN call' = DOMAIN call
        /\ \A j \in DOMAIN call \ {k} : call'[j] = call[j]
    BY <1>2, OverCall DEF Created
  <2>3. call[k].kind = "create" /\ busy' = 0 /\ UNCHANGED <<ui, load>>
    BY <1>2 DEF Created
  <2>4. \A d \in Convs : shown[d] # <<>> => shown'[d] # <<>>
    <3>1. PICK s : s = <<Untitled>> \o shown[c]
      OBVIOUS
    <3>2. s # <<>>
      BY <3>1 DEF Typed, TypeOK
    <3>3. shown' = [shown EXCEPT ![c] = s]
      BY <1>2, <2>1, <3>1, Zenon DEF Created
    <3> QED
      BY <3>2, <3>3 DEF Typed, TypeOK
  <2>5. ASSUME NEW d \in Convs
        PROVE  OnUi(d)'
    <3>1. ui[1] = d => Mounted(d)'
      BY <1>b, <2>3, <2>4 DEF OnUi, Mounted
    <3> QED
      BY <2>2, <2>3, <3>1, StaysOpen
  <2> QED
    BY <1>a, <2>3, <2>5 DEF OnBusy
<1>3. ASSUME NEW k \in DOMAIN call, Renamed(k)
      PROVE  NothingLeftWaiting'
  <2>1. PICK c \in Convs : c = call[k].conv
    BY <1>3 DEF Renamed, Typed, CallsNamed
  <2>2. /\ DOMAIN call' = DOMAIN call
        /\ \A j \in DOMAIN call \ {k} : call'[j] = call[j]
    BY <1>3, OverCall DEF Renamed
  <2>3. /\ call[k].kind = "rename" /\ UNCHANGED <<load, page, busy>>
        /\ ui' = IF Editing(c) THEN NoUi ELSE ui
    BY <1>3, <2>1 DEF Renamed
  <2>4. \A d \in Convs : shown[d] # <<>> => shown'[d] # <<>>
    <3>1. call[k].title \in Named
      BY CallRange DEF Typed, Call
    <3> QED
      BY <1>3, <2>1, <3>1, RetitledType DEF Renamed, Typed
  <2>5. OnBusy'
    BY <1>b, <2>2, <2>3 DEF OnBusy
  <2>6. CASE Editing(c)
    BY <1>a, <2>3, <2>5, <2>6, Closed
  <2>7. CASE ~ Editing(c)
    <3>1. ASSUME NEW d \in Convs
          PROVE  OnUi(d)'
      <4>1. ui' = ui
        BY <2>3, <2>7
      <4>2. ui[1] = d => Mounted(d)'
        BY <1>b, <2>3, <2>4 DEF OnUi, Mounted
      <4>3. ui # <<c, "saving">>
        BY <2>7 DEF Editing
      <4>4. CASE ui = <<d, "saving">>
        <5>1. d # c
          BY <4>3, <4>4
        <5> QED
          BY <2>1, <2>2, <4>1, <4>2, <5>1, StaysOpen
      <4>5. CASE ui # <<d, "saving">>
        <5>1. \A j \in DOMAIN call : call[j].kind = "remove" => j # k
          BY <2>3
        <5> QED
          BY <1>b, <2>2, <4>1, <4>2, <4>5, <5>1 DEF OnUi
      <4> QED
        BY <4>4, <4>5
    <3> QED
      BY <1>a, <2>5, <3>1
  <2> QED
    BY <2>6, <2>7
<1>4. ASSUME NEW k \in DOMAIN call, Removed(k)
      PROVE  NothingLeftWaiting'
  <2>1. PICK c \in Convs : c = call[k].conv
    BY <1>4 DEF Removed, Typed, CallsNamed
  <2>2. /\ DOMAIN call' = DOMAIN call
        /\ \A j \in DOMAIN call \ {k} : call'[j] = call[j]
    BY <1>4, OverCall DEF Removed
  <2>3. /\ call[k].kind = "remove" /\ UNCHANGED <<load, busy>>
        /\ ui' = IF ui[1] = c THEN NoUi ELSE ui
        /\ shown' = [shown EXCEPT ![c] = <<>>]
        /\ page' = IF call[k].open THEN Home ELSE page
    BY <1>4, <2>1 DEF Removed, PageAfterRemoval
  <2>4. OnBusy'
    BY <1>b, <2>2, <2>3 DEF OnBusy
  <2>5. CASE ui[1] = c
    BY <1>a, <2>3, <2>4, <2>5, Closed
  <2>6. CASE ui[1] # c
    <3>1. ASSUME NEW d \in Convs
          PROVE  OnUi(d)'
      <4>1. ui' = ui
        BY <2>3, <2>6
      <4>2. ui[1] = d => Mounted(d)'
        BY <1>b, <2>3, <2>6 DEF OnUi, Mounted, Typed, TypeOK
      <4>3. CASE d = c
        BY <2>6, <4>1, <4>3 DEF OnUi
      <4>4. CASE d # c
        BY <2>1, <2>2, <4>1, <4>2, <4>4, StaysOpen
      <4> QED
        BY <4>3, <4>4
    <3> QED
      BY <1>a, <2>4, <3>1
  <2> QED
    BY <2>5, <2>6
<1>5. ASSUME NEW k \in DOMAIN call, Fails(k)
      PROVE  NothingLeftWaiting'
  <2>1. /\ DOMAIN call' = DOMAIN call
        /\ \A j \in DOMAIN call \ {k} : call'[j] = call[j]
    BY <1>5, OverCall DEF Fails
  <2>2. PICK c : c = call[k].conv
    OBVIOUS
  <2>3. call[k].kind \in {"rename", "remove"} => c \in Convs
    BY <2>2 DEF Typed, CallsNamed
  <2>4. /\ UNCHANGED <<load, shown, page>> /\ busy' = (IF busy = k THEN 0 ELSE busy)
        /\ ui' = FrontAfterFailure(k)
    BY <1>5 DEF Fails, Waiting
  <2>5. OnBusy'
    BY <1>b, <2>1, <2>4 DEF OnBusy
  <2>6. CASE call[k].kind = "rename" /\ Editing(c)
    <3>1. ui' = NoUi
      BY <2>2, <2>4, <2>6 DEF FrontAfterFailure
    <3> QED
      BY <1>a, <2>5, <3>1, Closed
  <2>7. CASE call[k].kind = "remove" /\ InMenu(c) /\ call[k].here
    <3>1. ui' = <<c, "actions">>
      BY <2>2, <2>4, <2>7 DEF FrontAfterFailure
    <3>2. Mounted(c)
      BY <2>3, <2>7, OnEntry DEF Mounted
    <3>3. \A d \in Convs : OnUi(d)'
      BY <2>4, <3>1, <3>2 DEF OnUi, Mounted
    <3> QED
      BY <1>a, <2>5, <3>3
  <2>8. CASE /\ ~ (call[k].kind = "rename" /\ Editing(c))
             /\ ~ (call[k].kind = "remove" /\ InMenu(c) /\ call[k].here)
    <3>1. ui' = ui
      BY <2>2, <2>4, <2>8 DEF FrontAfterFailure
    <3>2. ASSUME NEW d \in Convs
          PROVE  OnUi(d)'
      <4>1. OnUi(d)
        BY <1>b
      <4>2. ASSUME ui' = <<d, "asked">>
            PROVE  \E j \in DOMAIN call' :
                     call'[j].kind = "remove" /\ call'[j].conv = d /\ call'[j].here
        <5>1. PICK j \in DOMAIN call : call[j].kind = "remove" /\ call[j].conv = d /\ call[j].here
          BY <3>1, <4>1, <4>2 DEF OnUi
        <5>2. j # k
          BY <2>2, <2>8, <3>1, <4>2, <5>1 DEF InMenu
        <5> QED
          BY <2>1, <5>1, <5>2
      <4>3. ASSUME ui' = <<d, "saving">>
            PROVE  Renaming(d)' # {}
        <5>1. PICK j \in DOMAIN call : call[j].kind = "rename" /\ call[j].conv = d
          BY <3>1, <4>1, <4>3 DEF OnUi, Renaming
        <5>2. j # k
          BY <2>2, <2>8, <3>1, <4>3, <5>1 DEF Editing
        <5> QED
          BY <2>1, <5>1, <5>2 DEF Renaming
      <4>4. ui'[1] = d => Mounted(d)'
        BY <2>4, <3>1, <4>1 DEF OnUi, Mounted
      <4> QED
        BY <4>2, <4>3, <4>4 DEF OnUi
    <3> QED
      BY <1>a, <2>5, <3>2
  <2> QED
    BY <2>6, <2>7, <2>8
<1>6. ASSUME NEW c \in Convs, Patched(c)
      PROVE  NothingLeftWaiting'
  <2>1. \A d \in Convs : shown[d] # <<>> => shown'[d] # <<>>
    BY <1>6, Names, RetitledType DEF Patched, Typed
  <2> QED
    BY <1>6, <2>1, Untouched DEF Patched
<1> QED
  BY <1>1, <1>2, <1>3, <1>4, <1>5, <1>6 DEF Answers

LEMMA InitWaits == Init => NothingLeftWaiting
BY ConversationListAssumption DEF Init, NothingLeftWaiting, NoUi

LEMMA StepWaits == Typed /\ NothingLeftWaiting /\ [Next]_vars => NothingLeftWaiting'
<1>1. UNCHANGED vars /\ NothingLeftWaiting => NothingLeftWaiting'
  BY DEF vars, NothingLeftWaiting, Renaming, Mounted
<1> QED
  BY <1>1, UserWaits, ApiWaits, AnswersWait DEF Next

(***************************************************************************)
(* The list, its requests and its menus keep their types.                  *)
(***************************************************************************)
THEOREM TypeCorrect == Spec => []TypeOK
<1>1. Init => Typed /\ NothingLeftWaiting
  BY InitTyped, InitWaits
<1>2. Typed /\ NothingLeftWaiting /\ [Next]_vars => (Typed /\ NothingLeftWaiting)'
  BY StepTyped, StepWaits
<1>3. Typed => TypeOK
  BY DEF Typed
<1> QED
  BY <1>1, <1>2, <1>3, PTL DEF Spec

(***************************************************************************)
(* A menu, an editor and the page for a new conversation are open, saving  *)
(* and disabled only while a request of theirs is under way, however often *)
(* they were closed and opened again before its answer.                    *)
(***************************************************************************)
THEOREM NothingWaits == Spec => []NothingLeftWaiting
<1>1. Init => Typed /\ NothingLeftWaiting
  BY InitTyped, InitWaits
<1>2. Typed /\ NothingLeftWaiting /\ [Next]_vars => (Typed /\ NothingLeftWaiting)'
  BY StepTyped, StepWaits
<1> QED
  BY <1>1, <1>2, PTL DEF Spec
-----------------------------------------------------------------------------
(* Nobody is left on a deleted conversation. *)

\* What is shown, created or removed has been made, and nothing is removed
\* before the list is there; a conversation is created once.
Born ==
  /\ \A c \in Convs :
       /\ Creating(c) \/ shown[c] # <<>> \/ Removing(c) => row[c] # Unborn
       /\ load.at = "read" /\ Stored(load.rows[c]) => row[c] # Unborn
       /\ Removing(c) \/ row[c] = Gone => load.at = "listed"
  /\ \A j, k \in DOMAIN call :
       call[j].kind = "create" /\ call[k].kind = "create" /\ call[j].conv = call[k].conv
       /\ call[j].conv \in Convs => j = k

\* The list had it before its creation was answered.
EarlyKnown ==
  \A c \in Convs :
    Creating(c) /\ (shown[c] # <<>> \/ Removing(c) \/ row[c] = Gone) => "early" \in odd[c]

\* The answer to a removal will leave the page, or it was opened on the way.
RemovalLeaves ==
  \A k \in DOMAIN call :
    call[k].kind = "remove" /\ page = call[k].conv /\ ~ call[k].open
    => odd[call[k].conv] \cap {"visited", "early"} # {}

Excused(c) == odd[c] \cap {"visited", "lost", "early"} # {}

Leaving(c) ==
  \E k \in DOMAIN call : /\ call[k].kind = "remove" /\ call[k].conv = c
                         /\ call[k].at = "made"

LeavingPage(c) ==
  \E k \in DOMAIN call : /\ call[k].kind = "remove" /\ call[k].conv = c
                         /\ call[k].at = "made" /\ call[k].open

GoneIsLeft ==
  \A c \in Convs :
    row[c] = Gone =>
      /\ shown[c] = <<>> \/ Excused(c) \/ Leaving(c)
      /\ page = c => Excused(c) \/ LeavingPage(c)

PageInv == Born /\ EarlyKnown /\ RemovalLeaves /\ GoneIsLeft

LEMMA PageSafe == PageInv => NobodyOnDeleted
<1> SUFFICES ASSUME PageInv, NEW c \in Convs, page = c, row[c] = Gone, ~ Removing(c)
             PROVE  odd[c] \cap {"visited", "lost", "early"} # {}
  BY DEF NobodyOnDeleted
<1>1. ~ LeavingPage(c)
  BY DEF LeavingPage, Removing
<1> QED
  BY <1>1 DEF PageInv, GoneIsLeft, Excused

\* A step that deletes nothing, shows and hides no conversation and asks for
\* no removal; it may end requests, removals with the loss of their answer.
LEMMA Quiet ==
  ASSUME Typed, PageInv, UNCHANGED <<load, page>>, DOMAIN call' = DOMAIN call,
         \A c \in Convs :
           /\ row'[c] = Unborn <=> row[c] = Unborn
           /\ row'[c] = Gone <=> row[c] = Gone
           /\ shown'[c] = <<>> <=> shown[c] = <<>>
           /\ odd[c] \subseteq odd'[c],
         \A k \in DOMAIN call :
           \/ /\ call'[k].kind = "done"
              /\ call[k].kind = "remove" /\ call[k].at = "made" => "lost" \in odd'[call[k].conv]
           \/ /\ call'[k].kind = call[k].kind /\ call'[k].conv = call[k].conv
              /\ call'[k].open = call[k].open
              /\ call[k].kind = "remove" => call'[k].at = call[k].at
  PROVE  PageInv'
<1>1. \A c \in Convs : (Creating(c)' => Creating(c)) /\ (Removing(c)' => Removing(c))
  BY DEF Creating, Removing
<1>2. Born'
  <2>1. ASSUME NEW c \in Convs
        PROVE  /\ Creating(c)' \/ shown'[c] # <<>> \/ Removing(c)' => row'[c] # Unborn
               /\ load'.at = "read" /\ Stored(load'.rows[c]) => row'[c] # Unborn
               /\ Removing(c)' \/ row'[c] = Gone => load'.at = "listed"
    BY <1>1 DEF PageInv, Born
  <2>2. ASSUME NEW j \in DOMAIN call', NEW k \in DOMAIN call',
               call'[j].kind = "create", call'[k].kind = "create",
               call'[j].conv = call'[k].conv, call'[j].conv \in Convs
        PROVE  j = k
    BY <2>2 DEF PageInv, Born
  <2> QED
    BY <2>1, <2>2 DEF Born
<1>3. EarlyKnown'
  BY <1>1 DEF PageInv, EarlyKnown
<1>4. RemovalLeaves'
  <2>1. SUFFICES ASSUME NEW k \in DOMAIN call', call'[k].kind = "remove",
                        page' = call'[k].conv, ~ call'[k].open
                 PROVE  odd'[call'[k].conv] \cap {"visited", "early"} # {}
    BY DEF RemovalLeaves
  <2>2. PICK c : c = call[k].conv
    OBVIOUS
  <2>3. call[k].kind = "remove" /\ call'[k].conv = c /\ page = c /\ ~ call[k].open
    BY <2>1, <2>2
  <2>4. c \in Convs
    BY <2>1, <2>2, <2>3 DEF Typed, CallsNamed
  <2> QED
    BY <2>1, <2>2, <2>3, <2>4 DEF PageInv, RemovalLeaves
<1>5. GoneIsLeft'
  <2>1. SUFFICES ASSUME NEW c \in Convs, row'[c] = Gone
                 PROVE  /\ shown'[c] = <<>> \/ Excused(c)' \/ Leaving(c)'
                        /\ page' = c => Excused(c)' \/ LeavingPage(c)'
    BY DEF GoneIsLeft
  <2>2. Excused(c) => Excused(c)'
    BY DEF Excused
  <2>3. Leaving(c) => Leaving(c)' \/ "lost" \in odd'[c]
    BY DEF Leaving
  <2>4. LeavingPage(c) => LeavingPage(c)' \/ "lost" \in odd'[c]
    BY DEF LeavingPage
  <2>5. "lost" \in odd'[c] => Excused(c)'
    BY DEF Excused
  <2> QED
    BY <2>1, <2>2, <2>3, <2>4, <2>5 DEF PageInv, GoneIsLeft
<1> QED
  BY <1>2, <1>3, <1>4, <1>5 DEF PageInv
\* A request that is no removal, and creates nothing yet.
LEMMA AskedQuietly ==
  ASSUME Typed, PageInv, UNCHANGED <<row, load, shown, page>>,
         \A c \in Convs : odd[c] \subseteq odd'[c],
         NEW n, DOMAIN call' = DOMAIN call \cup {n},
         \A k \in DOMAIN call : call'[k] = call[k],
         call'[n].kind # "remove", call'[n].kind = "create" => call'[n].conv \notin Convs
  PROVE  PageInv'
<1>1. \A c \in Convs : (Creating(c)' => Creating(c)) /\ (Removing(c)' <=> Removing(c))
  BY DEF Creating, Removing
<1>2. Born'
  <2>1. ASSUME NEW j \in DOMAIN call', NEW k \in DOMAIN call',
               call'[j].kind = "create", call'[k].kind = "create",
               call'[j].conv = call'[k].conv, call'[j].conv \in Convs
        PROVE  j = k
    BY <2>1 DEF PageInv, Born
  <2> QED
    BY <1>1, <2>1 DEF PageInv, Born
<1>3. EarlyKnown'
  BY <1>1 DEF PageInv, EarlyKnown
<1>4. RemovalLeaves'
  <2>1. SUFFICES ASSUME NEW k \in DOMAIN call, call[k].kind = "remove",
                        page = call[k].conv, ~ call[k].open
                 PROVE  odd'[call[k].conv] \cap {"visited", "early"} # {}
    BY DEF RemovalLeaves
  <2>2. PICK c \in Convs : c = call[k].conv
    BY <2>1 DEF Typed, CallsNamed
  <2> QED
    BY <2>1, <2>2 DEF PageInv, RemovalLeaves
<1>5. GoneIsLeft'
  <2>1. \A c \in Convs : /\ Excused(c) => Excused(c)'
                         /\ Leaving(c) => Leaving(c)'
                         /\ LeavingPage(c) => LeavingPage(c)'
    <3>1. \A c \in Convs : Excused(c) => Excused(c)'
      BY DEF Excused
    <3>2. \A c \in Convs : Leaving(c) => Leaving(c)'
      BY DEF Leaving
    <3>3. \A c \in Convs : LeavingPage(c) => LeavingPage(c)'
      BY DEF LeavingPage
    <3> QED
      BY <3>1, <3>2, <3>3
  <2> QED
    BY <2>1 DEF PageInv, GoneIsLeft
<1> QED
  BY <1>2, <1>3, <1>4, <1>5 DEF PageInv

LEMMA OddSets ==
  ASSUME Typed, NEW c \in Convs, NEW S, odd' = [odd EXCEPT ![c] = odd[c] \cup S]
  PROVE  \A d \in Convs : odd[d] \subseteq odd'[d]
BY DEF Typed, TypeOK

LEMMA ConfirmPage ==
  ASSUME Typed, NothingLeftWaiting, PageInv, NEW c \in Convs, ConfirmDelete(c)
  PROVE  PageInv'
<1>1. load.at = "listed" /\ shown[c] # <<>>
  BY OnEntry DEF ConfirmDelete, InMenu
<1>2. Ask("remove", c, Untitled, Untitled) /\ UNCHANGED <<row, load, shown, page, odd>>
  BY DEF ConfirmDelete
<1>3. PICK n : n = Len(call')
  OBVIOUS
<1>4. /\ DOMAIN call' = DOMAIN call \cup {n} /\ \A k \in DOMAIN call : call'[k] = call[k]
      /\ call'[n].kind = "remove" /\ call'[n].conv = c /\ (page = c => call'[n].open)
  BY <1>2, <1>3, Names, AskCall
<1>5. \A d \in Convs : /\ Creating(d)' <=> Creating(d)
                       /\ Removing(d)' => Removing(d) \/ d = c
  BY <1>4 DEF Creating, Removing
<1>6. Born'
  <2>1. ASSUME NEW j \in DOMAIN call', NEW k \in DOMAIN call',
               call'[j].kind = "create", call'[k].kind = "create",
               call'[j].conv = call'[k].conv, call'[j].conv \in Convs
        PROVE  j = k
    BY <1>4, <2>1 DEF PageInv, Born
  <2> QED
    BY <1>1, <1>2, <1>5, <2>1 DEF PageInv, Born
<1>7. EarlyKnown'
  BY <1>1, <1>2, <1>5 DEF PageInv, EarlyKnown
<1>8. RemovalLeaves'
  BY <1>2, <1>4 DEF PageInv, RemovalLeaves
<1>9. GoneIsLeft'
  <2>1. \A d \in Convs : /\ Excused(d) => Excused(d)'
                         /\ Leaving(d) => Leaving(d)'
                         /\ LeavingPage(d) => LeavingPage(d)'
    BY <1>2, <1>4 DEF Excused, Leaving, LeavingPage
  <2> QED
    BY <1>2, <2>1 DEF PageInv, GoneIsLeft
<1> QED
  BY <1>6, <1>7, <1>8, <1>9 DEF PageInv

LEMMA VisitPage ==
  ASSUME Typed, PageInv, NEW p \in Pages, Visit(p)
  PROVE  PageInv'
<1>1. UNCHANGED <<row, load, shown, call>> /\ page' = p /\ (p # Home => Mounted(p))
  BY DEF Visit
<1>2. odd' = [c \in Convs |-> odd[c] \cup IF c = p /\ Removing(c) THEN {"visited"} ELSE {}]
  BY DEF Visit
<1>3. \A c \in Convs : odd[c] \subseteq odd'[c] /\ (c = p /\ Removing(c) => "visited" \in odd'[c])
  BY <1>2
<1>4. Born'
  BY <1>1 DEF PageInv, Born, Creating, Removing
<1>5. EarlyKnown'
  BY <1>1, <1>3 DEF PageInv, EarlyKnown, Creating, Removing
<1>6. RemovalLeaves'
  <2>1. SUFFICES ASSUME NEW k \in DOMAIN call, call[k].kind = "remove", p = call[k].conv
                 PROVE  odd'[call[k].conv] \cap {"visited", "early"} # {}
    BY <1>1 DEF RemovalLeaves
  <2>2. p \in Convs /\ Removing(p)
    BY <2>1 DEF Typed, CallsNamed, Removing
  <2> QED
    BY <1>3, <2>1, <2>2
<1>7. GoneIsLeft'
  <2>1. \A c \in Convs : /\ Excused(c) => Excused(c)'
                         /\ Leaving(c) => Leaving(c)'
BY <1>1, <1>3 DEF Excused, Leaving
  <2>2. ASSUME NEW c \in Convs, row[c] = Gone, p = c
        PROVE  Excused(c)'
    <3>1. shown[c] # <<>>
      BY <1>1, <2>2, ConversationListAssumption DEF Mounted
    <3>2. CASE Leaving(c)
      BY <1>3, <2>2, <3>2 DEF Leaving, Removing, Excused
    <3> QED
      BY <2>1, <2>2, <3>1, <3>2 DEF PageInv, GoneIsLeft
  <2> QED
    BY <1>1, <2>1, <2>2 DEF PageInv, GoneIsLeft
<1> QED
  BY <1>4, <1>5, <1>6, <1>7 DEF PageInv

LEMMA UserPage == Typed /\ NothingLeftWaiting /\ PageInv /\ User => PageInv'
<1> SUFFICES ASSUME Typed, NothingLeftWaiting, PageInv, User PROVE PageInv'
  OBVIOUS
<1>1. CASE SendNew
  <2>1. Ask("create", NoConv, Untitled, Untitled) /\ UNCHANGED <<row, load, shown, page, odd>>
    BY <1>1 DEF SendNew
  <2>2. PICK n : n = Len(call')
    OBVIOUS
  <2>3. /\ DOMAIN call' = DOMAIN call \cup {n} /\ \A k \in DOMAIN call : call'[k] = call[k]
        /\ call'[n].kind = "create" /\ call'[n].conv \notin Convs
    BY <2>1, <2>2, Names, AskCall, ConversationListAssumption
  <2> QED
    BY <2>1, <2>3, AskedQuietly
<1>2. ASSUME NEW c \in Convs, OpenMenu(c) \/ ChooseDelete(c) \/ CancelDelete(c) \/ SendFirst(c)
      PROVE  PageInv'
  BY <1>2, Quiet DEF OpenMenu, ChooseDelete, CancelDelete, SendFirst
<1>3. ASSUME NEW c \in Convs, Dismiss(c) \/ ChooseRename(c)
      PROVE  PageInv'
  <2>1. /\ DOMAIN call' = DOMAIN call
        /\ \A k \in DOMAIN call : Alike(call'[k], call[k]) /\ call'[k].at = call[k].at
    BY <1>3, Unwatched DEF Dismiss, ChooseRename
  <2>2. UNCHANGED <<row, load, shown, page, odd>>
    BY <1>3 DEF Dismiss, ChooseRename
  <2> QED
    BY <2>1, <2>2, Quiet DEF Alike
<1>4. ASSUME NEW c \in Convs, ConfirmDelete(c)
      PROVE  PageInv'
  BY <1>4, ConfirmPage
<1>5. ASSUME NEW c \in Convs, CancelEdit(c) \/ \E t \in Named : Type(c, t) \/ SaveNothing(c, t)
      PROVE  PageInv'
  <2>1. UNCHANGED <<row, load, shown, page, call>>
    BY <1>5 DEF CancelEdit, Type, SaveNothing
  <2>2. \A d \in Convs : odd[d] \subseteq odd'[d]
    BY <1>5, OddSets DEF CancelEdit, Type, SaveNothing
  <2> QED
    BY <2>1, <2>2, Quiet
<1>6. ASSUME NEW c \in Convs, NEW t \in Named, SaveRename(c, t)
      PROVE  PageInv'
  <2>1. PICK w \in Named : w = Title(c)
    BY <1>6, OnEntry DEF SaveRename
  <2>2. Ask("rename", c, t, w) /\ UNCHANGED <<row, load, shown, page>>
    BY <1>6, <2>1 DEF SaveRename
  <2>3. PICK n : n = Len(call')
    OBVIOUS
  <2>4. /\ DOMAIN call' = DOMAIN call \cup {n} /\ \A k \in DOMAIN call : call'[k] = call[k]
        /\ call'[n].kind = "rename"
    BY <2>2, <2>3, AskCall
  <2>5. \A d \in Convs : odd[d] \subseteq odd'[d]
    BY <1>6, OddSets DEF SaveRename
  <2> QED
    BY <2>2, <2>4, <2>5, AskedQuietly
<1>7. ASSUME NEW p \in Pages, Visit(p)
      PROVE  PageInv'
  BY <1>7, VisitPage
<1> QED
  BY <1>1, <1>2, <1>3, <1>4, <1>5, <1>6, <1>7 DEF User
LEMMA CreatePage ==
  ASSUME Typed, PageInv, NEW k \in DOMAIN call, NEW c \in Convs, Create(k, c)
  PROVE  PageInv'
<1>1. /\ DOMAIN call' = DOMAIN call /\ call'[k].kind = "create" /\ call'[k].conv = c
      /\ \A j \in DOMAIN call \ {k} : call'[j] = call[j]
  BY CreateCall
<1>2. /\ call[k].kind = "create" /\ row[c] = Unborn /\ row' = [row EXCEPT ![c] = Untitled]
      /\ UNCHANGED <<load, shown, page, odd>>
  BY DEF Create
<1>3. ~ Creating(c) /\ ~ Removing(c) /\ shown[c] = <<>>
  BY <1>2 DEF PageInv, Born
<1>4. \A d \in Convs \ {c} : row'[d] = row[d]
  BY <1>2 DEF Typed, TypeOK
<1>5. row'[c] = Untitled /\ row'[c] # Unborn /\ row'[c] # Gone
  BY <1>2, Names DEF Typed, TypeOK
<1>6. \A d \in Convs : /\ Removing(d)' <=> Removing(d)
                       /\ Creating(d)' => Creating(d) \/ d = c
  BY <1>1, <1>2 DEF Creating, Removing
<1>7. Born'
  <2>1. ASSUME NEW i \in DOMAIN call', NEW j \in DOMAIN call',
               call'[i].kind = "create", call'[j].kind = "create",
               call'[i].conv = call'[j].conv, call'[i].conv \in Convs, i # j
        PROVE  FALSE
    <3>1. CASE i = k
      BY <1>1, <1>3, <2>1, <3>1 DEF Creating
    <3>2. CASE j = k
      BY <1>1, <1>3, <2>1, <3>2 DEF Creating
    <3>3. CASE i # k /\ j # k
      BY <1>1, <2>1, <3>3 DEF PageInv, Born
    <3> QED
      BY <3>1, <3>2, <3>3
  <2> QED
    BY <1>2, <1>3, <1>4, <1>5, <1>6, <2>1 DEF PageInv, Born
<1>8. EarlyKnown'
  BY <1>2, <1>3, <1>4, <1>5, <1>6 DEF PageInv, EarlyKnown
<1>9. RemovalLeaves'
  BY <1>1, <1>2 DEF PageInv, RemovalLeaves
<1>10. GoneIsLeft'
  <2>1. \A d \in Convs : /\ Excused(d)' <=> Excused(d)
                         /\ Leaving(d)' <=> Leaving(d)
                         /\ LeavingPage(d)' <=> LeavingPage(d)
    BY <1>1, <1>2 DEF Excused, Leaving, LeavingPage
  <2> QED
    BY <1>2, <1>4, <1>5, <2>1 DEF PageInv, GoneIsLeft
<1> QED
  BY <1>7, <1>8, <1>9, <1>10 DEF PageInv

LEMMA DeletePage ==
  ASSUME Typed, PageInv, NEW k \in DOMAIN call, Delete(k)
  PROVE  PageInv'
<1>1. PICK c \in Convs : c = call[k].conv
  BY DEF Delete, Typed, CallsNamed
<1>2. /\ call[k].kind = "remove" /\ row' = [row EXCEPT ![c] = Gone] /\ Stored(row[c])
      /\ UNCHANGED <<load, shown, page, odd>>
  BY <1>1 DEF Delete, Refuses
<1>3. /\ DOMAIN call' = DOMAIN call /\ Alike(call'[k], call[k]) /\ call'[k].at = "made"
      /\ \A j \in DOMAIN call \ {k} : call'[j] = call[j]
  BY <1>2, MakingCall DEF Delete
<1>4. /\ row'[c] = Gone /\ Gone # Unborn
      /\ \A d \in Convs \ {c} : row'[d] = row[d]
  BY <1>2, Names DEF Typed, TypeOK
<1>5. \A j \in DOMAIN call : Alike(call'[j], call[j])
  BY <1>3 DEF Alike
<1>6. \A d \in Convs : (Creating(d)' <=> Creating(d)) /\ (Removing(d)' <=> Removing(d))
  BY <1>3, <1>5 DEF Creating, Removing, Alike
<1>7. Removing(c) /\ load.at = "listed"
  BY <1>1, <1>2 DEF Removing, PageInv, Born
<1>8. Born'
  <2>1. ASSUME NEW i \in DOMAIN call', NEW j \in DOMAIN call',
               call'[i].kind = "create", call'[j].kind = "create",
               call'[i].conv = call'[j].conv, call'[i].conv \in Convs
        PROVE  i = j
    BY <1>3, <1>5, <2>1 DEF PageInv, Born, Alike
  <2> QED
    BY <1>2, <1>4, <1>6, <1>7, <2>1 DEF PageInv, Born
<1>9. EarlyKnown'
  BY <1>2, <1>4, <1>6, <1>7 DEF PageInv, EarlyKnown
<1>10. RemovalLeaves'
  BY <1>2, <1>3, <1>5 DEF PageInv, RemovalLeaves, Alike
<1>11. GoneIsLeft'
  <2>1. \A d \in Convs : /\ Excused(d) => Excused(d)'
                         /\ Leaving(d) => Leaving(d)'
                         /\ LeavingPage(d) => LeavingPage(d)'
    BY <1>2, <1>3, <1>5 DEF Excused, Leaving, LeavingPage, Alike
  <2>2. Leaving(c)'
    BY <1>1, <1>2, <1>3 DEF Leaving, Alike
  <2>3. page = c => Excused(c)' \/ LeavingPage(c)'
    <3>1. CASE call[k].open
      BY <1>1, <1>2, <1>3, <3>1 DEF LeavingPage, Alike
    <3>2. CASE ~ call[k].open
      BY <1>1, <1>2, <3>2 DEF PageInv, RemovalLeaves, Excused
    <3> QED
      BY <3>1, <3>2
  <2> QED
    BY <1>2, <1>4, <2>1, <2>2, <2>3 DEF PageInv, GoneIsLeft
<1> QED
  BY <1>8, <1>9, <1>10, <1>11 DEF PageInv

LEMMA ApiPage == Typed /\ PageInv /\ Api => PageInv'
<1> SUFFICES ASSUME Typed, PageInv, Api PROVE PageInv'
  OBVIOUS
<1>1. CASE ListRead
  <2>1. load.at = "sent" /\ load' = [at |-> "read", rows |-> row]
    BY <1>1 DEF ListRead
  <2>2. UNCHANGED <<row, shown, call, page, odd>>
    BY <1>1 DEF ListRead
  <2>3. \A c \in Convs : ~ Removing(c) /\ row[c] # Gone
    BY <2>1 DEF PageInv, Born
  <2>4. \A c \in Convs : Stored(row[c]) => row[c] # Unborn
    BY Names DEF Stored
  <2>5. Born'
    BY <2>1, <2>2, <2>3, <2>4 DEF PageInv, Born, Creating, Removing
  <2>6. EarlyKnown' /\ RemovalLeaves' /\ GoneIsLeft'
    BY <2>2, <2>3 DEF PageInv, EarlyKnown, RemovalLeaves, GoneIsLeft, Creating, Removing
  <2> QED
    BY <2>5, <2>6 DEF PageInv
<1>2. ASSUME NEW k \in DOMAIN call, NEW c \in Convs, Create(k, c)
      PROVE  PageInv'
  BY <1>2, CreatePage
<1>3. ASSUME NEW k \in DOMAIN call, Rename(k)
      PROVE  PageInv'
  <2>1. PICK c \in Convs : c = call[k].conv
    BY <1>3 DEF Rename, Typed, CallsNamed
  <2>2. PICK t : t = call[k].title
    OBVIOUS
  <2>3. t \in Named
    BY <2>2, CallRange DEF Typed, Call
  <2>4. call[k].kind = "rename" /\ row' = [row EXCEPT ![c] = t] /\ Stored(row[c])
        /\ UNCHANGED <<load, shown, page>>
    BY <1>3, <2>1, <2>2 DEF Rename, Refuses
  <2>5. \A d \in Convs : (row'[d] = Unborn <=> row[d] = Unborn) /\ (row'[d] = Gone <=> row[d] = Gone)
    BY <2>3, <2>4, Names DEF Stored, Typed, TypeOK
  <2>6. /\ DOMAIN call' = DOMAIN call /\ Alike(call'[k], call[k])
        /\ \A j \in DOMAIN call \ {k} : call'[j] = call[j]
    BY <1>3, <2>4, MakingCall DEF Rename
  <2>7. \A d \in Convs : odd[d] \subseteq odd'[d]
    BY <1>3, <2>1 DEF Rename, Crossing, Typed, TypeOK
  <2> QED
    BY <2>4, <2>5, <2>6, <2>7, Quiet DEF Alike
<1>4. ASSUME NEW k \in DOMAIN call, Delete(k)
      PROVE  PageInv'
  BY <1>4, DeletePage
<1>5. ASSUME NEW c \in Convs, SetTitle(c)
      PROVE  PageInv'
  <2>1. UNCHANGED <<load, shown, page, call>>
    BY <1>5 DEF SetTitle
  <2>2. row' = row \/ (Stored(row[c]) /\ row' = [row EXCEPT ![c] = FirstWords])
    BY <1>5 DEF SetTitle
  <2>3. \A d \in Convs : (row'[d] = Unborn <=> row[d] = Unborn) /\ (row'[d] = Gone <=> row[d] = Gone)
    BY <2>2, Names DEF Stored, Typed, TypeOK
  <2>4. \A d \in Convs : odd[d] \subseteq odd'[d]
    BY <1>5 DEF SetTitle, Crossing, Typed, TypeOK
  <2> QED
    BY <2>1, <2>3, <2>4, Quiet
<1>6. ASSUME NEW c \in Convs, RunEnds(c)
      PROVE  PageInv'
  BY <1>6, Quiet DEF RunEnds
<1> QED
  BY <1>1, <1>2, <1>3, <1>4, <1>5, <1>6 DEF Api
LEMMA CreatedPage ==
  ASSUME Typed, PageInv, NEW k \in DOMAIN call, Created(k)
  PROVE  PageInv'
<1>1. PICK c \in Convs : c = call[k].conv
  BY DEF Created, Typed, CallsNamed
<1>2. /\ call[k].kind = "create" /\ page' = c /\ UNCHANGED <<row, load>>
      /\ odd' = [odd EXCEPT ![c] = odd[c] \cup Overtaken(c, {Untitled})]
  BY <1>1, Zenon DEF Created
<1>3. /\ DOMAIN call' = DOMAIN call /\ call'[k].kind = "done"
      /\ \A j \in DOMAIN call \ {k} : call'[j] = call[j]
  BY OverCall DEF Created
<1>4. \A d \in Convs \ {c} : shown'[d] = shown[d]
  <2>1. PICK s : shown' = [shown EXCEPT ![c] = s]
    BY <1>1, Zenon DEF Created
  <2> QED
    BY <2>1 DEF Typed, TypeOK
<1>5. \A d \in Convs : odd[d] \subseteq odd'[d]
  BY <1>2, OddSets
<1>6. Creating(c) /\ row[c] # Unborn
  BY <1>1, <1>2 DEF Creating, PageInv, Born
<1>7. \A d \in Convs : /\ Creating(d)' => Creating(d) /\ d # c
                       /\ Removing(d)' <=> Removing(d)
  <2>1. ASSUME NEW d \in Convs, Creating(d)'
        PROVE  Creating(d) /\ d # c
    <3>1. PICK j \in DOMAIN call \ {k} : call[j].kind = "create" /\ call[j].conv = d
      BY <1>3, <2>1 DEF Creating
    <3> QED
      BY <1>1, <1>2, <3>1 DEF Creating, PageInv, Born
  <2>2. \A d \in Convs : Removing(d)' <=> Removing(d)
    BY <1>2, <1>3 DEF Removing
  <2> QED
    BY <2>1, <2>2
<1>8. Born'
  <2>1. ASSUME NEW i \in DOMAIN call', NEW j \in DOMAIN call',
               call'[i].kind = "create", call'[j].kind = "create",
               call'[i].conv = call'[j].conv, call'[i].conv \in Convs
        PROVE  i = j
    BY <1>3, <2>1 DEF PageInv, Born
  <2> QED
    BY <1>2, <1>4, <1>6, <1>7, <2>1 DEF PageInv, Born
<1>9. EarlyKnown'
  BY <1>2, <1>4, <1>5, <1>7 DEF PageInv, EarlyKnown
<1>10. RemovalLeaves'
  <2>1. SUFFICES ASSUME NEW j \in DOMAIN call, call[j].kind = "remove", call[j].conv = c
                 PROVE  "early" \in odd'[c]
    BY <1>2, <1>3 DEF RemovalLeaves
  <2>2. Removing(c)
    BY <2>1 DEF Removing
  <2> QED
    BY <1>5, <1>6, <2>2 DEF PageInv, EarlyKnown
<1>11. GoneIsLeft'
  <2>1. \A d \in Convs : /\ Excused(d) => Excused(d)'
                         /\ Leaving(d) => Leaving(d)'
    BY <1>2, <1>3, <1>5 DEF Excused, Leaving
  <2>2. row[c] = Gone => Excused(c)'
    BY <1>5, <1>6 DEF PageInv, EarlyKnown, Excused
  <2> QED
    BY <1>2, <1>4, <2>1, <2>2 DEF PageInv, GoneIsLeft
<1> QED
  BY <1>8, <1>9, <1>10, <1>11 DEF PageInv

LEMMA RemovedPage ==
  ASSUME Typed, PageInv, NEW k \in DOMAIN call, Removed(k)
  PROVE  PageInv'
<1>1. PICK c \in Convs : c = call[k].conv
  BY DEF Removed, Typed, CallsNamed
<1>2. /\ call[k].kind = "remove" /\ UNCHANGED <<row, load>>
      /\ shown' = [shown EXCEPT ![c] = <<>>]
      /\ page' = IF call[k].open THEN Home ELSE page
      /\ odd' = [odd EXCEPT ![c] = odd[c] \cup Overtaken(c, {Unborn, Gone})]
  BY <1>1, Zenon DEF Removed, PageAfterRemoval
<1>3. /\ DOMAIN call' = DOMAIN call /\ call'[k].kind = "done"
      /\ \A j \in DOMAIN call \ {k} : call'[j] = call[j]
  BY OverCall DEF Removed
<1>4. shown'[c] = <<>> /\ \A d \in Convs \ {c} : shown'[d] = shown[d]
  BY <1>2 DEF Typed, TypeOK
<1>5. \A d \in Convs : odd[d] \subseteq odd'[d]
  BY <1>2, OddSets
<1>6. \A d \in Convs : /\ Creating(d)' <=> Creating(d)
                       /\ Removing(d)' => Removing(d)
  BY <1>2, <1>3 DEF Creating, Removing
<1>7. Home \notin Convs
  BY ConversationListAssumption
<1>8. Born'
  <2>1. ASSUME NEW i \in DOMAIN call', NEW j \in DOMAIN call',
               call'[i].kind = "create", call'[j].kind = "create",
               call'[i].conv = call'[j].conv, call'[i].conv \in Convs
        PROVE  i = j
    BY <1>3, <2>1 DEF PageInv, Born
  <2> QED
    BY <1>2, <1>4, <1>6, <2>1 DEF PageInv, Born
<1>9. EarlyKnown'
  BY <1>2, <1>4, <1>5, <1>6 DEF PageInv, EarlyKnown
<1>10. RemovalLeaves'
  <2>1. SUFFICES ASSUME NEW j \in DOMAIN call, j # k, call[j].kind = "remove",
                        page' = call[j].conv, ~ call[j].open
                 PROVE  odd'[call[j].conv] \cap {"visited", "early"} # {}
    BY <1>3 DEF RemovalLeaves
  <2>2. call[j].conv \in Convs
    BY <2>1 DEF Typed, CallsNamed
  <2>3. page = call[j].conv
    BY <1>2, <1>7, <2>1, <2>2
  <2>4. odd[call[j].conv] \cap {"visited", "early"} # {}
    BY <2>1, <2>3 DEF PageInv, RemovalLeaves
  <2> QED
    BY <1>5, <2>2, <2>4
<1>11. GoneIsLeft'
  <2>1. ASSUME NEW d \in Convs, d # c
        PROVE  /\ Excused(d) => Excused(d)'
               /\ Leaving(d) => Leaving(d)'
               /\ LeavingPage(d) => LeavingPage(d)'
    BY <1>1, <1>3, <1>5, <2>1 DEF Excused, Leaving, LeavingPage
  <2>2. page' = c => Excused(c)'
    <3>1. SUFFICES ASSUME page' = c
                   PROVE  Excused(c)'
      OBVIOUS
    <3>2. ~ call[k].open /\ page = c
      BY <1>2, <1>7, <3>1
    <3>3. odd[c] \cap {"visited", "early"} # {}
      BY <1>1, <1>2, <3>2 DEF PageInv, RemovalLeaves
    <3> QED
      BY <1>5, <3>3 DEF Excused
  <2>3. \A d \in Convs : page' = d => page = d
    BY <1>2, <1>7
  <2> QED
    BY <1>2, <1>4, <2>1, <2>2, <2>3 DEF PageInv, GoneIsLeft
<1> QED
  BY <1>8, <1>9, <1>10, <1>11 DEF PageInv

LEMMA AnswersPage == Typed /\ PageInv /\ Answers => PageInv'
<1> SUFFICES ASSUME Typed, PageInv, Answers PROVE PageInv'
  OBVIOUS
<1>1. CASE Listed \/ ListFails
  <2>1. load.at # "listed" /\ UNCHANGED <<row, call, page>>
    BY <1>1 DEF Listed, ListFails
  <2>2. \A c \in Convs : ~ Removing(c) /\ row[c] # Gone
    BY <2>1 DEF PageInv, Born
  <2>3. load'.at \in {"listed", "failed"}
    BY <1>1 DEF Listed, ListFails
  <2>4. \A c \in Convs : /\ shown'[c] # <<>> => row[c] # Unborn
                         /\ shown'[c] # <<>> /\ Creating(c) => "early" \in odd'[c]
    <3>1. CASE Listed
      <4>1. \A c \in Convs : ListedAs(c) # <<>> => row[c] # Unborn
        BY <3>1, EntryType DEF Listed, ListedAs, Typed, TypeOK, PageInv, Born
      <4>2. \A c \in Convs : shown'[c] = ListedAs(c)
        BY <3>1 DEF Listed
      <4>3. \A c \in Convs : shown'[c] # <<>> /\ Creating(c) => "early" \in odd'[c]
        BY <3>1 DEF Listed
      <4> QED
        BY <4>1, <4>2, <4>3
    <3>2. CASE ListFails
      BY <3>2 DEF ListFails, PageInv, Born, EarlyKnown
    <3> QED
      BY <1>1, <3>1, <3>2
  <2>5. \A c \in Convs : (Creating(c)' <=> Creating(c)) /\ (Removing(c)' <=> Removing(c))
    BY <2>1 DEF Creating, Removing
  <2>6. Born'
    BY <2>1, <2>2, <2>3, <2>4, <2>5 DEF PageInv, Born
  <2>7. EarlyKnown'
    BY <2>1, <2>2, <2>4, <2>5 DEF EarlyKnown
  <2>8. RemovalLeaves'
    BY <2>1, <2>2 DEF RemovalLeaves, Removing, Typed, CallsNamed
  <2>9. GoneIsLeft'
    BY <2>1, <2>2 DEF GoneIsLeft
  <2> QED
    BY <2>6, <2>7, <2>8, <2>9 DEF PageInv
<1>2. ASSUME NEW k \in DOMAIN call, Created(k)
      PROVE  PageInv'
  BY <1>2, CreatedPage
<1>3. ASSUME NEW k \in DOMAIN call, Renamed(k)
      PROVE  PageInv'
  <2>1. PICK c \in Convs : c = call[k].conv
    BY <1>3 DEF Renamed, Typed, CallsNamed
  <2>2. /\ call[k].kind = "rename" /\ UNCHANGED <<row, load, page>>
        /\ odd' = [odd EXCEPT ![c] = odd[c] \cup Overtaken(c, {call[k].title})]
    BY <1>3, <2>1, Zenon DEF Renamed
  <2>3. /\ DOMAIN call' = DOMAIN call /\ call'[k].kind = "done"
        /\ \A j \in DOMAIN call \ {k} : call'[j] = call[j]
    BY <1>3, OverCall DEF Renamed
  <2>4. \A d \in Convs : shown'[d] = <<>> <=> shown[d] = <<>>
    <3>1. call[k].title \in Named
      BY CallRange DEF Typed, Call
    <3> QED
      BY <1>3, <2>1, <3>1, RetitledType DEF Renamed, Typed
  <2>5. \A d \in Convs : odd[d] \subseteq odd'[d]
    BY <2>2, OddSets
  <2> QED
    BY <2>2, <2>3, <2>4, <2>5, Quiet
<1>4. ASSUME NEW k \in DOMAIN call, Removed(k)
      PROVE  PageInv'
  BY <1>4, RemovedPage
<1>5. ASSUME NEW k \in DOMAIN call, Fails(k)
      PROVE  PageInv'
  <2>1. UNCHANGED <<row, load, shown, page>>
    BY <1>5 DEF Fails
  <2>2. /\ DOMAIN call' = DOMAIN call /\ call'[k].kind = "done"
        /\ \A j \in DOMAIN call \ {k} : call'[j] = call[j]
    BY <1>5, OverCall DEF Fails
  <2>3. \A d \in Convs : odd[d] \subseteq odd'[d]
    BY <1>5 DEF Fails
  <2>4. call[k].kind = "remove" /\ call[k].at = "made" => "lost" \in odd'[call[k].conv]
    <3>1. SUFFICES ASSUME call[k].kind = "remove", call[k].at = "made"
                   PROVE  "lost" \in odd'[call[k].conv]
      OBVIOUS
    <3>2. PICK c \in Convs : c = call[k].conv
      BY <3>1 DEF Typed, CallsNamed
    <3> QED
      BY <1>5, <3>1, <3>2 DEF Fails
  <2> QED
    BY <2>1, <2>2, <2>3, <2>4, Quiet
<1>6. ASSUME NEW c \in Convs, Patched(c)
      PROVE  PageInv'
  <2>1. UNCHANGED <<row, load, page, call>>
    BY <1>6 DEF Patched
  <2>2. \A d \in Convs : shown'[d] = <<>> <=> shown[d] = <<>>
    BY <1>6, Names, RetitledType DEF Patched, Typed
  <2>3. \A d \in Convs : odd[d] \subseteq odd'[d]
    <3>1. \/ odd' = [odd EXCEPT ![c] = odd[c] \cup {"left"} \cup Overtaken(c, {FirstWords})]
          \/ odd' = [odd EXCEPT ![c] = odd[c] \cup {"lost"}]
      BY <1>6, Zenon DEF Patched
    <3>2. PICK w : odd[c] \subseteq w /\ odd' = [odd EXCEPT ![c] = w]
      BY <3>1
    <3> QED
      BY <3>2 DEF Typed, TypeOK
  <2> QED
    BY <2>1, <2>2, <2>3, Quiet
<1> QED
  BY <1>1, <1>2, <1>3, <1>4, <1>5, <1>6 DEF Answers

LEMMA InitPage == Init => PageInv
<1> SUFFICES ASSUME Init PROVE PageInv
  OBVIOUS
<1>1. \A c \in Convs : ~ Creating(c) /\ ~ Removing(c) /\ shown[c] = <<>>
  BY DEF Init, Creating, Removing
<1>2. \A c \in Convs : row[c] # Gone
  BY Names DEF Init, Named
<1>3. load.at = "sent" /\ DOMAIN call = {}
  BY DEF Init
<1> QED
  BY <1>1, <1>2, <1>3 DEF PageInv, Born, EarlyKnown, RemovalLeaves, GoneIsLeft

LEMMA StepPage == Typed /\ NothingLeftWaiting /\ PageInv /\ [Next]_vars => PageInv'
<1>1. UNCHANGED vars /\ PageInv => PageInv'
  BY DEF vars, PageInv, Born, EarlyKnown, RemovalLeaves, GoneIsLeft, Excused, Leaving,
         LeavingPage, Creating, Removing
<1> QED
  BY <1>1, UserPage, ApiPage, AnswersPage DEF Next

(***************************************************************************)
(* Whoever deletes the conversation they are reading is taken to the home  *)
(* page, however many removals of it are answered or refused in whatever   *)
(* order; the exceptions are those NobodyOnDeleted names.                  *)
(***************************************************************************)
THEOREM NobodyStays == Spec => []NobodyOnDeleted
<1>1. Init => Typed /\ NothingLeftWaiting /\ PageInv
  BY InitTyped, InitWaits, InitPage
<1>2. Typed /\ NothingLeftWaiting /\ PageInv /\ [Next]_vars
        => (Typed /\ NothingLeftWaiting /\ PageInv)'
  BY StepTyped, StepWaits, StepPage
<1>3. PageInv => NobodyOnDeleted
  BY PageSafe
<1> QED
  BY <1>1, <1>2, <1>3, PTL DEF Spec

-----------------------------------------------------------------------------
(* The list ends up as what is stored. *)

MadeRenames(c) == {k \in Renaming(c) : call[k].at = "made"}

\* Nothing was lost or crossed, and the list did not know c too early.
Plain(c) == odd[c] \cap {"mixed", "early", "lost"} = {}

\* Not there, or there without the user being told.
Unannounced(c) == row[c] = Unborn \/ (Creating(c) /\ "early" \notin odd[c])

\* Nobody writes in, visits or renames what is not listed.
Young(c) ==
  /\ load.at # "listed" => Renaming(c) = {}
  /\ Unannounced(c) => run[c] = "none" /\ Renaming(c) = {} /\ page # c
  /\ Creating(c) /\ "early" \notin odd[c] => row[c] = Untitled
  /\ Leaving(c) => row[c] = Gone
  /\ \A k \in DOMAIN call :
       call[k].kind = "create" /\ call[k].conv = c => call[k].at = "made"

\* One change of the title is on its way at a time.
OneChange(c) ==
  /\ \A j, k \in MadeRenames(c) : j = k
  /\ \A k \in MadeRenames(c) : row[c] \in {call[k].title, Gone}
  /\ Naming(c) => MadeRenames(c) = {} /\ row[c] \in {FirstWords, Gone}

\* The list that comes holds c as it is, but for what will be answered later.
ToBeListed(c) ==
  /\ load.rows[c] # Gone
  /\ row[c] = Unborn => load.rows[c] = Unborn
  /\ Stored(row[c]) /\ Creating(c) => load.rows[c] \in {Unborn, row[c]}
  /\ Stored(row[c]) /\ ~ Creating(c) =>
       Stored(load.rows[c]) /\ (~ Naming(c) => load.rows[c] = row[c])

\* So does the list that is shown.
AsListed(c) ==
  /\ row[c] = Gone => shown[c] = <<>> \/ Leaving(c)
  /\ Stored(row[c]) /\ ~ Creating(c) =>
       /\ Len(shown[c]) = 1
       /\ ~ Naming(c) /\ MadeRenames(c) = {} => shown[c] = <<row[c]>>

Followed(c) ==
  Plain(c) => /\ OneChange(c)
              /\ load.at = "read" => ToBeListed(c)
              /\ load.at = "listed" => AsListed(c)

Tracked(c) == Young(c) /\ Followed(c)

LEMMA ListSafe == Typed /\ PageInv /\ (\A c \in Convs : Tracked(c)) => ListIsStored
<1> SUFFICES ASSUME Typed, PageInv, \A c \in Convs : Tracked(c), NEW c \in Convs,
                    Settled(c), Plain(c)
             PROVE  shown[c] = Entry(row[c])
  BY DEF ListIsStored, Plain
<1>1. load.at = "listed" /\ ~ Naming(c)
  BY DEF Settled
<1>2. ~ Creating(c) /\ ~ Leaving(c) /\ MadeRenames(c) = {} /\ ~ Removing(c)
  BY DEF Settled, Creating, Leaving, MadeRenames, Renaming, Removing
<1>3. AsListed(c)
  BY <1>1 DEF Tracked, Followed
<1>4. CASE Stored(row[c])
  BY <1>1, <1>2, <1>3, <1>4 DEF AsListed, Entry
<1>5. CASE row[c] = Gone
  BY <1>2, <1>3, <1>5, Names DEF AsListed, Entry, Stored
<1>6. CASE row[c] # Gone /\ ~ Stored(row[c])
  <2>1. Entry(row[c]) = <<>>
    BY <1>6 DEF Entry
  <2>2. row[c] = Unborn => shown[c] = <<>>
    BY DEF PageInv, Born
  <2>3. row[c] = Unborn
    BY <1>6 DEF Typed, TypeOK, Rows, Stored
  <2> QED
    BY <2>1, <2>2, <2>3
<1> QED
  BY <1>4, <1>5, <1>6

\* What the requests are to c does not change.
AskedSame(c) ==
  /\ Creating(c)' <=> Creating(c)
  /\ Leaving(c)' <=> Leaving(c)
  /\ Renaming(c)' = Renaming(c)
  /\ \A k \in Renaming(c) : /\ call'[k].title = call[k].title
                            /\ call'[k].was = call[k].was
                            /\ call'[k].at = call[k].at
  /\ \A k \in DOMAIN call' : call'[k].kind = "create" /\ call'[k].conv = c =>
       k \in DOMAIN call /\ call[k].kind = "create" /\ call[k].conv = c
         /\ call[k].at = call'[k].at

LEMMA SameRequests ==
  ASSUME Typed, NEW c \in Convs,
         \A k \in DOMAIN call : call[k].conv = c =>
           k \in DOMAIN call' /\ Alike(call'[k], call[k]) /\ call'[k].at = call[k].at,
         \A k \in DOMAIN call' : call'[k].conv = c =>
           k \in DOMAIN call /\ call[k].conv = c
  PROVE  AskedSame(c)
<1>1. \A k \in DOMAIN call : call[k].conv = c =>
        /\ k \in DOMAIN call' /\ call'[k].conv = c
        /\ call'[k].kind = call[k].kind /\ call'[k].title = call[k].title
        /\ call'[k].was = call[k].was /\ call'[k].at = call[k].at
  BY DEF Alike
<1>2. Renaming(c)' = Renaming(c)
  BY <1>1 DEF Renaming
<1>3. (Creating(c)' <=> Creating(c)) /\ (Leaving(c)' <=> Leaving(c))
  BY <1>1 DEF Creating, Leaving
<1>4. \A k \in Renaming(c) : k \in DOMAIN call /\ call[k].conv = c
  BY DEF Renaming
<1> QED
  BY <1>1, <1>2, <1>3, <1>4 DEF AskedSame

\* A new request is one of its own conversation only.
LEMMA OthersAsked ==
  ASSUME Typed, NEW kind \in {"create", "rename", "remove"},
         NEW x \in Convs \cup {NoConv}, NEW t \in Named, NEW was \in Named,
         Ask(kind, x, t, was), kind # "create" => x \in Convs,
         NEW c \in Convs, c # x
  PROVE  AskedSame(c)
<1>1. PICK n : n = Len(call')
  OBVIOUS
<1>2. /\ DOMAIN call' = DOMAIN call \cup {n} /\ call'[n].conv = x
      /\ \A k \in DOMAIN call : call'[k] = call[k]
  BY <1>1, AskCall
<1>3. \A k \in DOMAIN call : Alike(call'[k], call[k]) /\ call'[k].at = call[k].at
  BY <1>2 DEF Alike
<1> QED
  BY <1>2, <1>3, SameRequests

\* A request that is over, or has been carried out, is one of its own too.
LEMMA OthersAnswered ==
  ASSUME Typed, NEW k \in DOMAIN call, call' = Over(k), NEW c \in Convs,
         c # call[k].conv
  PROVE  AskedSame(c)
<1>1. call'[k] = Done /\ Done.conv # c
  <2>1. call' = [call EXCEPT ![k] = Done]
    BY DEF Over
  <2> QED
    BY <2>1, ConversationListAssumption DEF Done
<1>2. DOMAIN call' = DOMAIN call /\ \A j \in DOMAIN call \ {k} : call'[j] = call[j]
  BY OverCall
<1>3. \A j \in DOMAIN call : j # k => Alike(call'[j], call[j]) /\ call'[j].at = call[j].at
  BY <1>2 DEF Alike
<1> QED
  BY <1>1, <1>2, <1>3, SameRequests

LEMMA YoungKept ==
  ASSUME NEW c \in Convs, Young(c), load'.at = load.at, row'[c] = row[c],
         odd[c] \subseteq odd'[c],
         Creating(c)' => Creating(c), Leaving(c)' => Leaving(c),
         Renaming(c)' \subseteq Renaming(c),
         Unannounced(c) => run'[c] = run[c] /\ (page' = c => page = c),
         \A k \in DOMAIN call' :
           call'[k].kind = "create" /\ call'[k].conv = c => call'[k].at = "made"
  PROVE  Young(c)'
<1>1. Unannounced(c)' => Unannounced(c)
  BY DEF Unannounced
<1> QED
  BY <1>1 DEF Young

LEMMA FollowedKept ==
  ASSUME NEW c \in Convs, Followed(c), row'[c] = row[c],
         load'.at = load.at, load'.rows[c] = load.rows[c],
         shown'[c] = shown[c], Naming(c)' <=> Naming(c), odd[c] \subseteq odd'[c],
         Creating(c)' <=> Creating(c), Leaving(c) => Leaving(c)',
         MadeRenames(c)' = MadeRenames(c),
         \A k \in MadeRenames(c) : call'[k].title = call[k].title
  PROVE  Followed(c)'
<1>1. Plain(c)' => Plain(c)
  BY DEF Plain
<1>2. OneChange(c) => OneChange(c)'
  BY DEF OneChange
<1>3. ToBeListed(c) => ToBeListed(c)'
  BY DEF ToBeListed
<1>4. AsListed(c) => AsListed(c)'
  BY DEF AsListed
<1> QED
  BY <1>1, <1>2, <1>3, <1>4 DEF Followed

LEMMA MadeSame ==
  ASSUME NEW c \in Convs, AskedSame(c)
  PROVE  /\ MadeRenames(c)' = MadeRenames(c)
         /\ \A k \in MadeRenames(c) : call'[k].title = call[k].title
BY DEF AskedSame, MadeRenames

\* A step that does not touch c.
LEMMA Untracked ==
  ASSUME NEW c \in Convs, Tracked(c), AskedSame(c), row'[c] = row[c],
         load'.at = load.at, load'.rows[c] = load.rows[c],
         shown'[c] = shown[c], run'[c] = run[c], page' = c => page = c,
         odd[c] \subseteq odd'[c]
  PROVE  Tracked(c)'
<1>1. Young(c)'
  BY YoungKept DEF Tracked, Young, AskedSame
<1>2. Followed(c)'
  BY MadeSame, FollowedKept DEF Tracked, AskedSame, Naming
<1> QED
  BY <1>1, <1>2 DEF Tracked

\* What is mounted has been announced.
LEMMA MountedKnown ==
  ASSUME Typed, PageInv, NEW c \in Convs, shown[c] # <<>>
  PROVE  ~ Unannounced(c)
BY DEF PageInv, Born, EarlyKnown, Unannounced

LEMMA UserTracked ==
  ASSUME Typed, NothingLeftWaiting, PageInv, User, NEW c \in Convs, Tracked(c)
  PROVE  Tracked(c)'
<1>1. CASE SendNew
  <2>1. Ask("create", NoConv, Untitled, Untitled) /\ NoConv # c
    BY <1>1, ConversationListAssumption DEF SendNew
  <2>2. AskedSame(c)
    BY <2>1, Names, OthersAsked
  <2> QED
    BY <1>1, <2>2, Untracked DEF SendNew
<1>2. ASSUME NEW d \in Convs,
             \/ OpenMenu(d) \/ ChooseDelete(d) \/ CancelDelete(d)
             \/ CancelEdit(d) \/ \E t \in Named : Type(d, t) \/ SaveNothing(d, t)
      PROVE  Tracked(c)'
  <2>1. UNCHANGED <<row, load, shown, page, run, call>>
    BY <1>2 DEF OpenMenu, ChooseDelete, CancelDelete, CancelEdit, Type, SaveNothing
  <2>2. odd[c] \subseteq odd'[c]
    BY <1>2, OddSets DEF OpenMenu, ChooseDelete, CancelDelete, CancelEdit, Type,
                         SaveNothing
  <2>3. AskedSame(c)
    BY <2>1, SameRequests DEF Alike
  <2> QED
    BY <2>1, <2>2, <2>3, Untracked
<1>3. ASSUME NEW d \in Convs, Dismiss(d) \/ ChooseRename(d)
      PROVE  Tracked(c)'
  <2>1. UNCHANGED <<row, load, shown, page, run, odd>>
    BY <1>3 DEF Dismiss, ChooseRename
  <2>2. /\ DOMAIN call' = DOMAIN call
        /\ \A k \in DOMAIN call : Alike(call'[k], call[k]) /\ call'[k].at = call[k].at
    BY <1>3, Unwatched DEF Dismiss, ChooseRename
  <2>3. \A k \in DOMAIN call : call'[k].conv = call[k].conv
    BY <2>2 DEF Alike
  <2>4. AskedSame(c)
    BY <2>2, <2>3, SameRequests
  <2> QED
    BY <2>1, <2>4, Untracked
<1>4. ASSUME NEW d \in Convs, ConfirmDelete(d)
      PROVE  Tracked(c)'
  <2>1. Ask("remove", d, Untitled, Untitled) /\ UNCHANGED <<row, load, shown, page, run, odd>>
    BY <1>4 DEF ConfirmDelete
  <2>2. CASE d # c
    <3>1. AskedSame(c)
      BY <2>1, <2>2, Names, OthersAsked
    <3> QED
      BY <2>1, <3>1, Untracked
  <2>3. CASE d = c
    <3>1. PICK n : n = Len(call')
      OBVIOUS
    <3>2. /\ DOMAIN call' = DOMAIN call \cup {n} /\ n \notin DOMAIN call
          /\ \A k \in DOMAIN call : call'[k] = call[k]
          /\ call'[n].kind = "remove" /\ call'[n].at = "sent"
      <4>1. /\ DOMAIN call' = DOMAIN call \cup {n} /\ n = Len(call) + 1
            /\ \A k \in DOMAIN call : call'[k] = call[k]
            /\ call'[n].kind = "remove" /\ call'[n].at = "sent"
        BY <2>1, <3>1, Names, AskCall
      <4> QED
        BY <4>1, CallRange DEF Typed
    <3>3. AskedSame(c)
      <4>1. Renaming(c)' = Renaming(c)
        BY <3>2 DEF Renaming
      <4>2. (Creating(c)' <=> Creating(c)) /\ (Leaving(c)' <=> Leaving(c))
        BY <3>2 DEF Creating, Leaving
      <4>3. \A k \in Renaming(c) : k \in DOMAIN call
        BY DEF Renaming
      <4> QED
        BY <3>2, <4>1, <4>2, <4>3 DEF AskedSame
    <3> QED
      BY <2>1, <3>3, Untracked
  <2> QED
    BY <2>2, <2>3
<1>5. ASSUME NEW d \in Convs, NEW t \in Named, SaveRename(d, t)
      PROVE  Tracked(c)'
  <2>1. load.at = "listed" /\ shown[d] # <<>> /\ Title(d) \in Named
    BY <1>5, OnEntry DEF SaveRename
  <2>2. PICK w \in Named : w = Title(d)
    BY <2>1
  <2>3. Ask("rename", d, t, w) /\ UNCHANGED <<row, load, shown, page, run>>
    BY <1>5, <2>2 DEF SaveRename
  <2>4. odd[c] \subseteq odd'[c]
    BY <1>5, OddSets DEF SaveRename
  <2>5. CASE d # c
    <3>1. AskedSame(c)
      BY <2>3, <2>5, OthersAsked
    <3> QED
      BY <2>3, <2>4, <3>1, Untracked
  <2>6. CASE d = c
    <3>1. PICK n : n = Len(call')
      OBVIOUS
    <3>2. /\ DOMAIN call' = DOMAIN call \cup {n}
          /\ \A k \in DOMAIN call : call'[k] = call[k]
          /\ call'[n].kind = "rename" /\ call'[n].at = "sent"
      BY <2>3, <3>1, AskCall
    <3>3. (Creating(c)' <=> Creating(c)) /\ (Leaving(c)' <=> Leaving(c))
      BY <3>2 DEF Creating, Leaving
    <3>4. /\ MadeRenames(c)' = MadeRenames(c)
          /\ \A k \in MadeRenames(c) : call'[k].title = call[k].title
      BY <3>2 DEF MadeRenames, Renaming
    <3>5. ~ Unannounced(c) /\ ~ Unannounced(c)'
      <4>1. ~ Unannounced(c)
        BY <2>1, <2>6, MountedKnown
      <4> QED
        BY <2>3, <2>4, <3>3, <4>1 DEF Unannounced
    <3>6. Young(c)'
      BY <2>1, <2>3, <3>2, <3>3, <3>5 DEF Tracked, Young, Unannounced
    <3>7. Followed(c)'
      BY <2>3, <2>4, <3>3, <3>4, FollowedKept DEF Tracked, Naming
    <3> QED
      BY <3>6, <3>7 DEF Tracked
  <2> QED
    BY <2>5, <2>6
<1>6. ASSUME NEW d \in Convs, SendFirst(d)
      PROVE  Tracked(c)'
  <2>1. UNCHANGED <<row, load, shown, page, call, odd>>
    BY <1>6 DEF SendFirst
  <2>2. page = d /\ run[d] = "none" /\ run'[d] = "running"
        /\ \A e \in Convs \ {d} : run'[e] = run[e]
    BY <1>6 DEF SendFirst, Typed, TypeOK
  <2>3. AskedSame(c)
    BY <2>1, SameRequests DEF Alike
  <2>4. CASE d # c
    BY <2>1, <2>2, <2>3, <2>4, Untracked
  <2>5. CASE d = c
    <3>1. ~ Unannounced(c)
      BY <2>2, <2>5 DEF Tracked, Young
    <3>2. Naming(c)' <=> Naming(c)
      BY <2>2, <2>5 DEF Naming
    <3>3. Young(c)'
      BY <2>1, <2>3, <3>1, YoungKept DEF Tracked, Young, AskedSame
    <3>4. Followed(c)'
      BY <2>1, <2>3, <3>2, MadeSame, FollowedKept DEF Tracked, AskedSame
    <3> QED
      BY <3>3, <3>4 DEF Tracked
  <2> QED
    BY <2>4, <2>5
<1>7. ASSUME NEW p \in Pages, Visit(p)
      PROVE  Tracked(c)'
  <2>1. UNCHANGED <<row, load, shown, run, call>> /\ page' = p /\ (p # Home => Mounted(p))
    BY <1>7 DEF Visit
  <2>2. odd[c] \subseteq odd'[c]
    BY <1>7 DEF Visit
  <2>3. AskedSame(c)
    BY <2>1, SameRequests DEF Alike
  <2>4. Unannounced(c) => page' # c
    BY <2>1, MountedKnown, ConversationListAssumption DEF Mounted
  <2>5. Young(c)'
    BY <2>1, <2>2, <2>3, <2>4, YoungKept DEF Tracked, Young, AskedSame
  <2>6. Followed(c)'
    BY <2>1, <2>2, <2>3, MadeSame, FollowedKept DEF Tracked, AskedSame, Naming
  <2> QED
    BY <2>5, <2>6 DEF Tracked
<1> QED
  BY <1>1, <1>2, <1>3, <1>4, <1>5, <1>6, <1>7 DEF User

\* A request that has been carried out: which of the others' it is, is as before.
LEMMA OthersMade ==
  ASSUME Typed, NEW k \in DOMAIN call, NEW c \in Convs, DOMAIN call' = DOMAIN call,
         \A j \in DOMAIN call \ {k} : call'[j] = call[j],
         call[k].conv # c, call'[k].conv # c
  PROVE  AskedSame(c)
<1>1. \A j \in DOMAIN call : j # k => Alike(call'[j], call[j]) /\ call'[j].at = call[j].at
  BY DEF Alike
<1> QED
  BY <1>1, SameRequests

LEMMA CreateTracked ==
  ASSUME Typed, PageInv, NEW k \in DOMAIN call, NEW d \in Convs, Create(k, d),
         NEW c \in Convs, \A x \in Convs : Tracked(x)
  PROVE  Tracked(c)'
<1>1. /\ row[d] = Unborn /\ row' = [row EXCEPT ![d] = Untitled]
      /\ call[k].kind = "create" /\ call[k].at = "sent"
      /\ UNCHANGED <<load, shown, page, run, odd>>
  BY DEF Create
<1>2. /\ DOMAIN call' = DOMAIN call /\ call'[k].at = "made" /\ call'[k].kind = "create"
      /\ call'[k].conv = d /\ \A j \in DOMAIN call \ {k} : call'[j] = call[j]
  BY CreateCall
<1>3. call[k].conv \notin Convs
  BY <1>1 DEF Tracked, Young
<1>4. CASE d # c
  <2>1. AskedSame(c)
    BY <1>2, <1>3, <1>4, OthersMade
  <2>2. row'[c] = row[c]
    BY <1>1, <1>4 DEF Typed, TypeOK
  <2> QED
    BY <1>1, <2>1, <2>2, Untracked
<1>5. CASE d = c
  <2>1. row'[c] = Untitled
    BY <1>1, <1>5 DEF Typed, TypeOK
  <2>2. Creating(c)' /\ (Leaving(c)' <=> Leaving(c)) /\ Renaming(c)' = Renaming(c)
    <3>1. Creating(c)'
      BY <1>2, <1>5 DEF Creating
    <3>2. Leaving(c)' <=> Leaving(c)
      BY <1>1, <1>2 DEF Leaving
    <3>3. Renaming(c)' = Renaming(c)
      BY <1>1, <1>2 DEF Renaming
    <3> QED
      BY <3>1, <3>2, <3>3
  <2>3. Unannounced(c) /\ ~ Leaving(c) /\ ~ Creating(c)
    <3>1. row[c] # Gone
      BY <1>1, <1>5, Names
    <3>2. ~ Creating(c)
      BY <1>1, <1>5 DEF PageInv, Born
    <3> QED
      BY <1>1, <1>5, <3>1, <3>2 DEF Unannounced, Tracked, Young
  <2>4. run[c] = "none" /\ Renaming(c) = {} /\ page # c
    BY <2>3 DEF Tracked, Young
  <2>5. Young(c)'
    BY <1>1, <1>2, <2>1, <2>2, <2>3, <2>4 DEF Tracked, Young
  <2>6. OneChange(c)'
    BY <1>1, <2>2, <2>4 DEF OneChange, MadeRenames, Naming
  <2>7. ASSUME Plain(c)', load'.at = "read"
        PROVE  ToBeListed(c)'
    <3>1. Plain(c)
      BY <1>1, <2>7 DEF Plain
    <3>2. load.rows[c] = Unborn
      BY <1>1, <1>5, <2>7, <3>1 DEF Tracked, Followed, ToBeListed
    <3> QED
      BY <1>1, <2>1, <2>2, <3>2, Names DEF ToBeListed
  <2>8. AsListed(c)'
    BY <2>1, <2>2, Names DEF AsListed
  <2> QED
    BY <2>5, <2>6, <2>7, <2>8 DEF Tracked, Followed
<1> QED
  BY <1>4, <1>5

LEMMA RenameTracked ==
  ASSUME Typed, PageInv, NEW k \in DOMAIN call, Rename(k), NEW c \in Convs, Tracked(c)
  PROVE  Tracked(c)'
<1>1. PICK d \in Convs : d = call[k].conv
  BY DEF Rename, Typed, CallsNamed
<1>2. /\ call[k].kind = "rename" /\ call[k].at = "sent" /\ Stored(row[d])
      /\ row' = [row EXCEPT ![d] = call[k].title]
      /\ odd' = [odd EXCEPT ![d] = Crossing(d, k)]
      /\ UNCHANGED <<load, shown, page, run>>
  BY <1>1 DEF Rename, Refuses
<1>3. /\ DOMAIN call' = DOMAIN call /\ call'[k].at = "made" /\ Alike(call'[k], call[k])
      /\ \A j \in DOMAIN call \ {k} : call'[j] = call[j]
  BY <1>2, MakingCall DEF Rename
<1>4. CASE d # c
  <2>1. AskedSame(c)
    BY <1>1, <1>3, <1>4, OthersMade DEF Alike
  <2>2. row'[c] = row[c] /\ odd'[c] = odd[c]
    BY <1>2, <1>4 DEF Typed, TypeOK
  <2> QED
    BY <1>2, <2>1, <2>2, Untracked
<1>5. CASE d = c
  <2>1. row'[c] = call[k].title /\ odd'[c] = Crossing(c, k) /\ odd[c] \subseteq odd'[c]
    BY <1>2, <1>5 DEF Typed, TypeOK, Crossing
  <2>2. /\ call[k].title \in Named /\ Stored(row'[c])
    BY <2>1, CallRange DEF Typed, Call, Stored
  <2>3. /\ Renaming(c)' = Renaming(c) /\ k \in Renaming(c)
        /\ Creating(c)' <=> Creating(c)
        /\ Leaving(c)' <=> Leaving(c)
        /\ MadeRenames(c)' = MadeRenames(c) \cup {k}
        /\ \A j \in Renaming(c) : call'[j].title = call[j].title
    <3>1. call'[k].kind = "rename" /\ call'[k].conv = c /\ call'[k].title = call[k].title
      BY <1>1, <1>2, <1>3, <1>5 DEF Alike
    <3>2. Renaming(c)' = Renaming(c) /\ k \in Renaming(c)
      BY <1>1, <1>2, <1>3, <1>5, <3>1 DEF Renaming
    <3>3. (Creating(c)' <=> Creating(c)) /\ (Leaving(c)' <=> Leaving(c))
      BY <1>2, <1>3, <3>1 DEF Creating, Leaving
    <3>4. \A j \in Renaming(c) : /\ call'[j].title = call[j].title
                                 /\ j # k => call'[j].at = call[j].at
      BY <1>3, <3>1 DEF Renaming
    <3>5. MadeRenames(c)' = MadeRenames(c) \cup {k}
      BY <1>3, <3>2, <3>4 DEF MadeRenames
    <3> QED
      BY <3>2, <3>3, <3>4, <3>5
  <2>4. load.at = "listed" /\ ~ Unannounced(c)
    BY <2>3 DEF Tracked, Young
  <2>5. ~ Leaving(c) /\ ~ Unannounced(c)'
    <3>1. ~ Leaving(c)
      BY <1>2, <1>5, Names DEF Stored, Tracked, Young
    <3>2. row'[c] # Unborn
      BY <2>2, Names DEF Stored
    <3> QED
      BY <2>1, <2>3, <2>4, <3>1, <3>2 DEF Unannounced
  <2>6. Young(c)'
    <3>1. \A j \in DOMAIN call' : call'[j].kind = "create" /\ call'[j].conv = c =>
            call'[j].at = "made"
      BY <1>2, <1>3 DEF Tracked, Young, Alike
    <3> QED
      BY <1>2, <2>3, <2>4, <2>5, <3>1 DEF Young, Unannounced
  <2>7. ASSUME Plain(c)'
        PROVE  OneChange(c)' /\ AsListed(c)'
    <3>1. Plain(c) /\ ~ Naming(c) /\ MadeRenames(c) \subseteq {k}
      <4>1. "mixed" \notin Crossing(c, k)
        BY <2>1, <2>7 DEF Plain
      <4>2. ~ Naming(c) /\ \A j \in Renaming(c) \ {k} : call[j].at # "made"
        BY <4>1 DEF Crossing
      <4> QED
        BY <2>1, <2>7, <4>2 DEF Plain, MadeRenames
    <3>2. ~ Naming(c)' /\ MadeRenames(c)' = {k}
      BY <1>2, <2>3, <3>1 DEF Naming
    <3>3. OneChange(c)'
      BY <2>1, <2>3, <3>2 DEF OneChange
    <3>4. ~ Creating(c)
      BY <2>4, <3>1 DEF Unannounced, Plain
    <3>5. Len(shown[c]) = 1
      BY <1>2, <1>5, <2>4, <3>1, <3>4 DEF Tracked, Followed, AsListed
    <3>6. row'[c] # Gone
      BY <2>2, Names DEF Stored
    <3> QED
      BY <1>2, <3>2, <3>3, <3>5, <3>6 DEF AsListed
  <2>8. load'.at = "listed"
    BY <1>2, <2>4
  <2> QED
    BY <2>6, <2>7, <2>8 DEF Tracked, Followed
<1> QED
  BY <1>4, <1>5

LEMMA DeleteTracked ==
  ASSUME Typed, PageInv, NEW k \in DOMAIN call, Delete(k), NEW c \in Convs, Tracked(c)
  PROVE  Tracked(c)'
<1>1. PICK d \in Convs : d = call[k].conv
  BY DEF Delete, Typed, CallsNamed
<1>2. /\ call[k].kind = "remove" /\ call[k].at = "sent" /\ Stored(row[d])
      /\ row' = [row EXCEPT ![d] = Gone]
      /\ UNCHANGED <<load, shown, page, run, odd>>
  BY <1>1 DEF Delete, Refuses
<1>3. /\ DOMAIN call' = DOMAIN call /\ call'[k].at = "made" /\ Alike(call'[k], call[k])
      /\ \A j \in DOMAIN call \ {k} : call'[j] = call[j]
  BY <1>2, MakingCall DEF Delete
<1>4. CASE d # c
  <2>1. AskedSame(c)
    BY <1>1, <1>3, <1>4, OthersMade DEF Alike
  <2>2. row'[c] = row[c]
    BY <1>2, <1>4 DEF Typed, TypeOK
  <2> QED
    BY <1>2, <2>1, <2>2, Untracked
<1>5. CASE d = c
  <2>1. row'[c] = Gone /\ call'[k].kind = "remove" /\ call'[k].conv = c
    BY <1>1, <1>2, <1>3, <1>5 DEF Typed, TypeOK, Alike
  <2>2. Leaving(c)'
    BY <1>3, <2>1 DEF Leaving
  <2>3. /\ Renaming(c)' = Renaming(c) /\ (Creating(c)' <=> Creating(c))
        /\ MadeRenames(c)' = MadeRenames(c)
        /\ \A j \in MadeRenames(c) : call'[j].title = call[j].title
    <3>1. Renaming(c)' = Renaming(c) /\ \A j \in Renaming(c) : call'[j] = call[j]
      BY <1>2, <1>3, <2>1 DEF Renaming
    <3>2. Creating(c)' <=> Creating(c)
      BY <1>2, <1>3, <2>1 DEF Creating
    <3> QED
      BY <3>1, <3>2 DEF MadeRenames
  <2>4. Removing(c) /\ load.at = "listed"
    BY <1>1, <1>2, <1>5 DEF Removing, PageInv, Born
  <2>5. ~ Unannounced(c) /\ ~ Unannounced(c)'
    <3>1. ~ Unannounced(c)
      BY <2>4 DEF Unannounced, PageInv, Born, EarlyKnown
    <3> QED
      BY <1>2, <2>1, <2>3, <3>1, Names DEF Unannounced
  <2>6. Young(c)'
    <3>1. \A j \in DOMAIN call' : call'[j].kind = "create" /\ call'[j].conv = c =>
            call'[j].at = "made"
      BY <1>3 DEF Tracked, Young
    <3> QED
      BY <1>2, <2>1, <2>4, <2>5, <3>1 DEF Young, Unannounced
  <2>7. ASSUME Plain(c)'
        PROVE  OneChange(c)' /\ AsListed(c)'
    <3>1. OneChange(c)
      BY <1>2, <2>7 DEF Plain, Tracked, Followed
    <3>2. OneChange(c)'
      BY <1>2, <2>1, <2>3, <3>1 DEF OneChange, Naming
    <3> QED
      BY <2>1, <2>2, <3>2, Names DEF AsListed, Stored
  <2> QED
    BY <1>2, <2>4, <2>6, <2>7 DEF Tracked, Followed
<1> QED
  BY <1>4, <1>5

LEMMA TitleTracked ==
  ASSUME Typed, PageInv, NEW d \in Convs, SetTitle(d), NEW c \in Convs, Tracked(c)
  PROVE  Tracked(c)'
<1>1. /\ run[d] = "running" /\ run' = [run EXCEPT ![d] = "named"]
      /\ UNCHANGED <<load, shown, page, call>>
      /\ \/ row' = row
         \/ Stored(row[d]) /\ row' = [row EXCEPT ![d] = FirstWords]
  BY DEF SetTitle
<1>2. AskedSame(c)
  BY <1>1, SameRequests DEF Alike
<1>3. CASE d # c
  <2>1. row'[c] = row[c] /\ run'[c] = run[c] /\ odd'[c] = odd[c]
    BY <1>1, <1>3 DEF SetTitle, Typed, TypeOK
  <2> QED
    BY <1>1, <1>2, <2>1, Untracked
<1>4. CASE d = c
  <2>1. /\ run'[c] = "named" /\ Naming(c)' /\ odd[c] \subseteq odd'[c]
        /\ row'[c] = row[c] \/ (Stored(row[c]) /\ row'[c] = FirstWords)
    BY <1>1, <1>4 DEF SetTitle, Crossing, Typed, TypeOK, Naming
  <2>2. ~ Unannounced(c)
    BY <1>1, <1>4 DEF Tracked, Young
  <2>3. ~ Unannounced(c)'
    BY <1>2, <2>1, <2>2, Names DEF Unannounced, AskedSame
  <2>4. Leaving(c)' => row'[c] = Gone
    BY <1>2, <2>1, Names DEF Tracked, Young, AskedSame, Stored
  <2>5. Young(c)'
    BY <1>1, <1>2, <2>3, <2>4 DEF Tracked, Young, AskedSame, Unannounced
  <2>6. ASSUME Plain(c)'
        PROVE  /\ OneChange(c)'
               /\ load.at = "read" => ToBeListed(c)'
               /\ load.at = "listed" => AsListed(c)'
    <3>1. Plain(c) /\ MadeRenames(c) = {} /\ row'[c] \in {FirstWords, Gone}
      <4>1. PICK lost : odd' = [odd EXCEPT ![d] = Crossing(d, 0) \cup lost]
                         /\ (row' = row /\ row[d] \notin {FirstWords, Gone} => "lost" \in lost)
        BY DEF SetTitle
      <4>2. odd'[c] = Crossing(c, 0) \cup lost
        BY <1>4, <4>1 DEF Typed, TypeOK
      <4>3. "mixed" \notin Crossing(c, 0) /\ "lost" \notin lost
        BY <2>6, <4>2 DEF Plain
      <4>4. \A j \in Renaming(c) : call[j].at # "made"
        <5>1. \A j \in Renaming(c) : j # 0
          BY CallRange DEF Renaming, Typed
        <5> QED
          BY <4>3, <5>1 DEF Crossing
      <4>5. row'[c] \in {FirstWords, Gone}
        BY <1>1, <1>4, <2>1, <4>1, <4>3 DEF Typed, TypeOK
      <4> QED
        BY <2>1, <2>6, <4>4, <4>5 DEF Plain, MadeRenames
    <3>2. MadeRenames(c)' = {}
      BY <1>2, <3>1, MadeSame
    <3>3. OneChange(c)'
      BY <3>1, <3>2 DEF OneChange
    <3>4. ~ Creating(c) /\ ~ Creating(c)'
      BY <1>2, <2>2, <3>1 DEF Unannounced, Plain, AskedSame
    <3>5. ASSUME load.at = "read"
          PROVE  ToBeListed(c)'
      <4>1. row[c] # Gone
        BY <3>5 DEF PageInv, Born
      <4>2. row'[c] = FirstWords
        BY <2>1, <3>1, <4>1
      <4>3. Stored(row[c])
        BY <2>1, <4>2, Names DEF Stored
      <4>4. ToBeListed(c)
        BY <3>1, <3>5 DEF Tracked, Followed
      <4> QED
        BY <1>1, <2>1, <3>4, <4>2, <4>3, <4>4, Names DEF ToBeListed
    <3>6. ASSUME load.at = "listed"
          PROVE  AsListed(c)'
      <4>1. AsListed(c)
        BY <3>1, <3>6 DEF Tracked, Followed
      <4>2. row'[c] = Gone => row[c] = Gone
        BY <2>1, Names
      <4>3. Stored(row'[c]) => Stored(row[c])
        BY <2>1
      <4>4. Leaving(c)' <=> Leaving(c)
        BY <1>2 DEF AskedSame
      <4> QED
        BY <1>1, <2>1, <3>4, <4>1, <4>2, <4>3, <4>4 DEF AsListed
    <3> QED
      BY <3>3, <3>5, <3>6
  <2> QED
    BY <1>1, <2>5, <2>6 DEF Tracked, Followed
<1> QED
  BY <1>3, <1>4

LEMMA ApiTracked ==
  ASSUME Typed, PageInv, Api, \A x \in Convs : Tracked(x), NEW c \in Convs
  PROVE  Tracked(c)'
<1>1. CASE ListRead
  <2>1. /\ load.at = "sent" /\ load'.at = "read" /\ load'.rows = row
        /\ UNCHANGED <<row, shown, page, run, call, odd>>
    BY <1>1 DEF ListRead
  <2>2. AskedSame(c)
    BY <2>1, SameRequests DEF Alike
  <2>3. row[c] # Gone /\ Tracked(c)
    BY <2>1 DEF PageInv, Born
  <2>4. Young(c)'
    BY <2>1, <2>2, <2>3 DEF Tracked, Young, AskedSame, Unannounced
  <2>5. OneChange(c) => OneChange(c)'
    BY <2>1, <2>2, MadeSame DEF OneChange, AskedSame, Naming
  <2>6. ToBeListed(c)'
    BY <2>1, <2>3 DEF ToBeListed
  <2> QED
    BY <2>1, <2>3, <2>4, <2>5, <2>6 DEF Tracked, Followed, Plain
<1>2. ASSUME NEW k \in DOMAIN call, NEW d \in Convs, Create(k, d)
      PROVE  Tracked(c)'
  BY <1>2, CreateTracked
<1>3. ASSUME NEW k \in DOMAIN call, Rename(k) \/ Delete(k)
      PROVE  Tracked(c)'
  BY <1>3, RenameTracked, DeleteTracked
<1>4. ASSUME NEW d \in Convs, SetTitle(d)
      PROVE  Tracked(c)'
  BY <1>4, TitleTracked
<1>5. ASSUME NEW d \in Convs, RunEnds(d)
      PROVE  Tracked(c)'
  <2>1. /\ UNCHANGED <<row, load, shown, page, call, odd>>
        /\ run[d] = "running" /\ run' = [run EXCEPT ![d] = "over"]
    BY <1>5 DEF RunEnds
  <2>2. AskedSame(c)
    BY <2>1, SameRequests DEF Alike
  <2>3. Naming(c)' <=> Naming(c)
    BY <2>1 DEF Naming, Typed, TypeOK
  <2>4. Unannounced(c) => run'[c] = run[c]
    BY <2>1 DEF Tracked, Young, Typed, TypeOK
  <2>5. Young(c)'
    BY <2>1, <2>2, <2>4, YoungKept DEF Tracked, Young, AskedSame
  <2>6. Followed(c)'
    BY <2>1, <2>2, <2>3, MadeSame, FollowedKept DEF Tracked, AskedSame
  <2> QED
    BY <2>5, <2>6 DEF Tracked
<1> QED
  BY <1>1, <1>2, <1>3, <1>4, <1>5 DEF Api

LEMMA RetitledShows ==
  ASSUME TypeOK, NEW c \in Convs, NEW t \in Named, shown' = Retitled(c, t)
  PROVE  /\ \A d \in Convs \ {c} : shown'[d] = shown[d]
         /\ shown'[c] = <<>> <=> shown[c] = <<>>
         /\ shown'[c] # <<>> => Head(shown'[c]) = t
         /\ Len(shown'[c]) = Len(shown[c])
         /\ Len(shown[c]) = 1 => shown'[c] = <<t>>
<1>1. shown[c] \in Seq(Named)
  BY DEF TypeOK
<1>2. PICK s : s = [i \in DOMAIN shown[c] |-> t]
  OBVIOUS
<1>3. DOMAIN shown[c] = 1 .. Len(shown[c]) /\ Len(shown[c]) \in Nat
  BY <1>1
<1>4. s \in Seq(Named) /\ Len(s) = Len(shown[c])
  BY <1>2, <1>3
<1>5. Retitled(c, t) = [shown EXCEPT ![c] = s]
  BY <1>2 DEF Retitled
<1>6. shown'[c] = s /\ \A d \in Convs \ {c} : shown'[d] = shown[d]
  BY <1>5 DEF TypeOK
<1>7. s = <<>> <=> shown[c] = <<>>
  BY <1>1, <1>4
<1>8. s # <<>> => Head(s) = t
  BY <1>2, <1>3, <1>4
<1>9. Len(shown[c]) = 1 => s = <<t>>
  BY <1>2, <1>3, <1>4
<1> QED
  BY <1>4, <1>6, <1>7, <1>8, <1>9

LEMMA ListedTracked ==
  ASSUME Typed, PageInv, Listed, NEW c \in Convs, Tracked(c)
  PROVE  Tracked(c)'
<1>1. /\ load.at = "read" /\ load'.at = "listed"
      /\ UNCHANGED <<row, call, run, page>>
      /\ shown'[c] = Entry(load.rows[c]) /\ odd[c] \subseteq odd'[c]
      /\ shown'[c] # <<>> /\ Creating(c) => "early" \in odd'[c]
  BY DEF Listed, ListedAs
<1>2. AskedSame(c)
  BY <1>1, SameRequests DEF Alike
<1>3. row[c] # Gone
  BY <1>1 DEF PageInv, Born
<1>4. Young(c)'
  BY <1>1, <1>2 DEF Tracked, Young, AskedSame, Unannounced
<1>5. ASSUME Plain(c)'
      PROVE  OneChange(c)' /\ AsListed(c)'
  <2>1. Plain(c) /\ ~ ("early" \in odd'[c])
    BY <1>1, <1>5 DEF Plain
  <2>2. OneChange(c) /\ ToBeListed(c)
    BY <1>1, <2>1 DEF Tracked, Followed
  <2>3. OneChange(c)'
    BY <1>1, <1>2, <2>2, MadeSame DEF OneChange, AskedSame, Naming
  <2>4. ASSUME Stored(row[c]), ~ Creating(c)
        PROVE  Stored(load.rows[c]) /\ shown'[c] = <<load.rows[c]>>
    BY <1>1, <2>2, <2>4 DEF ToBeListed, Entry
  <2>5. ASSUME Stored(row[c]), ~ Creating(c), ~ Naming(c)
        PROVE  shown'[c] = <<row[c]>>
    BY <2>2, <2>4, <2>5 DEF ToBeListed
  <2>6. ASSUME Stored(row[c]), ~ Creating(c)
        PROVE  Len(shown'[c]) = 1
    BY <2>4, <2>6
  <2>7. (Creating(c)' <=> Creating(c)) /\ (Naming(c)' <=> Naming(c))
    BY <1>1, <1>2 DEF AskedSame, Naming
  <2> QED
    BY <1>1, <1>3, <2>3, <2>5, <2>6, <2>7 DEF AsListed
<1> QED
  BY <1>1, <1>4, <1>5 DEF Tracked, Followed

LEMMA CreatedTracked ==
  ASSUME Typed, PageInv, NEW k \in DOMAIN call, Created(k), NEW c \in Convs, Tracked(c)
  PROVE  Tracked(c)'
<1>1. PICK d \in Convs : d = call[k].conv
  BY DEF Created, Typed, CallsNamed
<1>2. /\ call[k].kind = "create" /\ page' = d /\ UNCHANGED <<row, load>>
      /\ shown' = [shown EXCEPT ![d] = <<Untitled>> \o shown[d]]
      /\ run' = [run EXCEPT ![d] = IF run[d] = "none" THEN "running" ELSE run[d]]
      /\ odd' = [odd EXCEPT ![d] = odd[d] \cup Overtaken(d, {Untitled})]
      /\ call' = Over(k)
  BY <1>1, Zenon DEF Created
<1>3. CASE d # c
  <2>1. AskedSame(c)
    BY <1>1, <1>2, <1>3, OthersAnswered
  <2>2. shown'[c] = shown[c] /\ run'[c] = run[c] /\ odd'[c] = odd[c] /\ page' # c
    BY <1>2, <1>3 DEF Typed, TypeOK
  <2> QED
    BY <1>2, <2>1, <2>2, Untracked
<1>4. CASE d = c
  <2>1. /\ run'[c] = (IF run[c] = "none" THEN "running" ELSE run[c])
        /\ odd'[c] = odd[c] \cup Overtaken(c, {Untitled})
        /\ shown'[c] = <<Untitled>> \o shown[c]
    BY <1>2, <1>4 DEF Typed, TypeOK
  <2>2. Creating(c) /\ row[c] # Unborn
    BY <1>1, <1>2, <1>4 DEF Creating, PageInv, Born
  <2>3. /\ DOMAIN call' = DOMAIN call /\ call'[k].kind = "done"
        /\ \A j \in DOMAIN call \ {k} : call'[j] = call[j]
    BY <1>2, OverCall
  <2>4. /\ Renaming(c)' = Renaming(c) /\ (Leaving(c)' <=> Leaving(c))
        /\ MadeRenames(c)' = MadeRenames(c)
        /\ \A j \in MadeRenames(c) : call'[j] = call[j]
    <3>1. Renaming(c)' = Renaming(c) /\ \A j \in Renaming(c) : call'[j] = call[j]
      BY <1>2, <2>3 DEF Renaming
    <3>2. Leaving(c)' <=> Leaving(c)
      BY <1>2, <2>3 DEF Leaving
    <3> QED
      BY <3>1, <3>2 DEF MadeRenames
  <2>5. ~ Creating(c)'
    BY <1>1, <1>2, <1>4, <2>3 DEF Creating, PageInv, Born
  <2>6. Young(c)'
    <3>1. \A j \in DOMAIN call' : call'[j].kind = "create" /\ call'[j].conv = c =>
            call'[j].at = "made"
      BY <2>3 DEF Tracked, Young
    <3> QED
      BY <1>2, <2>2, <2>4, <2>5, <3>1 DEF Tracked, Young, Unannounced
  <2>7. ASSUME Plain(c)'
        PROVE  /\ OneChange(c)'
               /\ load.at = "read" => ToBeListed(c)'
               /\ load.at = "listed" => AsListed(c)'
    <3>1. Plain(c) /\ "mixed" \notin Overtaken(c, {Untitled})
      BY <2>1, <2>7 DEF Plain
    <3>2. /\ row[c] = Untitled /\ run[c] = "none" /\ Renaming(c) = {}
          /\ ~ Removing(c) /\ shown[c] = <<>>
      BY <2>2, <3>1 DEF Plain, Tracked, Young, Unannounced, PageInv, EarlyKnown
    <3>3. ~ Naming(c)' /\ MadeRenames(c) = {}
      BY <2>1, <3>2 DEF Naming, MadeRenames
    <3>4. OneChange(c)'
      BY <2>4, <3>3 DEF OneChange
    <3>5. ASSUME load.at = "read"
          PROVE  ToBeListed(c)'
      <4>1. load.rows[c] = Untitled
        BY <3>1, <3>5 DEF Overtaken
      <4> QED
        BY <1>2, <2>5, <3>2, <4>1, Names DEF ToBeListed, Stored
    <3>6. ASSUME load.at = "listed"
          PROVE  AsListed(c)'
      <4>1. shown'[c] = <<Untitled>> /\ Len(shown'[c]) = 1
        BY <2>1, <3>2
      <4> QED
        BY <1>2, <3>2, <4>1, Names DEF AsListed
    <3> QED
      BY <3>4, <3>5, <3>6
  <2> QED
    BY <1>2, <2>6, <2>7 DEF Tracked, Followed
<1> QED
  BY <1>3, <1>4

\* The answer to a change of c: what is under way of the others is as before.
LEMMA OneLess ==
  ASSUME Typed, NEW k \in DOMAIN call, call' = Over(k), NEW c \in Convs
  PROVE  /\ Renaming(c)' = Renaming(c) \ {k}
         /\ MadeRenames(c)' = MadeRenames(c) \ {k}
         /\ \A j \in Renaming(c)' : call'[j] = call[j]
         /\ Creating(c)' => Creating(c)
         /\ Leaving(c)' => Leaving(c)
         /\ call[k].kind # "create" => (Creating(c)' <=> Creating(c))
         /\ call[k].kind # "remove" \/ call[k].at # "made" => (Leaving(c)' <=> Leaving(c))
         /\ Young(c) => \A j \in DOMAIN call' :
              call'[j].kind = "create" /\ call'[j].conv = c => call'[j].at = "made"
<1>1. /\ DOMAIN call' = DOMAIN call /\ call'[k].kind = "done"
      /\ \A j \in DOMAIN call \ {k} : call'[j] = call[j]
  BY OverCall
<1>2. Renaming(c)' = Renaming(c) \ {k}
  BY <1>1 DEF Renaming
<1>3. \A j \in Renaming(c)' : call'[j] = call[j]
  BY <1>1 DEF Renaming
<1>4. MadeRenames(c)' = MadeRenames(c) \ {k}
  BY <1>2, <1>3 DEF MadeRenames
<1>5. Creating(c)' => Creating(c)
  BY <1>1 DEF Creating
<1>6. Leaving(c)' => Leaving(c)
  BY <1>1 DEF Leaving
<1>7. call[k].kind # "create" => (Creating(c)' <=> Creating(c))
  BY <1>1 DEF Creating
<1>8. call[k].kind # "remove" \/ call[k].at # "made" => (Leaving(c)' <=> Leaving(c))
  BY <1>1 DEF Leaving
<1>9. Young(c) => \A j \in DOMAIN call' :
        call'[j].kind = "create" /\ call'[j].conv = c => call'[j].at = "made"
  BY <1>1 DEF Young
<1> QED
  BY <1>2, <1>3, <1>4, <1>5, <1>6, <1>7, <1>8, <1>9

LEMMA RenamedTracked ==
  ASSUME Typed, PageInv, NEW k \in DOMAIN call, Renamed(k), NEW c \in Convs, Tracked(c)
  PROVE  Tracked(c)'
<1>1. PICK d \in Convs : d = call[k].conv
  BY DEF Renamed, Typed, CallsNamed
<1>2. PICK t : t = call[k].title
  OBVIOUS
<1>3. t \in Named
  BY <1>2, CallRange DEF Typed, Call
<1>4. /\ call[k].kind = "rename" /\ call[k].at = "made" /\ call' = Over(k)
      /\ shown' = Retitled(d, t)
      /\ odd' = [odd EXCEPT ![d] = odd[d] \cup Overtaken(d, {t})]
      /\ UNCHANGED <<row, load, run, page>>
  BY <1>1, <1>2, Zenon DEF Renamed
<1>5. /\ \A x \in Convs \ {d} : shown'[x] = shown[x]
      /\ shown'[d] = <<>> <=> shown[d] = <<>>
      /\ Len(shown[d]) = 1 => shown'[d] = <<t>>
  BY <1>3, <1>4, RetitledShows DEF Typed
<1>6. odd[c] \subseteq odd'[c]
  BY <1>4, OddSets
<1>7. CASE d # c
  <2>1. AskedSame(c)
    BY <1>1, <1>4, <1>7, OthersAnswered
  <2> QED
    BY <1>4, <1>5, <1>6, <1>7, <2>1, Untracked
<1>8. CASE d = c
  <2>1. k \in Renaming(c) /\ k \in MadeRenames(c)
    BY <1>1, <1>4, <1>8 DEF MadeRenames, Renaming
  <2>2. load.at = "listed" /\ ~ Unannounced(c)
    BY <2>1 DEF Tracked, Young
  <2>3. Young(c)'
    BY <1>4, <1>6, OneLess, YoungKept DEF Tracked
  <2>4. ASSUME Plain(c)'
        PROVE  OneChange(c)' /\ AsListed(c)'
    <3>1. Plain(c)
      BY <1>6, <2>4 DEF Plain
    <3>2. OneChange(c) /\ AsListed(c)
      BY <2>2, <3>1 DEF Tracked, Followed
    <3>3. MadeRenames(c)' = {} /\ ~ Naming(c) /\ row[c] \in {t, Gone}
      BY <1>2, <1>4, <2>1, <3>2, OneLess DEF OneChange
    <3>4. OneChange(c)'
      BY <1>4, <3>3 DEF OneChange, Naming
    <3>5. (Creating(c)' <=> Creating(c)) /\ (Leaving(c)' <=> Leaving(c))
      BY <1>4, OneLess
    <3>6. ASSUME Stored(row[c]), ~ Creating(c)
          PROVE  shown'[c] = <<t>> /\ row[c] = t
      BY <1>5, <1>8, <3>2, <3>3, <3>6, Names DEF AsListed, Stored
    <3>7. ASSUME Stored(row[c]), ~ Creating(c)
          PROVE  shown'[c] = <<row[c]>> /\ Len(shown'[c]) = 1
      BY <3>6, <3>7
    <3>8. row[c] = Gone => shown'[c] = <<>> \/ Leaving(c)
      BY <1>5, <1>8, <3>2 DEF AsListed
    <3> QED
      BY <1>4, <3>4, <3>5, <3>7, <3>8 DEF AsListed
  <2> QED
    BY <1>4, <2>2, <2>3, <2>4 DEF Tracked, Followed
<1> QED
  BY <1>7, <1>8

LEMMA RemovedTracked ==
  ASSUME Typed, PageInv, NEW k \in DOMAIN call, Removed(k), NEW c \in Convs, Tracked(c)
  PROVE  Tracked(c)'
<1>1. PICK d \in Convs : d = call[k].conv
  BY DEF Removed, Typed, CallsNamed
<1>2. /\ call[k].kind = "remove" /\ call[k].at = "made" /\ call' = Over(k)
      /\ shown' = [shown EXCEPT ![d] = <<>>]
      /\ page' \in {Home, page}
      /\ odd' = [odd EXCEPT ![d] = odd[d] \cup Overtaken(d, {Unborn, Gone})]
      /\ UNCHANGED <<row, load, run>>
  BY <1>1, Zenon DEF Removed, PageAfterRemoval
<1>3. odd[c] \subseteq odd'[c]
  BY <1>2, OddSets
<1>4. page' = c => page = c
  BY <1>2, ConversationListAssumption
<1>5. CASE d # c
  <2>1. AskedSame(c)
    BY <1>1, <1>2, <1>5, OthersAnswered
  <2>2. shown'[c] = shown[c]
    BY <1>2, <1>5 DEF Typed, TypeOK
  <2> QED
    BY <1>2, <1>3, <1>4, <2>1, <2>2, Untracked
<1>6. CASE d = c
  <2>1. shown'[c] = <<>>
    BY <1>2, <1>6 DEF Typed, TypeOK
  <2>2. Leaving(c) /\ Removing(c)
    BY <1>1, <1>2, <1>6 DEF Leaving, Removing
  <2>3. row[c] = Gone /\ load.at = "listed"
    BY <2>2 DEF Tracked, Young, PageInv, Born
  <2>4. Young(c)'
    BY <1>2, <1>3, <1>4, OneLess, YoungKept DEF Tracked
  <2>5. k \notin Renaming(c) /\ k \notin MadeRenames(c)
    BY <1>2 DEF MadeRenames, Renaming
  <2>6. OneChange(c) => OneChange(c)'
    <3>0. MadeRenames(c)' = MadeRenames(c) \ {k} /\ Renaming(c)' = Renaming(c) \ {k}
      BY <1>2, OneLess
    <3>1. MadeRenames(c)' = MadeRenames(c) /\ Renaming(c)' = Renaming(c)
      BY <2>5, <3>0
    <3>2. \A j \in MadeRenames(c) : call'[j] = call[j]
      BY <1>2, <3>1, OneLess DEF MadeRenames
    <3> QED
      BY <1>2, <3>1, <3>2 DEF OneChange, Naming
  <2>7. AsListed(c)'
    BY <1>2, <2>1, <2>3, Names DEF AsListed, Stored
  <2>8. Plain(c)' => Plain(c)
    BY <1>3 DEF Plain
  <2> QED
    BY <1>2, <2>3, <2>4, <2>6, <2>7, <2>8 DEF Tracked, Followed
<1> QED
  BY <1>5, <1>6

LEMMA FailsTracked ==
  ASSUME Typed, PageInv, NEW k \in DOMAIN call, Fails(k), NEW c \in Convs, Tracked(c)
  PROVE  Tracked(c)'
<1>1. /\ call' = Over(k) /\ UNCHANGED <<row, load, shown, run, page>>
      /\ call[k].at \in {"sent", "made"}
      /\ odd[c] \subseteq odd'[c]
      /\ c = call[k].conv /\ call[k].at = "made" => "lost" \in odd'[c]
  BY DEF Fails
<1>2. CASE c # call[k].conv
  <2>1. AskedSame(c)
    BY <1>1, <1>2, OthersAnswered
  <2> QED
    BY <1>1, <2>1, Untracked
<1>3. CASE c = call[k].conv
  <2>1. Young(c)'
    BY <1>1, OneLess, YoungKept DEF Tracked
  <2>2. CASE call[k].at = "made"
    <3>1. ~ Plain(c)'
      BY <1>1, <1>3, <2>2 DEF Plain
    <3> QED
      BY <2>1, <3>1 DEF Tracked, Followed
  <2>3. CASE call[k].at = "sent"
    <3>1. call[k].kind # "create" /\ call[k].at # "made"
      BY <1>3, <2>3 DEF Tracked, Young
    <3>2. k \notin MadeRenames(c)
      BY <3>1 DEF MadeRenames
    <3>3. /\ (Creating(c)' <=> Creating(c)) /\ (Leaving(c)' <=> Leaving(c))
          /\ MadeRenames(c)' = MadeRenames(c)
      BY <1>1, <3>1, <3>2, OneLess
    <3>4. \A j \in MadeRenames(c) : call'[j].title = call[j].title
      BY <1>1, <3>2, OneLess DEF MadeRenames
    <3>5. Followed(c)'
      BY <1>1, <3>3, <3>4, FollowedKept DEF Tracked, Naming
    <3> QED
      BY <2>1, <3>5 DEF Tracked
  <2> QED
    BY <1>1, <2>2, <2>3
<1> QED
  BY <1>2, <1>3

LEMMA PatchedTracked ==
  ASSUME Typed, PageInv, NEW d \in Convs, Patched(d), NEW c \in Convs, Tracked(c)
  PROVE  Tracked(c)'
<1>1. /\ Naming(d) /\ run' = [run EXCEPT ![d] = "over"]
      /\ UNCHANGED <<row, load, call, page>>
      /\ \/ /\ shown' = Retitled(d, FirstWords)
            /\ odd' = [odd EXCEPT ![d] = odd[d] \cup {"left"} \cup Overtaken(d, {FirstWords})]
         \/ /\ odd' = [odd EXCEPT ![d] = odd[d] \cup {"lost"}]
            /\ shown' = shown
  BY Zenon DEF Patched
<1>2. AskedSame(c)
  BY <1>1, SameRequests DEF Alike
<1>3. CASE d # c
  <2>1. run'[c] = run[c] /\ odd'[c] = odd[c] /\ shown'[c] = shown[c]
    BY <1>1, <1>3, Names, RetitledShows DEF Typed, TypeOK
  <2> QED
    BY <1>1, <1>2, <2>1, Untracked
<1>4. CASE d = c
  <2>1. run[c] = "named" /\ run'[c] = "over" /\ odd[c] \subseteq odd'[c]
    <3>1. PICK w : odd[c] \subseteq w /\ odd' = [odd EXCEPT ![c] = w]
      BY <1>1, <1>4
    <3> QED
      BY <1>1, <1>4, <3>1 DEF Naming, Typed, TypeOK
  <2>2. ~ Unannounced(c)
    BY <2>1 DEF Tracked, Young
  <2>3. Young(c)'
    BY <1>1, <1>2, <2>1, <2>2, YoungKept DEF Tracked, Young, AskedSame
  <2>4. ASSUME Plain(c)'
        PROVE  /\ OneChange(c)'
               /\ load.at = "read" => ToBeListed(c)'
               /\ load.at = "listed" => AsListed(c)'
    <3>1. shown' = Retitled(c, FirstWords) /\ "mixed" \notin Overtaken(c, {FirstWords})
      <4>1. CASE odd' = [odd EXCEPT ![d] = odd[d] \cup {"lost"}]
        <5>1. "lost" \in odd'[c]
          BY <1>4, <4>1 DEF Typed, TypeOK
        <5> QED
          BY <2>4, <5>1 DEF Plain
      <4>2. CASE /\ shown' = Retitled(d, FirstWords)
                 /\ odd' = [odd EXCEPT ![d] = odd[d] \cup {"left"}
                                                \cup Overtaken(d, {FirstWords})]
        <5>1. odd'[c] = odd[c] \cup {"left"} \cup Overtaken(c, {FirstWords})
          BY <1>4, <4>2 DEF Typed, TypeOK
        <5> QED
          BY <1>4, <2>4, <4>2, <5>1 DEF Plain
      <4> QED
        BY <1>1, <4>1, <4>2
    <3>2. Plain(c)
      BY <2>1, <2>4 DEF Plain
    <3>3. OneChange(c) /\ Naming(c)
      BY <2>1, <3>2 DEF Tracked, Followed, Naming
    <3>4. /\ MadeRenames(c) = {} /\ row[c] \in {FirstWords, Gone}
          /\ MadeRenames(c)' = {} /\ ~ Naming(c)'
      BY <1>2, <2>1, <3>3, MadeSame DEF OneChange, Naming
    <3>5. OneChange(c)'
      BY <3>4 DEF OneChange
    <3>6. ~ Creating(c) /\ ~ Creating(c)' /\ (Leaving(c)' <=> Leaving(c))
      BY <1>2, <2>2, <3>2 DEF Unannounced, Plain, AskedSame
    <3>7. ASSUME load.at = "read"
          PROVE  ToBeListed(c)'
      <4>1. row[c] = FirstWords
        BY <3>4, <3>7 DEF PageInv, Born
      <4>2. load.rows[c] = FirstWords
        BY <3>1, <3>7 DEF Overtaken
      <4> QED
        BY <1>1, <3>6, <4>1, <4>2, Names DEF ToBeListed, Stored
    <3>8. ASSUME load.at = "listed"
          PROVE  AsListed(c)'
      <4>1. AsListed(c)
        BY <3>2, <3>8 DEF Tracked, Followed
      <4>2. /\ shown'[c] = <<>> <=> shown[c] = <<>>
            /\ Len(shown[c]) = 1 => shown'[c] = <<FirstWords>>
        BY <3>1, Names, RetitledShows DEF Typed
      <4>3. Stored(row[c]) => shown'[c] = <<FirstWords>> /\ row[c] = FirstWords
        BY <3>4, <3>6, <4>1, <4>2, Names DEF AsListed, Stored
      <4>4. Stored(row[c]) => shown'[c] = <<row[c]>> /\ Len(shown'[c]) = 1
        BY <4>3
      <4>5. row[c] = Gone => shown'[c] = <<>> \/ Leaving(c)
        BY <4>1, <4>2 DEF AsListed
      <4> QED
        BY <1>1, <3>6, <4>4, <4>5 DEF AsListed
    <3> QED
      BY <3>5, <3>7, <3>8
  <2> QED
    BY <1>1, <2>3, <2>4 DEF Tracked, Followed
<1> QED
  BY <1>3, <1>4

LEMMA AnswersTracked ==
  ASSUME Typed, PageInv, Answers, NEW c \in Convs, Tracked(c)
  PROVE  Tracked(c)'
<1>1. CASE Listed
  BY <1>1, ListedTracked
<1>2. CASE ListFails
  <2>1. /\ load.at # "listed" /\ load'.at = "failed"
        /\ UNCHANGED <<row, shown, call, run, page, odd>>
    BY <1>2 DEF ListFails
  <2>2. AskedSame(c)
    BY <2>1, SameRequests DEF Alike
  <2>3. Young(c)'
    BY <2>1, <2>2 DEF Tracked, Young, AskedSame, Unannounced
  <2>4. OneChange(c) => OneChange(c)'
    BY <2>1, <2>2, MadeSame DEF OneChange, AskedSame, Naming
  <2> QED
    BY <2>1, <2>3, <2>4 DEF Tracked, Followed, Plain
<1>3. ASSUME NEW k \in DOMAIN call, Created(k) \/ Renamed(k) \/ Removed(k) \/ Fails(k)
      PROVE  Tracked(c)'
  BY <1>3, CreatedTracked, RenamedTracked, RemovedTracked, FailsTracked
<1>4. ASSUME NEW d \in Convs, Patched(d)
      PROVE  Tracked(c)'
  BY <1>4, PatchedTracked
<1> QED
  BY <1>1, <1>2, <1>3, <1>4 DEF Answers

AllTracked == \A c \in Convs : Tracked(c)

LEMMA InitTracked == Init => AllTracked
<1> SUFFICES ASSUME Init, NEW c \in Convs PROVE Tracked(c)
  BY DEF AllTracked
<1>1. DOMAIN call = {} /\ load.at = "sent" /\ page # c
  BY ConversationListAssumption DEF Init
<1>2. Renaming(c) = {} /\ MadeRenames(c) = {} /\ ~ Creating(c) /\ ~ Leaving(c)
  BY <1>1 DEF Renaming, MadeRenames, Creating, Leaving
<1>3. ~ Naming(c) /\ (row[c] = Unborn => run[c] = "none")
  BY Names DEF Init, Naming
<1> QED
  BY <1>1, <1>2, <1>3 DEF Tracked, Young, Followed, Unannounced, OneChange

LEMMA StepTracked ==
  Typed /\ NothingLeftWaiting /\ PageInv /\ AllTracked /\ [Next]_vars => AllTracked'
<1>1. UNCHANGED vars /\ AllTracked => AllTracked'
  BY DEF vars, AllTracked, Tracked, Young, Followed, Unannounced, OneChange, ToBeListed,
         AsListed, Plain, MadeRenames, Renaming, Creating, Leaving, Naming
<1>2. ASSUME Typed, NothingLeftWaiting, PageInv, AllTracked, Next, NEW c \in Convs
      PROVE  Tracked(c)'
  BY <1>2, UserTracked, ApiTracked, AnswersTracked DEF Next, AllTracked
<1> QED
  BY <1>1, <1>2 DEF AllTracked

ListInv == Typed /\ NothingLeftWaiting /\ PageInv /\ AllTracked

LEMMA ListInvariant == Spec => []ListInv
<1>1. Init => ListInv
  BY InitTyped, InitWaits, InitPage, InitTracked DEF ListInv
<1>2. ListInv /\ [Next]_vars => ListInv'
  BY StepTyped, StepWaits, StepPage, StepTracked DEF ListInv
<1> QED
  BY <1>1, <1>2, PTL DEF Spec

(***************************************************************************)
(* What the list shows of a conversation ends up as what is stored,        *)
(* whichever of the list, the creation, the renames, the removals and the  *)
(* automatic title is answered first, but for the ways out that            *)
(* ListIsStored names.                                                     *)
(***************************************************************************)
THEOREM ListIsAsStored == Spec => []ListIsStored
<1>1. ListInv => ListIsStored
  BY ListSafe DEF ListInv, AllTracked
<1> QED
  BY <1>1, ListInvariant, PTL

-----------------------------------------------------------------------------
(* The editor opens with the title that is shown. *)

\* The draft is the title, or the one rename that is under way started from it.
DraftOK(c) ==
  Mounted(c) /\ odd[c] \cap {"left", "early"} = {} =>
    /\ Renaming(c) = {} => draft[c] = Title(c)
    /\ \A k \in Renaming(c) : draft[c] = call[k].title /\ call[k].was = Title(c)
    /\ \A j, k \in Renaming(c) : j = k

Drafts == \A c \in Convs : DraftOK(c)

\* The renames of c that are under way do not change.
RenamesSame(c) ==
  /\ Renaming(c)' = Renaming(c)
  /\ \A k \in Renaming(c) : /\ call'[k].title = call[k].title
                            /\ call'[k].was = call[k].was

LEMMA SameRenames ==
  ASSUME NEW c \in Convs,
         \A k \in DOMAIN call : call[k].kind = "rename" /\ call[k].conv = c =>
           k \in DOMAIN call' /\ Alike(call'[k], call[k]),
         \A k \in DOMAIN call' : call'[k].kind = "rename" /\ call'[k].conv = c =>
           k \in DOMAIN call /\ call[k].kind = "rename" /\ call[k].conv = c
  PROVE  RenamesSame(c)
BY DEF RenamesSame, Renaming, Alike

LEMMA AskedRenames ==
  ASSUME NEW c \in Convs, AskedSame(c)
  PROVE  RenamesSame(c)
BY DEF AskedSame, RenamesSame

LEMMA DraftKeeps ==
  ASSUME NEW c \in Convs, DraftOK(c), Mounted(c)' => Mounted(c),
         shown'[c] = shown[c], draft'[c] = draft[c], odd[c] \subseteq odd'[c],
         RenamesSame(c)
  PROVE  DraftOK(c)'
BY DEF DraftOK, RenamesSame, Title

\* A request carries what was typed and what was shown.
LEMMA AskWords ==
  ASSUME Typed, NEW kind, NEW c, NEW t, NEW was, Ask(kind, c, t, was)
  PROVE  call'[Len(call')].title = t /\ call'[Len(call')].was = was
<1>1. PICK r : r = [kind |-> kind, conv |-> c, title |-> t, was |-> was,
                    open |-> kind = "remove" /\ page = c, here |-> kind = "remove",
                    at |-> "sent"]
  OBVIOUS
<1>2. r.title = t /\ r.was = was
  BY <1>1, Zenon
<1>3. call' = Append(call, r)
  BY <1>1, Zenon DEF Ask
<1>4. call'[Len(call')] = r
  BY <1>3 DEF Typed, TypeOK
<1> QED
  BY <1>2, <1>4

LEMMA UserDrafts ==
  ASSUME ListInv, User, NEW c \in Convs, DraftOK(c)
  PROVE  DraftOK(c)'
<1> USE DEF ListInv
<1>1. \A x \in Convs : x # c => \A S : draft' = [draft EXCEPT ![x] = S] => draft'[c] = draft[c]
  BY DEF Typed, TypeOK
<1>2. CASE SendNew
  <2>1. Ask("create", NoConv, Untitled, Untitled) /\ NoConv # c
        /\ UNCHANGED <<load, shown, draft, odd>>
    BY <1>2, ConversationListAssumption DEF SendNew
  <2>2. RenamesSame(c)
    BY <2>1, Names, OthersAsked, AskedRenames
  <2> QED
    BY <2>1, <2>2, DraftKeeps DEF Mounted
<1>3. ASSUME NEW d \in Convs,
             OpenMenu(d) \/ ChooseDelete(d) \/ CancelDelete(d) \/ SendFirst(d)
      PROVE  DraftOK(c)'
  <2>1. UNCHANGED <<load, shown, draft, odd, call>>
    BY <1>3 DEF OpenMenu, ChooseDelete, CancelDelete, SendFirst
  <2>2. RenamesSame(c)
    BY <2>1, SameRenames DEF Alike
  <2> QED
    BY <2>1, <2>2, DraftKeeps DEF Mounted
<1>4. ASSUME NEW d \in Convs, Dismiss(d) \/ ChooseRename(d)
      PROVE  DraftOK(c)'
  <2>1. UNCHANGED <<load, shown, draft, odd>>
    BY <1>4 DEF Dismiss, ChooseRename
  <2>2. /\ DOMAIN call' = DOMAIN call
        /\ \A k \in DOMAIN call : Alike(call'[k], call[k])
    BY <1>4, Unwatched DEF Dismiss, ChooseRename
  <2>3. \A k \in DOMAIN call : call'[k].kind = call[k].kind /\ call'[k].conv = call[k].conv
    BY <2>2 DEF Alike
  <2>4. RenamesSame(c)
    BY <2>2, <2>3, SameRenames
  <2> QED
    BY <2>1, <2>4, DraftKeeps DEF Mounted
<1>5. ASSUME NEW d \in Convs, ConfirmDelete(d)
      PROVE  DraftOK(c)'
  <2>1. Ask("remove", d, Untitled, Untitled) /\ UNCHANGED <<load, shown, draft, odd>>
    BY <1>5 DEF ConfirmDelete
  <2>2. PICK n : n = Len(call')
    OBVIOUS
  <2>3. /\ DOMAIN call' = DOMAIN call \cup {n} /\ call'[n].kind = "remove"
        /\ \A k \in DOMAIN call : call'[k] = call[k]
    BY <2>1, <2>2, Names, AskCall
  <2>4. RenamesSame(c)
    BY <2>3, SameRenames DEF Alike
  <2> QED
    BY <2>1, <2>4, DraftKeeps DEF Mounted
<1>6. ASSUME NEW d \in Convs, NEW t \in Named, Type(d, t) \/ SaveNothing(d, t)
      PROVE  DraftOK(c)'
  <2>1. /\ UNCHANGED <<load, shown, call>>
        /\ draft' = [draft EXCEPT ![d] = t]
    BY <1>6 DEF Type, SaveNothing
  <2>2. RenamesSame(c)
    BY <2>1, SameRenames DEF Alike
  <2>3. odd[c] \subseteq odd'[c]
    BY <1>6, OddSets DEF Type, SaveNothing
  <2>4. CASE d # c
    BY <1>1, <2>1, <2>2, <2>3, <2>4, DraftKeeps DEF Mounted
  <2>5. CASE d = c
    <3>1. SUFFICES ASSUME Mounted(c)', odd'[c] \cap {"left", "early"} = {}
                   PROVE  Renaming(c)' = {} /\ draft'[c] = Title(c)'
      BY DEF DraftOK
    <3>2. draft'[c] = t /\ Title(c)' = Title(c)
      BY <2>1, <2>5 DEF Title, Typed, TypeOK
    <3>3. Renaming(c) = {} /\ t = Title(c)
      <4>1. CASE Type(c, t)
        <5>1. "left" \in odd'[c]
          BY <4>1 DEF Type, Typed, TypeOK
        <5> QED
          BY <3>1, <5>1
      <4>2. CASE SaveNothing(c, t)
        <5>1. odd'[c] = odd[c] \cup Again(c) \cup (IF t # Title(c) THEN {"left"} ELSE {})
          BY <4>2 DEF SaveNothing, Typed, TypeOK
        <5>2. "left" \notin Again(c) /\ t = Title(c)
          BY <3>1, <5>1
        <5> QED
          BY <5>2 DEF Again
      <4> QED
        BY <1>6, <2>5, <4>1, <4>2
    <3> QED
      BY <2>2, <3>2, <3>3 DEF RenamesSame
  <2> QED
    BY <2>4, <2>5
<1>7. ASSUME NEW d \in Convs, CancelEdit(d)
      PROVE  DraftOK(c)'
  <2>1. PICK w : w = Title(d)
    OBVIOUS
  <2>2. /\ UNCHANGED <<load, shown, call>>
        /\ draft' = [draft EXCEPT ![d] = w]
    BY <1>7, <2>1 DEF CancelEdit
  <2>3. RenamesSame(c)
    BY <2>2, SameRenames DEF Alike
  <2>4. odd[c] \subseteq odd'[c]
    BY <1>7, OddSets DEF CancelEdit
  <2>5. CASE d # c
    BY <1>1, <2>2, <2>3, <2>4, <2>5, DraftKeeps DEF Mounted
  <2>6. CASE d = c
    <3>1. SUFFICES ASSUME Mounted(c)', odd'[c] \cap {"left", "early"} = {}
                   PROVE  Renaming(c)' = {} /\ draft'[c] = Title(c)'
      BY DEF DraftOK
    <3>2. draft'[c] = w /\ Title(c)' = Title(c)
      BY <2>2, <2>6 DEF Title, Typed, TypeOK
    <3>3. Renaming(c) = {}
      BY <1>7, <2>6, <3>1 DEF CancelEdit, Again, Typed, TypeOK
    <3> QED
      BY <2>1, <2>3, <2>6, <3>2, <3>3 DEF RenamesSame
  <2> QED
    BY <2>5, <2>6
<1>8. ASSUME NEW d \in Convs, NEW t \in Named, SaveRename(d, t)
      PROVE  DraftOK(c)'
  <2>1. PICK w \in Named : w = Title(d)
    BY <1>8, OnEntry DEF SaveRename
  <2>2. /\ Ask("rename", d, t, w) /\ UNCHANGED <<load, shown>>
        /\ draft' = [draft EXCEPT ![d] = t]
    BY <1>8, <2>1 DEF SaveRename
  <2>3. odd[c] \subseteq odd'[c]
    BY <1>8, OddSets DEF SaveRename
  <2>4. CASE d # c
    <3>1. RenamesSame(c)
      BY <2>2, <2>4, OthersAsked, AskedRenames
    <3> QED
      BY <1>1, <2>2, <2>3, <2>4, <3>1, DraftKeeps DEF Mounted
  <2>5. CASE d = c
    <3>1. SUFFICES ASSUME Mounted(c)', odd'[c] \cap {"left", "early"} = {}
                   PROVE  \E n : /\ Renaming(c)' = {n}
                                 /\ draft'[c] = call'[n].title
                                 /\ call'[n].was = Title(c)'
      BY DEF DraftOK
    <3>2. draft'[c] = t /\ Title(c)' = Title(c)
      BY <2>2, <2>5 DEF Title, Typed, TypeOK
    <3>3. Renaming(c) = {}
      BY <1>8, <2>5, <3>1 DEF SaveRename, Again, Typed, TypeOK
    <3>4. PICK n : n = Len(call')
      OBVIOUS
    <3>5. /\ DOMAIN call' = DOMAIN call \cup {n} /\ call'[n].kind = "rename"
          /\ call'[n].conv = c
          /\ \A k \in DOMAIN call : call'[k] = call[k]
      BY <2>2, <2>5, <3>4, AskCall
    <3>6. call'[n].title = t /\ call'[n].was = w
      BY <2>2, <3>4, AskWords
    <3>7. n \in Renaming(c)' /\ \A k \in Renaming(c)' : k = n
      BY <3>3, <3>5 DEF Renaming
    <3>8. Renaming(c)' = {n}
      BY <3>7
    <3> QED
      BY <2>1, <2>5, <3>2, <3>6, <3>8
  <2> QED
    BY <2>4, <2>5
<1>9. ASSUME NEW p \in Pages, Visit(p)
      PROVE  DraftOK(c)'
  <2>1. UNCHANGED <<load, shown, draft, call>> /\ odd[c] \subseteq odd'[c]
    BY <1>9 DEF Visit
  <2>2. RenamesSame(c)
    BY <2>1, SameRenames DEF Alike
  <2> QED
    BY <2>1, <2>2, DraftKeeps DEF Mounted
<1> QED
  BY <1>2, <1>3, <1>4, <1>5, <1>6, <1>7, <1>8, <1>9 DEF User

LEMMA ApiDrafts ==
  ASSUME ListInv, Api, NEW c \in Convs, DraftOK(c)
  PROVE  DraftOK(c)'
<1> USE DEF ListInv
<1>1. shown' = shown /\ draft' = draft /\ odd[c] \subseteq odd'[c]
  <2>1. ASSUME NEW k \in DOMAIN call, Rename(k)
        PROVE  odd[c] \subseteq odd'[c]
    BY <2>1 DEF Rename, Crossing, Typed, TypeOK
  <2>2. ASSUME NEW d \in Convs, SetTitle(d)
        PROVE  odd[c] \subseteq odd'[c]
    BY <2>2 DEF SetTitle, Crossing, Typed, TypeOK
  <2> QED
    BY <2>1, <2>2 DEF Api, ListRead, Create, Rename, Delete, SetTitle, RunEnds
<1>2. Mounted(c)' => Mounted(c)
  BY DEF Api, ListRead, Create, Rename, Delete, SetTitle, RunEnds, Mounted
<1>3. RenamesSame(c)
  <2>1. ASSUME NEW k \in DOMAIN call, NEW d \in Convs, Create(k, d)
        PROVE  RenamesSame(c)
    <3>1. /\ DOMAIN call' = DOMAIN call /\ call'[k].kind = "create"
          /\ \A j \in DOMAIN call \ {k} : call'[j] = call[j]
      BY <2>1, CreateCall
    <3>2. call[k].kind = "create"
      BY <2>1 DEF Create
    <3> QED
      BY <3>1, <3>2, SameRenames DEF Alike
  <2>2. ASSUME NEW k \in DOMAIN call, Rename(k) \/ Delete(k)
        PROVE  RenamesSame(c)
    <3>1. /\ DOMAIN call' = DOMAIN call /\ Alike(call'[k], call[k])
          /\ \A j \in DOMAIN call \ {k} : call'[j] = call[j]
      BY <2>2, MakingCall DEF Rename, Delete
    <3> QED
      BY <3>1, SameRenames DEF Alike
  <2>3. call' = call => RenamesSame(c)
    BY SameRenames DEF Alike
  <2> QED
    BY <2>1, <2>2, <2>3 DEF Api, ListRead, SetTitle, RunEnds
<1> QED
  BY <1>1, <1>2, <1>3, DraftKeeps

\* An answer takes no rename of another conversation away.
LEMMA OtherAnswer ==
  ASSUME Typed, NEW k \in DOMAIN call, call' = Over(k), NEW c \in Convs,
         call[k].kind # "rename" \/ call[k].conv # c
  PROVE  RenamesSame(c)
<1>1. /\ Renaming(c)' = Renaming(c) \ {k}
      /\ \A j \in Renaming(c)' : call'[j] = call[j]
  BY OneLess
<1>2. k \notin Renaming(c)
  BY DEF Renaming
<1>3. Renaming(c)' = Renaming(c)
  BY <1>1, <1>2
<1> QED
  BY <1>1, <1>3 DEF RenamesSame

LEMMA AnswersDrafts ==
  ASSUME ListInv, Answers, NEW c \in Convs, DraftOK(c)
  PROVE  DraftOK(c)'
<1> USE DEF ListInv
<1>1. CASE Listed
  <2>1. /\ load.at = "read" /\ UNCHANGED call
        /\ draft'[c] = IF shown'[c] # <<>> THEN Head(shown'[c]) ELSE Untitled
    BY <1>1 DEF Listed
  <2>2. Renaming(c) = {}
    BY <2>1 DEF AllTracked, Tracked, Young
  <2>3. Renaming(c)' = {}
    BY <2>1, <2>2 DEF Renaming
  <2> QED
    BY <2>1, <2>3 DEF DraftOK, Mounted, Title
<1>2. CASE ListFails
  BY <1>2 DEF ListFails, DraftOK, Mounted
<1>3. ASSUME NEW k \in DOMAIN call, Created(k)
      PROVE  DraftOK(c)'
  <2>1. PICK d \in Convs : d = call[k].conv
    BY <1>3 DEF Created, Typed, CallsNamed
  <2>2. /\ call[k].kind = "create" /\ UNCHANGED load /\ call' = Over(k)
        /\ shown' = [shown EXCEPT ![d] = <<Untitled>> \o shown[d]]
        /\ draft' = IF shown[d] = <<>> THEN [draft EXCEPT ![d] = Untitled] ELSE draft
        /\ odd' = [odd EXCEPT ![d] = odd[d] \cup Overtaken(d, {Untitled})]
    BY <1>3, <2>1, Zenon DEF Created
  <2>3. odd[c] \subseteq odd'[c]
    BY <2>2, OddSets
  <2>4. RenamesSame(c)
    BY <2>2, OtherAnswer
  <2>5. CASE d # c
    <3>1. shown'[c] = shown[c] /\ draft'[c] = draft[c]
      BY <2>2, <2>5 DEF Typed, TypeOK
    <3> QED
      BY <2>2, <2>3, <2>4, <3>1, DraftKeeps DEF Mounted
  <2>6. CASE d = c
    <3>1. SUFFICES ASSUME odd'[c] \cap {"left", "early"} = {}
                   PROVE  Renaming(c)' = {} /\ draft'[c] = Title(c)'
      BY DEF DraftOK
    <3>2. Creating(c) /\ "early" \notin odd[c]
      BY <2>1, <2>2, <2>3, <2>6, <3>1 DEF Creating
    <3>3. shown[c] = <<>> /\ Renaming(c) = {}
      BY <3>2 DEF PageInv, EarlyKnown, AllTracked, Tracked, Young, Unannounced
    <3>4. draft'[c] = Untitled /\ shown'[c] = <<Untitled>> \o <<>>
      BY <2>2, <2>6, <3>3 DEF Typed, TypeOK
    <3>5. Head(<<Untitled>> \o <<>>) = Untitled
      OBVIOUS
    <3> QED
      BY <2>4, <3>3, <3>4, <3>5 DEF RenamesSame, Title
  <2> QED
    BY <2>5, <2>6
<1>4. ASSUME NEW k \in DOMAIN call, Renamed(k)
      PROVE  DraftOK(c)'
  <2>1. PICK d \in Convs : d = call[k].conv
    BY <1>4 DEF Renamed, Typed, CallsNamed
  <2>2. PICK t : t = call[k].title
    OBVIOUS
  <2>3. t \in Named
    BY <2>2, CallRange DEF Typed, Call
  <2>4. /\ call[k].kind = "rename" /\ call' = Over(k) /\ shown' = Retitled(d, t)
        /\ odd' = [odd EXCEPT ![d] = odd[d] \cup Overtaken(d, {t})]
        /\ UNCHANGED <<load, draft>>
    BY <1>4, <2>1, <2>2, Zenon DEF Renamed
  <2>5. odd[c] \subseteq odd'[c]
    BY <2>4, OddSets
  <2>6. /\ \A x \in Convs \ {d} : shown'[x] = shown[x]
        /\ shown'[d] = <<>> <=> shown[d] = <<>>
        /\ shown'[d] # <<>> => Head(shown'[d]) = t
    BY <2>3, <2>4, RetitledShows DEF Typed
  <2>7. CASE d # c
    <3>1. RenamesSame(c)
      BY <2>1, <2>4, <2>7, OtherAnswer
    <3> QED
      BY <2>4, <2>5, <2>6, <2>7, <3>1, DraftKeeps DEF Mounted
  <2>8. CASE d = c
    <3>1. SUFFICES ASSUME Mounted(c)', odd'[c] \cap {"left", "early"} = {}
                   PROVE  Renaming(c)' = {} /\ draft'[c] = Title(c)'
      BY DEF DraftOK
    <3>2. Mounted(c) /\ k \in Renaming(c)
      BY <2>1, <2>4, <2>6, <2>8, <3>1 DEF Mounted, Renaming
    <3>3. draft[c] = t /\ \A j \in Renaming(c) : j = k
      BY <2>2, <2>5, <3>1, <3>2 DEF DraftOK
    <3>4. Renaming(c)' = Renaming(c) \ {k}
      BY <2>4, OneLess
    <3>5. Renaming(c)' = {}
      BY <3>3, <3>4
    <3>6. Title(c)' = t
      BY <2>6, <2>8, <3>1 DEF Title, Mounted
    <3> QED
      BY <2>4, <3>3, <3>5, <3>6
  <2> QED
    BY <2>7, <2>8
<1>5. ASSUME NEW k \in DOMAIN call, Removed(k)
      PROVE  DraftOK(c)'
  <2>1. PICK d \in Convs : d = call[k].conv
    BY <1>5 DEF Removed, Typed, CallsNamed
  <2>2. /\ call[k].kind = "remove" /\ UNCHANGED load /\ call' = Over(k)
        /\ shown' = [shown EXCEPT ![d] = <<>>]
        /\ draft' = [draft EXCEPT ![d] = Untitled]
        /\ odd' = [odd EXCEPT ![d] = odd[d] \cup Overtaken(d, {Unborn, Gone})]
    BY <1>5, <2>1, Zenon DEF Removed
  <2>3. CASE d # c
    <3>1. shown'[c] = shown[c] /\ draft'[c] = draft[c] /\ odd[c] \subseteq odd'[c]
      BY <2>2, <2>3 DEF Typed, TypeOK
    <3>2. RenamesSame(c)
      BY <2>2, OtherAnswer
    <3> QED
      BY <2>2, <3>1, <3>2, DraftKeeps DEF Mounted
  <2>4. CASE d = c
    <3>1. shown'[c] = <<>>
      BY <2>2, <2>4 DEF Typed, TypeOK
    <3> QED
      BY <3>1 DEF DraftOK, Mounted
  <2> QED
    BY <2>3, <2>4
<1>6. ASSUME NEW k \in DOMAIN call, Fails(k)
      PROVE  DraftOK(c)'
  <2>1. /\ UNCHANGED <<load, shown>> /\ call' = Over(k)
        /\ draft' = DraftAfterFailure(k) /\ odd[c] \subseteq odd'[c]
    BY <1>6 DEF Fails
  <2>2. CASE call[k].kind # "rename" \/ call[k].conv # c
    <3>1. draft'[c] = draft[c]
      BY <2>1, <2>2 DEF DraftAfterFailure, Typed, TypeOK
    <3>2. RenamesSame(c)
      BY <2>1, <2>2, OtherAnswer
    <3> QED
      BY <2>1, <3>1, <3>2, DraftKeeps DEF Mounted
  <2>3. CASE call[k].kind = "rename" /\ call[k].conv = c
    <3>1. SUFFICES ASSUME Mounted(c)', odd'[c] \cap {"left", "early"} = {}
                   PROVE  Renaming(c)' = {} /\ draft'[c] = Title(c)'
      BY DEF DraftOK
    <3>2. Mounted(c) /\ k \in Renaming(c)
      BY <2>1, <2>3, <3>1 DEF Mounted, Renaming
    <3>3. call[k].was = Title(c) /\ \A j \in Renaming(c) : j = k
      BY <2>1, <3>1, <3>2 DEF DraftOK
    <3>4. Renaming(c)' = Renaming(c) \ {k}
      BY <2>1, OneLess
    <3>5. Renaming(c)' = {}
      BY <3>3, <3>4
    <3>6. draft'[c] = call[k].was
      BY <2>1, <2>3, <3>2 DEF DraftAfterFailure, Mounted, Typed, TypeOK
    <3> QED
      BY <2>1, <3>3, <3>5, <3>6 DEF Title
  <2> QED
    BY <2>2, <2>3
<1>7. ASSUME NEW d \in Convs, Patched(d)
      PROVE  DraftOK(c)'
  <2>1. /\ UNCHANGED <<load, call, draft>>
        /\ \/ /\ shown' = Retitled(d, FirstWords)
              /\ odd' = [odd EXCEPT ![d] = odd[d] \cup {"left"} \cup Overtaken(d, {FirstWords})]
           \/ /\ odd' = [odd EXCEPT ![d] = odd[d] \cup {"lost"}]
              /\ shown' = shown
    BY <1>7, Zenon DEF Patched
  <2>2. RenamesSame(c)
    BY <2>1, SameRenames DEF Alike
  <2>3. CASE shown' = shown /\ odd' = [odd EXCEPT ![d] = odd[d] \cup {"lost"}]
    <3>1. odd[c] \subseteq odd'[c]
      BY <2>3, OddSets
    <3> QED
      BY <2>1, <2>2, <2>3, <3>1, DraftKeeps DEF Mounted
  <2>4. CASE /\ shown' = Retitled(d, FirstWords)
             /\ odd' = [odd EXCEPT ![d] = odd[d] \cup {"left"} \cup Overtaken(d, {FirstWords})]
    <3>1. CASE d = c
      <4>1. "left" \in odd'[c]
        BY <2>4, <3>1 DEF Typed, TypeOK
      <4> QED
        BY <4>1 DEF DraftOK
    <3>2. CASE d # c
      <4>1. shown'[c] = shown[c] /\ odd'[c] = odd[c]
        BY <2>4, <3>2, Names, RetitledShows DEF Typed, TypeOK
      <4> QED
        BY <2>1, <2>2, <4>1, DraftKeeps DEF Mounted
    <3> QED
      BY <3>1, <3>2
  <2> QED
    BY <2>1, <2>3, <2>4
<1> QED
  BY <1>1, <1>2, <1>3, <1>4, <1>5, <1>6, <1>7 DEF Answers

(***************************************************************************)
(* The editor opens with the title that is shown, whatever became of the   *)
(* renames before and of those of the other conversations, but for the     *)
(* ways out that DraftIsTitle names.                                       *)
(***************************************************************************)
THEOREM DraftFollowsTitle == Spec => []DraftIsTitle
<1>1. Init => Drafts
  BY DEF Init, Drafts, DraftOK, Mounted
<1>2. ListInv /\ Drafts /\ [Next]_vars => Drafts'
  <2>1. UNCHANGED vars /\ Drafts => Drafts'
    BY DEF vars, Drafts, DraftOK, Mounted, Renaming, Title
  <2> QED
    BY <2>1, UserDrafts, ApiDrafts, AnswersDrafts DEF Next, Drafts
<1>3. Drafts => DraftIsTitle
  BY DEF Drafts, DraftOK, DraftIsTitle
<1> QED
  BY <1>1, <1>2, <1>3, ListInvariant, PTL DEF Spec

=============================================================================
