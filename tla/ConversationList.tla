-------------------------- MODULE ConversationList --------------------------
(***************************************************************************)
(* The list of conversations of one tab against the rows of the api: the   *)
(* list is read once, when the pages are mounted, and every later change   *)
(* is made by the api first and applied to the list when its answer comes. *)
(* Answers, the list's own among them, come in any order or not at all,    *)
(* and the user goes on in the meantime: an entry has a menu to rename and *)
(* to delete, and a title editor, which wait for answers of their own.     *)
(*                                                                         *)
(* Abstracted: the order of the list; whose conversations they are (Chat); *)
(* other tabs; of the runs, only that the first one of a conversation      *)
(* names it; where a menu stands and that a phone's fades before it goes.  *)
(* A conversation listed twice is two entries under its id.                *)
(***************************************************************************)
EXTENDS Integers, FiniteSets, Sequences

CONSTANTS
  Convs,      \* ids, each drawn once
  Titles,     \* what the user may type
  FirstWords, \* the first words of a conversation
  Untitled,   \* the empty title
  Faulty,     \* requests, statements and answers may fail
  MaxCalls    \* bound: creations, renames and removals the user asks for

Home   == "home"
NoConv == "none"
Unborn == "unborn"
Gone   == "gone"

ASSUME ConversationListAssumption ==
  /\ IsFiniteSet(Convs) /\ Home \notin Convs /\ NoConv \notin Convs
  /\ FirstWords \notin Titles /\ Untitled \notin Titles \cup {FirstWords}
  /\ {Unborn, Gone} \cap (Titles \cup {FirstWords, Untitled}) = {}
  /\ Faulty \in BOOLEAN
  /\ MaxCalls \in Nat

VARIABLES
  row,     \* row[c]: the title stored, or why there is none
  load,    \* the request for the list: where it is and what it has read
  shown,   \* shown[c]: titles of the entries the list has for c
  draft,   \* draft[c]: what the title's editor starts from
  call,    \* the requests asked for so far
  run,     \* run[c]: where the first run of c is
  page,
  ui,      \* the menu or the editor that is open, and on what
  busy,    \* the creation that the page for a new conversation waits for
  odd      \* odd[c]: history, why the list may differ from the row

vars == <<row, load, shown, draft, call, run, page, ui, busy, odd>>

Named  == Titles \cup {FirstWords, Untitled}
Rows   == Named \cup {Unborn, Gone}
Pages  == Convs \cup {Home}

\* asked: Delete was pressed; saving: Enter was pressed.  A press outside closes
\* a menu and ends an edit, so there is one of them at a time.
Fronts == Convs \X {"actions", "confirm", "asked", "edit", "saving"}
NoUi   == <<NoConv, "closed">>

\* open: the page was the conversation's when its removal was asked for.
\* was: the title shown when a rename was asked for.
\* here: the menu a removal was asked for in was not closed since.
Call == [kind : {"create", "rename", "remove", "done"}, conv : Convs \cup {NoConv},
         title : Named, was : Named, open : BOOLEAN, here : BOOLEAN,
         at : {"sent", "made", "over"}]
Done == [kind |-> "done", conv |-> NoConv, title |-> Untitled, was |-> Untitled,
         open |-> FALSE, here |-> FALSE, at |-> "over"]

TypeOK ==
  /\ row \in [Convs -> Rows]
  /\ load \in [at : {"sent", "read", "listed", "failed"}, rows : [Convs -> Rows]]
  /\ shown \in [Convs -> Seq(Named)]
  /\ draft \in [Convs -> Named]
  /\ call \in Seq(Call) /\ Len(call) <= MaxCalls
  /\ run \in [Convs -> {"none", "running", "named", "over"}]
  /\ page \in Pages
  /\ ui \in Fronts \cup {NoUi}
  /\ busy \in {0} \cup DOMAIN call
  /\ odd \in [Convs -> SUBSET {"mixed", "early", "lost", "visited", "left"}]

Stored(r) == r \in Named
Entry(r) == IF Stored(r) THEN <<r>> ELSE <<>>

\* The sidebar shows entries once the list is there, and none if it failed.
Mounted(c) == load.at = "listed" /\ shown[c] # <<>>
Title(c) == Head(shown[c])

NoRows == [c \in Convs |-> Unborn]

Init ==
  /\ row \in [Convs -> {Unborn, Untitled} \cup Titles]
  /\ load = [at |-> "sent", rows |-> NoRows]
  /\ shown = [c \in Convs |-> <<>>]
  /\ draft = [c \in Convs |-> Untitled]
  /\ call = <<>>
  /\ run = [c \in Convs |-> IF row[c] \in Titles THEN "over" ELSE "none"]
  /\ page = Home /\ ui = NoUi /\ busy = 0
  /\ odd = [c \in Convs |-> {}]

-----------------------------------------------------------------------------
(* The list. *)

ListedAs(c) == Entry(load.rows[c])

ListRead ==
  /\ load.at = "sent"
  /\ load' = [at |-> "read", rows |-> row]
  /\ UNCHANGED <<row, shown, draft, call, run, page, ui, busy, odd>>

\* c was created, and the answer has not come.
Creating(c) ==
  \E k \in DOMAIN call : call[k].kind = "create" /\ call[k].conv = c

\* The answer replaces the list; the entries are mounted.
Listed ==
  /\ load.at = "read"
  /\ load' = [at |-> "listed", rows |-> NoRows]
  /\ shown' = [c \in Convs |-> ListedAs(c)]
  /\ draft' = [c \in Convs |-> IF shown'[c] # <<>> THEN Head(shown'[c]) ELSE Untitled]
  /\ odd' = [c \in Convs |->
               odd[c] \cup IF shown'[c] # <<>> /\ Creating(c) THEN {"early"} ELSE {}]
  /\ UNCHANGED <<row, call, run, page, ui, busy>>

ListFails ==
  /\ Faulty
  /\ load.at \in {"sent", "read"}
  /\ load' = [at |-> "failed", rows |-> NoRows]
  /\ UNCHANGED <<row, shown, draft, call, run, page, ui, busy, odd>>

-----------------------------------------------------------------------------
(* What the user asks for. *)

Ask(kind, c, t, was) ==
  /\ Len(call) < MaxCalls
  /\ call' = Append(call, [kind |-> kind, conv |-> c, title |-> t, was |-> was,
                           open |-> kind = "remove" /\ page = c,
                           here |-> kind = "remove", at |-> "sent"])

Editing(c) == ui \in {<<c, "edit">>, <<c, "saving">>}
InMenu(c)  == ui \in {<<c, "actions">>, <<c, "confirm">>, <<c, "asked">>}

\* Typing elsewhere takes the focus from an editor.
Unfocused == \A c \in Convs : ~ Editing(c)

\* The first message of a new conversation.
SendNew ==
  /\ page = Home /\ busy = 0
  /\ Unfocused
  /\ Ask("create", NoConv, Untitled, Untitled)
  /\ busy' = Len(call')
  /\ UNCHANGED <<row, load, shown, draft, run, page, ui, odd>>

\* openMenu, on the trigger of an entry.
OpenMenu(c) ==
  /\ Mounted(c) /\ ui = NoUi
  /\ ui' = <<c, "actions">>
  /\ UNCHANGED <<row, load, shown, draft, call, run, page, busy, odd>>

\* close and dismiss: Escape, the trigger, a press outside, scrolling.
Dismiss(c) ==
  /\ InMenu(c)
  /\ ui' = NoUi
  /\ call' = [k \in DOMAIN call |-> IF call[k].conv = c
                                      THEN [call[k] EXCEPT !.here = FALSE] ELSE call[k]]
  /\ UNCHANGED <<row, load, shown, draft, run, page, busy, odd>>

\* onRename closes the menu.
ChooseRename(c) ==
  /\ ui = <<c, "actions">>
  /\ ui' = <<c, "edit">>
  /\ call' = [k \in DOMAIN call |-> IF call[k].conv = c
                                      THEN [call[k] EXCEPT !.here = FALSE] ELSE call[k]]
  /\ UNCHANGED <<row, load, shown, draft, run, page, busy, odd>>

ChooseDelete(c) ==
  /\ ui = <<c, "actions">>
  /\ ui' = <<c, "confirm">>
  /\ UNCHANGED <<row, load, shown, draft, call, run, page, busy, odd>>

CancelDelete(c) ==
  /\ ui \in {<<c, "confirm">>, <<c, "asked">>}
  /\ ui' = <<c, "actions">>
  /\ UNCHANGED <<row, load, shown, draft, call, run, page, busy, odd>>

\* Its button can be pressed again before the answer.
ConfirmDelete(c) ==
  /\ ui \in {<<c, "confirm">>, <<c, "asked">>}
  /\ Ask("remove", c, Untitled, Untitled)
  /\ ui' = <<c, "asked">>
  /\ UNCHANGED <<row, load, shown, draft, run, page, busy, odd>>

Renaming(c) ==
  {k \in DOMAIN call : call[k].kind = "rename" /\ call[k].conv = c}

\* The editor is used while a rename is under way.
Again(c) == IF Renaming(c) # {} THEN {"left"} ELSE {}

\* What is typed is in the draft; it matters before Enter only if an earlier
\* answer may close the editor.
Type(c, t) ==
  /\ Editing(c) /\ Renaming(c) # {}
  /\ t \in Titles \cup {Untitled} /\ t # draft[c]
  /\ draft' = [draft EXCEPT ![c] = t]
  /\ odd' = [odd EXCEPT ![c] = @ \cup {"left"}]
  /\ UNCHANGED <<row, load, shown, call, run, page, ui, busy>>

\* saveRename, which keeps the editor until the answer.
SaveRename(c, t) ==
  /\ Editing(c)
  /\ t \in Titles \cup {draft[c]}
  /\ t \notin {Untitled, Title(c)}
  /\ Ask("rename", c, t, Title(c))
  /\ draft' = [draft EXCEPT ![c] = t]
  /\ ui' = <<c, "saving">>
  /\ odd' = [odd EXCEPT ![c] = @ \cup Again(c)]
  /\ UNCHANGED <<row, load, shown, run, page, busy>>

\* An emptied or unchanged title: nothing is asked, the draft stays.
SaveNothing(c, t) ==
  /\ Editing(c)
  /\ t \in {Untitled, Title(c)}
  /\ draft' = [draft EXCEPT ![c] = t]
  /\ ui' = NoUi
  /\ odd' = [odd EXCEPT ![c] = @ \cup Again(c) \cup
                               IF t # Title(c) THEN {"left"} ELSE {}]
  /\ UNCHANGED <<row, load, shown, call, run, page, busy>>

\* Escape, or the loss of the focus.
CancelEdit(c) ==
  /\ Editing(c)
  /\ draft' = [draft EXCEPT ![c] = Title(c)]
  /\ ui' = NoUi
  /\ odd' = [odd EXCEPT ![c] = @ \cup Again(c)]
  /\ UNCHANGED <<row, load, shown, call, run, page, busy>>

Removing(c) ==
  \E k \in DOMAIN call : call[k].kind = "remove" /\ call[k].conv = c

\* A page opened while the conversation is being removed.
Visit(p) ==
  /\ p # page /\ ui = NoUi
  /\ p # Home => Mounted(p)
  /\ page' = p
  /\ busy' = 0
  /\ UNCHANGED ui
  /\ odd' = [c \in Convs |->
               odd[c] \cup IF c = p /\ Removing(c) THEN {"visited"} ELSE {}]
  /\ UNCHANGED <<row, load, shown, draft, call, run>>

\* The first message of a conversation that has none.
SendFirst(c) ==
  /\ page = c /\ run[c] = "none"
  /\ Unfocused
  /\ run' = [run EXCEPT ![c] = "running"]
  /\ UNCHANGED <<row, load, shown, draft, call, page, ui, busy, odd>>

-----------------------------------------------------------------------------
(* The api's statements. *)

Making(k) == [call EXCEPT ![k].at = "made"]

Create(k, c) ==
  /\ call[k].kind = "create" /\ call[k].at = "sent"
  /\ row[c] = Unborn
  /\ row' = [row EXCEPT ![c] = Untitled]
  /\ call' = [Making(k) EXCEPT ![k].conv = c]
  /\ UNCHANGED <<load, shown, draft, run, page, ui, busy, odd>>

\* An update or a deletion that touches no row is an error.
Refuses(k) == call[k].kind # "create" /\ ~ Stored(row[call[k].conv])

Naming(c) == run[c] = "named"

\* A second change of the title before the first one is shown.
Crossing(c, k) ==
  odd[c] \cup IF Naming(c) \/ \E j \in Renaming(c) \ {k} : call[j].at = "made"
              THEN {"mixed"} ELSE {}

Rename(k) ==
  LET c == call[k].conv
  IN  /\ call[k].kind = "rename" /\ call[k].at = "sent"
      /\ ~ Refuses(k)
      /\ row' = [row EXCEPT ![c] = call[k].title]
      /\ call' = Making(k)
      /\ odd' = [odd EXCEPT ![c] = Crossing(c, k)]
      /\ UNCHANGED <<load, shown, draft, run, page, ui, busy>>

Delete(k) ==
  LET c == call[k].conv
  IN  /\ call[k].kind = "remove" /\ call[k].at = "sent"
      /\ ~ Refuses(k)
      /\ row' = [row EXCEPT ![c] = Gone]
      /\ call' = Making(k)
      /\ UNCHANGED <<load, shown, draft, run, page, ui, busy, odd>>

\* The first run ends by naming the conversation, whatever its title is; the
\* frame is written even if the update fails.
SetTitle(c) ==
  /\ run[c] = "running"
  /\ \/ row' = IF Stored(row[c]) THEN [row EXCEPT ![c] = FirstWords] ELSE row
     \/ Faulty /\ UNCHANGED row
  /\ run' = [run EXCEPT ![c] = "named"]
  /\ odd' = [odd EXCEPT ![c] = Crossing(c, 0) \cup
               IF row' = row /\ row[c] \notin {FirstWords, Gone} THEN {"lost"} ELSE {}]
  /\ UNCHANGED <<load, shown, draft, call, page, ui, busy>>

\* A run that is stopped or fails, before or after it was stored.
RunEnds(c) ==
  /\ run[c] = "running"
  /\ run' = [run EXCEPT ![c] = "over"]
  /\ UNCHANGED <<row, load, shown, draft, call, page, ui, busy, odd>>

-----------------------------------------------------------------------------
(* The answers. *)

Over(k) == [call EXCEPT ![k] = Done]

\* The list was read before the change and comes after its answer.
Overtaken(c, rows) == IF load.at = "read" /\ load.rows[c] \notin rows THEN {"mixed"} ELSE {}

\* create, then sendNew: the list gets the entry, the page is the new
\* conversation's, and its first run starts.
Created(k) ==
  LET c == call[k].conv
  IN  /\ call[k].kind = "create" /\ call[k].at = "made"
      /\ call' = Over(k)
      /\ shown' = [shown EXCEPT ![c] = <<Untitled>> \o shown[c]]
      /\ draft' = IF shown[c] = <<>> THEN [draft EXCEPT ![c] = Untitled] ELSE draft
      /\ run' = [run EXCEPT ![c] = IF @ = "none" THEN "running" ELSE @]
      /\ page' = c /\ busy' = 0 /\ UNCHANGED ui
      /\ odd' = [odd EXCEPT ![c] = @ \cup Overtaken(c, {Untitled})]
      /\ UNCHANGED <<row, load>>

\* Slip: only an entry without a title takes one.
RetitledOnce(c, t) ==
  [shown EXCEPT ![c] = [i \in DOMAIN shown[c] |->
                          IF shown[c][i] = Untitled THEN t ELSE shown[c][i]]]

Retitled(c, t) == [shown EXCEPT ![c] = [i \in DOMAIN shown[c] |-> t]]

Renamed(k) ==
  LET c == call[k].conv
  IN  /\ call[k].kind = "rename" /\ call[k].at = "made"
      /\ call' = Over(k)
      /\ shown' = Retitled(c, call[k].title)
      /\ ui' = IF Editing(c) THEN NoUi ELSE ui
      /\ odd' = [odd EXCEPT ![c] = @ \cup Overtaken(c, {call[k].title})]
      /\ UNCHANGED <<row, load, draft, run, page, busy>>

\* Slip: the entry is removed and the page left as it is.
PageKept(k) == page

PageAfterRemoval(k) == IF call[k].open THEN Home ELSE page

Removed(k) ==
  LET c == call[k].conv
  IN  /\ call[k].kind = "remove" /\ call[k].at = "made"
      /\ call' = Over(k)
      /\ shown' = [shown EXCEPT ![c] = <<>>]
      /\ draft' = [draft EXCEPT ![c] = Untitled]
      /\ page' = PageAfterRemoval(k)
      /\ ui' = IF ui[1] = c THEN NoUi ELSE ui
      /\ odd' = [odd EXCEPT ![c] = @ \cup Overtaken(c, {Unborn, Gone})]
      /\ UNCHANGED <<row, load, run, busy>>

\* Slip: a failed rename leaves the editor as it was.
DraftKept(k) == draft

DraftAfterFailure(k) ==
  IF call[k].kind = "rename" /\ shown[call[k].conv] # <<>>
  THEN [draft EXCEPT ![call[k].conv] = call[k].was] ELSE draft

Waiting(k) == IF busy = k THEN 0 ELSE busy

\* Slip: a failed removal leaves the menu at its question.
StillAsked(k) == IF call[k].kind = "rename" /\ Editing(call[k].conv) THEN NoUi ELSE ui

\* A failed rename ends the edit there is by now; a failed removal takes the
\* menu it was asked for in back to its actions.
FrontAfterFailure(k) ==
  LET c == call[k].conv
  IN  CASE call[k].kind = "rename" /\ Editing(c) -> NoUi
        [] call[k].kind = "remove" /\ InMenu(c) /\ call[k].here -> <<c, "actions">>
        [] OTHER -> ui

\* An error, or an answer that is lost after the change was made.  It does not
\* matter when the api has refused: what it refuses once it refuses for good.
Fails(k) ==
  /\ \/ call[k].at = "sent" /\ (Refuses(k) \/ Faulty)
     \/ call[k].at = "made" /\ Faulty
  /\ call' = Over(k)
  /\ draft' = DraftAfterFailure(k)
  /\ ui' = FrontAfterFailure(k)
  /\ busy' = Waiting(k)
  /\ odd' = [c \in Convs |->
               odd[c] \cup IF c = call[k].conv /\ call[k].at = "made"
                           THEN {"lost"} ELSE {}]
  /\ UNCHANGED <<row, load, shown, run, page>>

\* patchConversation, or a stream that broke before its last frame.
Patched(c) ==
  /\ Naming(c)
  /\ run' = [run EXCEPT ![c] = "over"]
  /\ \/ /\ shown' = Retitled(c, FirstWords)
        /\ odd' = [odd EXCEPT ![c] = @ \cup {"left"} \cup
                                     Overtaken(c, {FirstWords})]
     \/ /\ Faulty
        /\ odd' = [odd EXCEPT ![c] = @ \cup {"lost"}]
        /\ UNCHANGED shown
  /\ UNCHANGED <<row, load, draft, call, page, ui, busy>>

-----------------------------------------------------------------------------

User ==
  \/ SendNew
  \/ \E c \in Convs :
       \/ OpenMenu(c) \/ Dismiss(c)
       \/ ChooseDelete(c) \/ CancelDelete(c) \/ ConfirmDelete(c)
       \/ ChooseRename(c) \/ CancelEdit(c)
       \/ \E t \in Named : Type(c, t) \/ SaveRename(c, t) \/ SaveNothing(c, t)
       \/ SendFirst(c)
  \/ \E p \in Pages : Visit(p)

Api ==
  \/ ListRead
  \/ \E k \in DOMAIN call :
       \/ \E c \in Convs : Create(k, c)
       \/ Rename(k) \/ Delete(k)
  \/ \E c \in Convs : SetTitle(c) \/ RunEnds(c)

Answers ==
  \/ Listed \/ ListFails
  \/ \E k \in DOMAIN call : Created(k) \/ Renamed(k) \/ Removed(k) \/ Fails(k)
  \/ \E c \in Convs : Patched(c)

Next == User \/ Api \/ Answers

Spec == Init /\ [][Next]_vars

-----------------------------------------------------------------------------
(* Properties. *)

\* Nothing about c is on its way.
Settled(c) ==
  /\ load.at = "listed" /\ ~ Naming(c)
  /\ \A k \in DOMAIN call : call[k].conv # c

(***************************************************************************)
(* What the list shows of a conversation ends up as what is stored: its    *)
(* title, once, or nothing.  It does not when an answer was lost, two      *)
(* changes of the title crossed, a change was made and answered while the  *)
(* list that was read before it was on its way, or the list had a          *)
(* conversation before its creation was answered.                          *)
(***************************************************************************)
ListIsStored ==
  \A c \in Convs :
    Settled(c) /\ odd[c] \cap {"mixed", "early", "lost"} = {}
    => shown[c] = Entry(row[c])

(***************************************************************************)
(* Nobody is left on the page of a conversation they deleted, unless they  *)
(* went there while it was being deleted or were never told it was.        *)
(***************************************************************************)
NobodyOnDeleted ==
  \A c \in Convs :
    page = c /\ row[c] = Gone /\ ~ Removing(c)
    => odd[c] \cap {"visited", "lost", "early"} # {}

(***************************************************************************)
(* The editor opens with the title that is shown, whatever became of the   *)
(* renames before.  Not so after an automatic title, an emptied field or   *)
(* an edit while a rename is under way, which all leave the draft behind.  *)
(***************************************************************************)
DraftIsTitle ==
  \A c \in Convs :
    /\ Mounted(c) /\ Renaming(c) = {} /\ ~ Editing(c)
    /\ odd[c] \cap {"left", "early"} = {}
    => draft[c] = Title(c)

(***************************************************************************)
(* Nothing is left waiting for an answer that has come: a menu that asked  *)
(* for a removal, an editor that asked for a rename and the page for a new *)
(* conversation are open, saving and disabled only while a request of      *)
(* theirs is under way, though menus are closed and opened and editors     *)
(* used again before the answers of earlier requests come.                 *)
(***************************************************************************)
NothingLeftWaiting ==
  /\ \A c \in Convs :
       /\ ui = <<c, "asked">> => \E k \in DOMAIN call :
                                   /\ call[k].kind = "remove" /\ call[k].conv = c
                                   /\ call[k].here
       /\ ui = <<c, "saving">> => Renaming(c) # {}
       /\ ui[1] = c => Mounted(c)
  /\ busy # 0 => page = Home /\ call[busy].kind = "create"

=============================================================================
