------------------------------ MODULE Feedback ------------------------------
(***************************************************************************)
(* One reply's thumbs: the bubble that shows a vote before it is stored    *)
(* and takes it back when that fails, the handlers that store it, and the  *)
(* calls that mirror it to LangSmith without an order and without a retry. *)
(*                                                                         *)
(* Abstracted: wording, the limits on a note, the copy button, and other   *)
(* tabs of the same user.                                                  *)
(***************************************************************************)
EXTENDS Integers, Sequences, FiniteSets

CONSTANTS
  Notes,     \* what a user may write about a vote
  NoNote,    \* the empty comment
  Faulty,    \* statements, answers and mirror calls may fail
  MaxAsks    \* bound: requests of the bubble

ASSUME FeedbackAssumption ==
  /\ NoNote \notin Notes
  /\ Faulty \in BOOLEAN
  /\ MaxAsks \in Nat

VARIABLES
  rating,    \* what the bubble shows
  noteOpen,  \* the dialog that asks for a note
  cached,    \* the vote in the message store
  asks,      \* the requests so far, at the client and at the api
  alive,     \* the message exists
  traced,    \* the message has a run id
  row,       \* the message's row of message_feedback
  nextId,    \* the next langsmith_feedback_id
  jobs,      \* mirror calls under way
  mirror,    \* what LangSmith has for each feedback id
  inStep,    \* history: the bubble has no reason to differ from the row
  followed   \* history: no mirror call failed, and none overlapped another vote

client == <<rating, noteOpen, cached>>
api    == <<alive, traced, row, nextId>>
vars   == <<rating, noteOpen, cached, asks, alive, traced, row, nextId, jobs,
            mirror, inStep, followed>>

None    == 0
Votes   == {-1, 1}
Ratings == Votes \cup {None}
Texts   == Notes \cup {NoNote}

Fids == 1 .. MaxAsks
Keys == Fids \X {"user_score", "user_feedback"}

Row   == [rating : Votes, comment : Texts, fid : Fids]
NoRow == [rating |-> None, comment |-> NoNote, fid |-> 0]

\* rating is None in a clear; only a vote tells the message store.  mine: the
\* bubble that asked is on the page; lone: nothing else was going on; fid: the
\* id that the statement returned.
Ask == [kind : {"vote", "note", "clear"}, rating : Ratings, text : Texts,
        prev : Ratings, waiting : BOOLEAN, mine : BOOLEAN, lone : BOOLEAN,
        fid : 0 .. MaxAsks,
        at : {"sent", "owned", "written", "done", "failed"}]

Job == [ask : 1 .. MaxAsks, key : Keys, value : Ratings \cup Texts]

TypeOK ==
  /\ rating \in Ratings /\ cached \in Ratings
  /\ noteOpen \in BOOLEAN
  /\ asks \in Seq(Ask) /\ Len(asks) <= MaxAsks
  /\ alive \in BOOLEAN /\ traced \in BOOLEAN
  /\ row \in Row \cup {NoRow}
  /\ nextId \in 1 .. MaxAsks + 1
  /\ jobs \subseteq Job
  /\ mirror \in [Keys -> Ratings \cup Texts]
  /\ inStep \in BOOLEAN /\ followed \in BOOLEAN

Absent(key) == IF key[2] = "user_score" THEN None ELSE NoNote

Init ==
  /\ rating = None /\ cached = None
  /\ noteOpen = FALSE
  /\ asks = <<>>
  /\ alive = TRUE /\ traced \in BOOLEAN
  /\ row = NoRow /\ nextId = 1
  /\ jobs = {} /\ mirror = [k \in Keys |-> Absent(k)]
  /\ inStep = TRUE /\ followed = TRUE

Asks == DOMAIN asks
Open(a) == asks[a].waiting \/ asks[a].at \in {"sent", "owned", "written"}
Busy == \E a \in Asks : Open(a)
Goto(a, at) == asks' = [asks EXCEPT ![a].at = at]

-----------------------------------------------------------------------------
(* The bubble. *)

\* The closure of a bubble that has gone, or that has its answer.
Detached(ask) == [ask EXCEPT !.mine = FALSE, !.prev = None]
Settled(ask)  == [Detached(ask) EXCEPT !.waiting = FALSE, !.lone = FALSE]
Settle(a) == asks' = [asks EXCEPT ![a] = Settled(@)]

\* Asks that were alone are no longer.
Crowded == [a \in Asks |-> [asks[a] EXCEPT !.lone = @ /\ ~ Open(a)]]

Request(kind, vote, text) ==
  /\ Len(asks) < MaxAsks
  /\ asks' = Append(Crowded,
               [kind |-> kind, rating |-> vote, text |-> text, prev |-> rating,
                waiting |-> TRUE, mine |-> TRUE, lone |-> ~ Busy, fid |-> 0,
                at |-> "sent"])
  /\ inStep' = (inStep /\ ~ Busy)
  /\ UNCHANGED <<cached, api, jobs, mirror, followed>>

\* A click on the active thumb clears, on the other one it votes.
Vote(next) ==
  /\ ~ noteOpen
  /\ IF next = rating
       THEN Request("clear", None, NoNote) /\ rating' = None /\ noteOpen' = FALSE
       ELSE Request("vote", next, NoNote) /\ rating' = next /\ noteOpen' = TRUE

\* The note goes with the vote that is shown.
SubmitNote(text) ==
  /\ noteOpen
  /\ noteOpen' = FALSE
  /\ IF rating = None \/ text = NoNote
       THEN UNCHANGED <<cached, asks, api, jobs, mirror, inStep, followed>>
       ELSE Request("note", rating, text)
  /\ UNCHANGED rating

Remembers(a) == IF asks[a].kind = "note" THEN cached ELSE asks[a].rating

Accepted(a) ==
  /\ asks[a].waiting /\ asks[a].at = "done"
  /\ Settle(a)
  /\ cached' = Remembers(a)
  /\ inStep' = (inStep \/ (asks[a].lone /\ asks[a].kind # "note"))
  /\ UNCHANGED <<rating, noteOpen, api, jobs, mirror, followed>>

\* Slip: the failed vote stays on the screen.
LeaveVote(a) == UNCHANGED <<rating, noteOpen>>

\* A failed note changes nothing, and a bubble that has gone neither.
TakeBack(a) ==
  IF asks[a].mine /\ asks[a].kind # "note"
    THEN /\ rating' = asks[a].prev
         /\ noteOpen' = (noteOpen /\ asks[a].kind = "clear")
    ELSE UNCHANGED <<rating, noteOpen>>

Refused(a) ==
  /\ asks[a].waiting /\ asks[a].at = "failed"
  /\ Settle(a)
  /\ TakeBack(a)
  /\ UNCHANGED <<cached, api, jobs, mirror, inStep, followed>>

\* The connection breaks; the api may go on.
Broken(a) ==
  /\ Faulty
  /\ asks[a].waiting
  /\ Settle(a)
  /\ TakeBack(a)
  /\ inStep' = FALSE
  /\ UNCHANGED <<cached, api, jobs, mirror, followed>>

\* The user comes back to the conversation: a new bubble, the cached vote.
Remount ==
  /\ rating' = cached
  /\ noteOpen' = FALSE
  /\ asks' = [a \in Asks |-> Detached(Crowded[a])]
  /\ inStep' = (inStep /\ ~ Busy)
  /\ UNCHANGED <<cached, api, jobs, mirror, followed>>

\* The rating of the message's row, if the join finds one.
LoadedRating == row.rating

\* The page is loaded anew: what it asked for is no longer waited for.
Reload ==
  /\ alive
  /\ rating' = LoadedRating /\ cached' = LoadedRating
  /\ noteOpen' = FALSE
  /\ asks' = [a \in Asks |-> Settled(asks[a])]
  /\ inStep' = ~ \E a \in Asks : asks[a].at \in {"sent", "owned", "written"}
  /\ UNCHANGED <<api, jobs, mirror, followed>>

-----------------------------------------------------------------------------
(* Feedback and ClearFeedback. *)

CheckOwner(a) ==
  /\ asks[a].at = "sent"
  /\ \/ alive /\ Goto(a, "owned")
     \/ (~ alive \/ Faulty) /\ Goto(a, "failed")
  /\ UNCHANGED <<client, api, jobs, mirror, inStep, followed>>

\* An update keeps the id, so that the mirror's copies are replaced.
KeptFid == IF row = NoRow THEN nextId ELSE row.fid

StoredComment(a) == asks[a].text

Upserted(a) ==
  [rating |-> asks[a].rating, comment |-> StoredComment(a), fid |-> KeptFid]

Wrote(a, fid) == asks' = [asks EXCEPT ![a].at = "written", ![a].fid = fid]

\* LangSmith is told of this change while it is still being told of others.
Overlaps == jobs # {} \/ \E b \in Asks : asks[b].at = "written"

\* A statement that reports an error may have taken effect.
Outcome(a, fid) ==
  \/ Wrote(a, fid) /\ followed' = (followed /\ ~ Overlaps) /\ UNCHANGED inStep
  \/ Faulty /\ Goto(a, "failed") /\ followed' = FALSE /\ inStep' = FALSE

NoEffect(a) ==
  /\ Goto(a, "failed")
  /\ UNCHANGED <<row, nextId, followed, inStep>>

\* The foreign key refuses the row of a message that has gone meanwhile.
Upsert(a) ==
  /\ asks[a].at = "owned" /\ asks[a].kind # "clear"
  /\ \/ /\ alive
        /\ row' = Upserted(a)
        /\ nextId' = IF row'.fid = nextId THEN nextId + 1 ELSE nextId
        /\ Outcome(a, row'.fid)
     \/ (~ alive \/ Faulty) /\ NoEffect(a)
  /\ UNCHANGED <<client, alive, traced, jobs, mirror>>

\* A clear that finds no row is done; the mirror is not told.
Remove(a) ==
  /\ asks[a].at = "owned" /\ asks[a].kind = "clear"
  /\ \/ /\ row = NoRow
        /\ Goto(a, "done")
        /\ UNCHANGED <<row, nextId, followed, inStep>>
     \/ /\ row # NoRow
        /\ row' = NoRow
        /\ Outcome(a, row.fid)
        /\ UNCHANGED nextId
     \/ Faulty /\ NoEffect(a)
  /\ UNCHANGED <<client, alive, traced, jobs, mirror>>

Told(a, key, value) == [ask |-> a, key |-> <<asks[a].fid, key>>, value |-> value]

\* Slip: a clear that scrubs the score only.
ScrubScore(a) == {Told(a, "user_score", None)}

Scrub(a) == {Told(a, "user_score", None), Told(a, "user_feedback", NoNote)}

\* No note deletes the one LangSmith may have.
Report(a) ==
  IF traced THEN {Told(a, "user_score", asks[a].rating),
                  Told(a, "user_feedback", asks[a].text)}
            ELSE {}

\* The handler starts its mirror calls and answers.
Fire(a) ==
  /\ asks[a].at = "written"
  /\ jobs' = jobs \cup IF asks[a].kind = "clear" THEN Scrub(a) ELSE Report(a)
  /\ asks' = [asks EXCEPT ![a].at = "done", ![a].fid = 0]
  /\ UNCHANGED <<client, api, mirror, inStep, followed>>

-----------------------------------------------------------------------------
(* The mirror's calls, each a goroutine of its own. *)

Deliver(j) ==
  /\ j \in jobs
  /\ jobs' = jobs \ {j}
  /\ mirror' = [mirror EXCEPT ![j.key] = j.value]
  /\ UNCHANGED <<client, asks, api, inStep, followed>>

\* An error or the timeout: logged, not retried, perhaps with its effect.
Drop(j) ==
  /\ Faulty
  /\ j \in jobs
  /\ jobs' = jobs \ {j}
  /\ mirror' \in {mirror, [mirror EXCEPT ![j.key] = j.value]}
  /\ followed' = FALSE
  /\ UNCHANGED <<client, asks, api, inStep>>

\* The conversation is deleted, its messages and their votes with it.
DeleteMessage ==
  /\ alive
  /\ alive' = FALSE
  /\ row' = NoRow
  /\ UNCHANGED <<client, asks, traced, nextId, jobs, mirror, inStep, followed>>

Next ==
  \/ \E next \in Votes : Vote(next)
  \/ \E text \in Texts : SubmitNote(text)
  \/ \E a \in Asks :
       \/ Accepted(a) \/ Refused(a) \/ Broken(a)
       \/ CheckOwner(a) \/ Upsert(a) \/ Remove(a) \/ Fire(a)
  \/ Remount \/ Reload
  \/ \E j \in jobs : Deliver(j) \/ Drop(j)
  \/ DeleteMessage

Spec == Init /\ [][Next]_vars

-----------------------------------------------------------------------------
(***************************************************************************)
(* Whenever nothing is under way, the bubble, the cached vote and the row  *)
(* agree, unless requests ran into each other, or an answer or a failed    *)
(* statement left the browser wrong about the row; then the next vote on   *)
(* its own, or a reload, makes them agree again.  The code shows a vote    *)
(* first and takes it back by hand (message-actions.tsx 105-133).           *)
(***************************************************************************)
ShownIsStored ==
  alive /\ ~ Busy /\ inStep => rating = row.rating /\ cached = row.rating

(***************************************************************************)
(* Once its calls are done LangSmith has the row's score and note under    *)
(* the row's ids, and nothing else, if no call failed and each change was  *)
(* mirrored before the next was stored.  A vote keeps its feedback id for  *)
(* that, and a clear names the id its delete returned.                     *)
(***************************************************************************)
Wanted(key) ==
  IF key[1] # row.fid \/ ~ traced THEN Absent(key)
  ELSE IF key[2] = "user_score" THEN row.rating ELSE row.comment

MirrorFollows ==
  /\ alive /\ followed /\ jobs = {} /\ \A a \in Asks : asks[a].at # "written"
  => \A key \in Keys : mirror[key] = Wanted(key)

=============================================================================
