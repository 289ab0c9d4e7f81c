--------------------------- MODULE FeedbackProofs ---------------------------
(***************************************************************************)
(* Theorems about a reply's thumbs, for every number of requests and       *)
(* notes: the types, that LangSmith has what the database has once the     *)
(* mirror is at rest, and that the bubble shows what is stored.            *)
(***************************************************************************)
EXTENDS Feedback, SequenceTheorems, FiniteSetTheorems, TLAPS

\* The requests whose change is stored and not yet being mirrored.
Written == {a \in Asks : asks[a].at = "written"}

\* Those that have drawn an id, or never will.
Used == {a \in Asks : asks[a].at \notin {"sent", "owned"}}

\* Ids are drawn by requests, each of which draws one at most.
AsksInv ==
  /\ asks \in Seq(Ask) /\ Len(asks) <= MaxAsks
  /\ nextId <= Cardinality(Used) + 1
  /\ \A a \in Written : asks[a].fid \in Fids
  /\ \A a \in Asks : asks[a].kind # "clear" => asks[a].rating \in Votes

TypeInv == TypeOK /\ AsksInv

-----------------------------------------------------------------------------
(* The sequence of requests. *)

LEMMA AsksFunction ==
  ASSUME TypeOK
  PROVE  /\ Len(asks) \in Nat
         /\ Asks = 1 .. Len(asks)
         /\ asks \in [Asks -> Ask]
BY LenProperties DEF TypeOK, Asks

LEMMA AsSequence ==
  ASSUME NEW S, NEW n \in Nat, NEW f \in [1 .. n -> S]
  PROVE  f \in Seq(S) /\ Len(f) = n
<1>1. f \in Seq(S)
  BY SeqDef
<1>2. Len(f) \in Nat /\ DOMAIN f = 1 .. Len(f) /\ DOMAIN f = 1 .. n
  BY <1>1, LenProperties
<1> QED
  BY <1>1, <1>2

\* A step that changes at and fid of the request a, if of any.
Moves(a, at, fid) ==
  /\ asks' \in [Asks -> Ask]
  /\ \A b \in Asks :
       /\ asks'[b].kind = asks[b].kind
       /\ asks'[b].rating = asks[b].rating
       /\ asks'[b].text = asks[b].text
       /\ asks'[b].prev = asks[b].prev
       /\ asks'[b].waiting = asks[b].waiting
       /\ asks'[b].mine = asks[b].mine
       /\ asks'[b].lone = asks[b].lone
       /\ asks'[b].at = IF b = a THEN at ELSE asks[b].at
       /\ asks'[b].fid = IF b = a THEN fid ELSE asks[b].fid

\* One that changes neither, of any.
Kept ==
  /\ asks' \in [Asks -> Ask]
  /\ \A b \in Asks :
       /\ asks'[b].kind = asks[b].kind
       /\ asks'[b].rating = asks[b].rating
       /\ asks'[b].text = asks[b].text
       /\ asks'[b].at = asks[b].at
       /\ asks'[b].fid = asks[b].fid

LEMMA SameAsks ==
  ASSUME TypeOK, asks' \in [Asks -> Ask]
  PROVE  asks' \in Seq(Ask) /\ Len(asks') = Len(asks) /\ Asks' = Asks
BY AsksFunction, AsSequence DEF Asks

LEMMA SettleKeeps ==
  ASSUME TypeOK, NEW a \in Asks, Settle(a)
  PROVE  Kept
<1>1. asks \in [Asks -> Ask]
  BY AsksFunction
<1>2. \A ask \in Ask : /\ Settled(ask) \in Ask
                       /\ Settled(ask).kind = ask.kind /\ Settled(ask).at = ask.at
                       /\ Settled(ask).rating = ask.rating
                       /\ Settled(ask).text = ask.text /\ Settled(ask).fid = ask.fid
  BY DEF Ask, Settled, Detached, Ratings
<1> QED
  BY <1>1, <1>2 DEF Settle, Kept

LEMMA CrowdedKeeps ==
  ASSUME TypeOK
  PROVE  /\ Crowded \in [Asks -> Ask]
         /\ \A a \in Asks : /\ Crowded[a].kind = asks[a].kind
                            /\ Crowded[a].rating = asks[a].rating
                            /\ Crowded[a].text = asks[a].text
                            /\ Crowded[a].at = asks[a].at
                            /\ Crowded[a].fid = asks[a].fid
<1>1. asks \in [Asks -> Ask]
  BY AsksFunction
<1>2. \A a \in Asks : (asks[a].lone /\ ~ Open(a)) \in BOOLEAN
  OBVIOUS
<1>3. \A ask \in Ask : \A x \in BOOLEAN :
        /\ [ask EXCEPT !.lone = x] \in Ask
        /\ [ask EXCEPT !.lone = x].kind = ask.kind
        /\ [ask EXCEPT !.lone = x].at = ask.at
        /\ [ask EXCEPT !.lone = x].rating = ask.rating
        /\ [ask EXCEPT !.lone = x].text = ask.text
        /\ [ask EXCEPT !.lone = x].fid = ask.fid
  BY DEF Ask
<1> QED
  BY <1>1, <1>2, <1>3 DEF Crowded

LEMMA RemountKeeps ==
  ASSUME TypeOK, asks' = [a \in Asks |-> Detached(Crowded[a])]
  PROVE  Kept
<1>1. \A ask \in Ask : /\ Detached(ask) \in Ask
                       /\ Detached(ask).kind = ask.kind /\ Detached(ask).at = ask.at
                       /\ Detached(ask).rating = ask.rating
                       /\ Detached(ask).text = ask.text /\ Detached(ask).fid = ask.fid
  BY DEF Ask, Detached, Ratings
<1> QED
  BY <1>1, CrowdedKeeps DEF Kept

LEMMA ReloadKeeps ==
  ASSUME TypeOK, asks' = [a \in Asks |-> Settled(asks[a])]
  PROVE  Kept
<1>1. \A ask \in Ask : /\ Settled(ask) \in Ask
                       /\ Settled(ask).kind = ask.kind /\ Settled(ask).at = ask.at
                       /\ Settled(ask).rating = ask.rating
                       /\ Settled(ask).text = ask.text /\ Settled(ask).fid = ask.fid
  BY DEF Ask, Settled, Detached, Ratings
<1> QED
  BY <1>1, AsksFunction DEF Kept

LEMMA GotoMoves ==
  ASSUME TypeOK, NEW a \in Asks, NEW at \in {"owned", "done", "failed"}, Goto(a, at)
  PROVE  Moves(a, at, asks[a].fid)
BY AsksFunction DEF Goto, Moves, Ask

LEMMA WroteMoves ==
  ASSUME TypeOK, NEW a \in Asks, NEW fid \in 0 .. MaxAsks, Wrote(a, fid)
  PROVE  Moves(a, "written", fid)
<1>1. asks \in [Asks -> Ask] /\ asks' = [asks EXCEPT ![a].at = "written", ![a].fid = fid]
  BY AsksFunction DEF Wrote
<1>2. asks' = [asks EXCEPT ![a] = [asks[a] EXCEPT !.at = "written", !.fid = fid]]
  BY <1>1, Zenon
<1> DEFINE w == [asks[a] EXCEPT !.at = "written", !.fid = fid]
<1>3. /\ w \in Ask /\ w.at = "written" /\ w.fid = fid
      /\ w.kind = asks[a].kind /\ w.rating = asks[a].rating /\ w.text = asks[a].text
      /\ w.prev = asks[a].prev /\ w.waiting = asks[a].waiting
      /\ w.mine = asks[a].mine /\ w.lone = asks[a].lone
  BY <1>1 DEF Ask
<1> HIDE DEF w
<1>4. /\ asks' \in [Asks -> Ask]
      /\ \A b \in Asks : asks'[b] = IF b = a THEN w ELSE asks[b]
  BY <1>1, <1>2, <1>3 DEF w
<1> QED
  BY <1>3, <1>4 DEF Moves

\* A new request, after the others.
Added(kind, vote, text) ==
  /\ Len(asks') = Len(asks) + 1
  /\ asks' \in Seq(Ask)
  /\ \A a \in Asks : /\ asks'[a].kind = asks[a].kind
                     /\ asks'[a].rating = asks[a].rating
                     /\ asks'[a].text = asks[a].text
                     /\ asks'[a].at = asks[a].at
                     /\ asks'[a].fid = asks[a].fid
  /\ asks'[Len(asks) + 1].at = "sent"
  /\ asks'[Len(asks) + 1].kind = kind /\ asks'[Len(asks) + 1].rating = vote

LEMMA RequestAdds ==
  ASSUME TypeOK, NEW kind \in {"vote", "note", "clear"}, NEW vote \in Ratings,
         NEW text \in Texts, Request(kind, vote, text)
  PROVE  Added(kind, vote, text)
<1> DEFINE new == [kind |-> kind, rating |-> vote, text |-> text, prev |-> rating,
                   waiting |-> TRUE, mine |-> TRUE, lone |-> ~ Busy, fid |-> 0,
                   at |-> "sent"]
<1>1. asks' = Append(Crowded, new)
  BY DEF Request
<1>2. (~ Busy) \in BOOLEAN
  OBVIOUS
<1>3. new \in Ask /\ new.at = "sent" /\ new.kind = kind /\ new.rating = vote
  BY <1>2, FeedbackAssumption DEF Ask, TypeOK
<1>4. Crowded \in Seq(Ask) /\ Len(Crowded) = Len(asks) /\ Len(asks) \in Nat
  BY AsksFunction, CrowdedKeeps, AsSequence
<1> HIDE DEF new
<1>5. /\ asks' \in Seq(Ask)
      /\ Len(asks') = Len(asks) + 1
      /\ \A a \in 1 .. Len(asks) : asks'[a] = Crowded[a]
      /\ asks'[Len(asks) + 1] = new
  BY <1>1, <1>3, <1>4
<1> QED
  BY <1>3, <1>5, AsksFunction, CrowdedKeeps DEF Added

-----------------------------------------------------------------------------
(* The ids drawn. *)

LEMMA SomeOf ==
  ASSUME NEW n \in Nat, NEW S \in SUBSET (1 .. n)
  PROVE  IsFiniteSet(S) /\ Cardinality(S) \in Nat /\ Cardinality(S) <= n
<1>1. IsFiniteSet(1 .. n)
  BY FS_Interval
<1>2. Cardinality(1 .. n) = n
  <2>1. Cardinality(1 .. n) = IF 1 > n THEN 0 ELSE n - 1 + 1
    BY FS_Interval
  <2> QED
    BY <2>1
<1>3. IsFiniteSet(S) /\ Cardinality(S) <= Cardinality(1 .. n)
  BY <1>1, FS_Subset
<1>4. Cardinality(S) \in Nat
  BY <1>3, FS_CardinalityType
<1> QED
  BY <1>2, <1>3, <1>4

LEMMA UsedFinite ==
  ASSUME TypeOK
  PROVE  /\ IsFiniteSet(Used)
         /\ Cardinality(Used) \in Nat
         /\ nextId \in Nat /\ MaxAsks \in Nat
<1>1. Len(asks) \in Nat /\ Used \in SUBSET (1 .. Len(asks))
  BY AsksFunction DEF Used
<1> QED
  BY <1>1, SomeOf, FeedbackAssumption DEF TypeOK

\* A request that may still draw an id finds one.
LEMMA IdLeft ==
  ASSUME TypeInv, NEW a \in Asks, asks[a].at = "owned"
  PROVE  nextId \in Fids
<1>1. /\ Used \cup {a} \in SUBSET (1 .. Len(asks))
      /\ Len(asks) \in Nat /\ Len(asks) <= MaxAsks
  BY AsksFunction DEF TypeInv, TypeOK, Used
<1>2. Cardinality(Used \cup {a}) = Cardinality(Used) + 1
  BY FS_AddElement, UsedFinite DEF TypeInv, Used
<1>3. Cardinality(Used \cup {a}) <= Len(asks)
  BY <1>1, SomeOf
<1> QED
  BY <1>1, <1>2, <1>3, UsedFinite DEF TypeInv, AsksInv, TypeOK, Fids

\* Whoever has drawn an id stays among those who have.
LEMMA UsedGrows ==
  ASSUME TypeInv, asks' \in Seq(Ask), Used \subseteq Used', nextId' = nextId
  PROVE  nextId' <= Cardinality(Used') + 1
<1>1. Len(asks') \in Nat /\ Used' \in SUBSET (1 .. Len(asks'))
  BY LenProperties DEF Used, Asks
<1>2. IsFiniteSet(Used') /\ Cardinality(Used') \in Nat
  BY <1>1, SomeOf
<1>3. Cardinality(Used) <= Cardinality(Used')
  BY <1>2, FS_Subset
<1> QED
  BY <1>2, <1>3, UsedFinite DEF TypeInv, AsksInv

-----------------------------------------------------------------------------
(* Types. *)

\* What is written stays so, with its request.
WrittenKept ==
  /\ Written' = Written
  /\ \A a \in Written : /\ asks'[a].kind = asks[a].kind
                        /\ asks'[a].rating = asks[a].rating
                        /\ asks'[a].text = asks[a].text
                        /\ asks'[a].fid = asks[a].fid

LEMMA KeptTypes ==
  ASSUME TypeInv, Kept, nextId' = nextId
  PROVE  AsksInv' /\ WrittenKept
<1>1. asks' \in Seq(Ask) /\ Len(asks') = Len(asks) /\ Asks' = Asks
  BY SameAsks DEF TypeInv, Kept
<1>2. Used' = Used
  BY <1>1 DEF Kept, Used
<1>3. WrittenKept
  BY <1>1 DEF Kept, Written, WrittenKept
<1> QED
  BY <1>1, <1>2, <1>3 DEF AsksInv, TypeInv, WrittenKept, Kept

LEMMA AddedTypes ==
  ASSUME TypeInv, NEW kind \in {"vote", "note", "clear"}, NEW vote \in Ratings,
         NEW text \in Texts, kind # "clear" => vote \in Votes, Request(kind, vote, text)
  PROVE  AsksInv' /\ WrittenKept
<1>1. Added(kind, vote, text) /\ Len(asks) < MaxAsks /\ nextId' = nextId
  BY RequestAdds DEF TypeInv, Request, api
<1>2. /\ Len(asks) \in Nat /\ Asks = 1 .. Len(asks) /\ MaxAsks \in Nat
      /\ Asks' = 1 .. Len(asks) + 1
  BY <1>1, AsksFunction, LenProperties, FeedbackAssumption DEF TypeInv, Added, Asks
<1>3. Used \subseteq Used'
  BY <1>1, <1>2 DEF Used, Added
<1>4. WrittenKept
  <2>1. Written' = Written
    BY <1>1, <1>2 DEF Written, Added
  <2> QED
    BY <1>1, <2>1 DEF Written, WrittenKept, Added
<1>5. nextId' <= Cardinality(Used') + 1
  BY <1>1, <1>3, UsedGrows DEF Added
<1> QED
  BY <1>1, <1>2, <1>4, <1>5 DEF Added, AsksInv, TypeInv, WrittenKept

\* A request goes on, and stores nothing.
LEMMA MovedTypes ==
  ASSUME TypeInv, NEW a \in Asks, NEW at \in {"owned", "done", "failed"}, NEW fid,
         at = "owned" => asks[a].at = "sent",
         Moves(a, at, fid), nextId' = nextId
  PROVE  AsksInv'
<1>1. asks' \in Seq(Ask) /\ Len(asks') = Len(asks) /\ Asks' = Asks
  BY SameAsks DEF TypeInv, Moves
<1>2. Used \subseteq Used'
  BY <1>1 DEF Moves, Used
<1>3. \A b \in Written' : b \in Written /\ asks'[b].fid = asks[b].fid
  BY <1>1 DEF Moves, Written
<1>4. nextId' <= Cardinality(Used') + 1
  BY <1>1, <1>2, UsedGrows
<1> QED
  BY <1>1, <1>3, <1>4 DEF AsksInv, TypeInv, Moves

\* A request stores its change, perhaps with the next id.
LEMMA WroteTypes ==
  ASSUME TypeInv, NEW a \in Asks, asks[a].at = "owned", NEW fid \in Fids,
         nextId' \in {nextId, nextId + 1},
         Wrote(a, fid) \/ Goto(a, "failed")
  PROVE  AsksInv'
<1>1. PICK at \in {"written", "failed"} :
        Moves(a, at, IF at = "written" THEN fid ELSE asks[a].fid)
  <2>1. fid \in 0 .. MaxAsks
    BY FeedbackAssumption DEF Fids
  <2>2. CASE Wrote(a, fid)
    BY <2>1, <2>2, WroteMoves DEF TypeInv
  <2>3. CASE Goto(a, "failed")
    BY <2>3, GotoMoves DEF TypeInv
  <2> QED
    BY <2>2, <2>3
<1>2. asks' \in Seq(Ask) /\ Len(asks') = Len(asks) /\ Asks' = Asks
  BY <1>1, SameAsks DEF TypeInv, Moves
<1>3. Used' = Used \cup {a} /\ a \notin Used
  BY <1>1, <1>2 DEF Moves, Used
<1>4. /\ Cardinality(Used') = Cardinality(Used) + 1
      /\ Cardinality(Used) \in Nat /\ nextId \in Nat
  BY <1>3, UsedFinite, FS_AddElement DEF TypeInv
<1>5. \A b \in Written' : \/ b = a /\ asks'[b].fid = fid
                          \/ b \in Written /\ asks'[b].fid = asks[b].fid
  BY <1>1, <1>2 DEF Moves, Written
<1>6. nextId' <= Cardinality(Used') + 1
  BY <1>4 DEF AsksInv, TypeInv
<1>7. \A b \in Written' : asks'[b].fid \in Fids
  BY <1>5 DEF AsksInv, TypeInv
<1>8. \A b \in Asks' : asks'[b].kind # "clear" => asks'[b].rating \in Votes
  BY <1>1, <1>2 DEF AsksInv, TypeInv, Moves
<1> QED
  BY <1>2, <1>6, <1>7, <1>8 DEF AsksInv, TypeInv

\* The variables besides the requests.
Rest ==
  /\ rating \in Ratings /\ cached \in Ratings
  /\ noteOpen \in BOOLEAN
  /\ alive \in BOOLEAN /\ traced \in BOOLEAN
  /\ row \in Row \cup {NoRow}
  /\ nextId \in 1 .. MaxAsks + 1
  /\ jobs \subseteq Job
  /\ mirror \in [Keys -> Ratings \cup Texts]
  /\ inStep \in BOOLEAN /\ followed \in BOOLEAN

LEMMA RestAndAsks == (Rest /\ AsksInv => TypeInv) /\ (Rest' /\ AsksInv' => TypeInv')
BY DEF TypeInv, TypeOK, Rest, AsksInv

LEMMA InitTypes == Init => TypeInv
<1> SUFFICES ASSUME Init PROVE TypeInv
  OBVIOUS
<1>1. /\ asks = <<>> /\ asks \in Seq(Ask) /\ Len(asks) = 0 /\ Asks = {}
  BY EmptySeq DEF Init, Asks
<1>2. Used = {} /\ Written = {}
  BY <1>1 DEF Used, Written
<1>3. Cardinality(Used) = 0
  BY <1>2, FS_EmptySet
<1>4. AsksInv
  BY <1>1, <1>2, <1>3, FeedbackAssumption DEF AsksInv, Init
<1>5. \A k \in Keys : Absent(k) \in Ratings \cup Texts
  BY DEF Absent, Ratings, Texts
<1>6. mirror \in [Keys -> Ratings \cup Texts]
  <2>1. mirror = [k \in Keys |-> Absent(k)]
    BY DEF Init
  <2> QED
    BY <1>5, <2>1
<1>7. None \in Ratings /\ nextId \in 1 .. MaxAsks + 1
  BY FeedbackAssumption DEF Init, Ratings
<1>8. Rest
  BY <1>6, <1>7 DEF Init, Rest
<1> QED
  BY <1>4, <1>8, RestAndAsks

\* The steps of the bubble, and of the page around it.
Bubble ==
  \/ \E next \in Votes : Vote(next)
  \/ \E text \in Texts : SubmitNote(text)
  \/ \E a \in Asks : Accepted(a) \/ Refused(a) \/ Broken(a)
  \/ Remount \/ Reload

LEMMA BubbleTypes ==
  ASSUME TypeInv, Bubble
  PROVE  TypeInv' /\ WrittenKept
<1>1. ASSUME NEW next \in Votes, Vote(next)
      PROVE  TypeInv' /\ WrittenKept
  <2>1. next \in Ratings /\ None \in Ratings /\ NoNote \in Texts
    BY DEF Ratings, Texts
  <2>2. Request("clear", None, NoNote) \/ Request("vote", next, NoNote)
    BY <1>1 DEF Vote
  <2>3. AsksInv' /\ WrittenKept
    BY <1>1, <2>1, <2>2, AddedTypes
  <2>4. Rest'
    BY <1>1, <2>1 DEF Vote, Request, api, TypeInv, TypeOK, Rest
  <2> QED
    BY <2>3, <2>4, RestAndAsks
<1>2. ASSUME NEW text \in Texts, SubmitNote(text)
      PROVE  TypeInv' /\ WrittenKept
  <2>1. AsksInv' /\ WrittenKept
    <3>1. CASE Request("note", rating, text) /\ rating # None
      BY <3>1, AddedTypes DEF TypeInv, TypeOK, Ratings
    <3>2. CASE UNCHANGED asks /\ nextId' = nextId
      BY <3>2 DEF TypeInv, AsksInv, WrittenKept, Written, Used, Asks
    <3> QED
      BY <1>2, <3>1, <3>2 DEF SubmitNote, api
  <2>2. Rest'
    BY <1>2 DEF SubmitNote, Request, api, TypeInv, TypeOK, Rest
  <2> QED
    BY <2>1, <2>2, RestAndAsks
<1>3. ASSUME NEW a \in Asks, Accepted(a) \/ Refused(a) \/ Broken(a)
      PROVE  TypeInv' /\ WrittenKept
  <2>1. asks[a] \in Ask
    BY AsksFunction DEF TypeInv
  <2>2. Settle(a) /\ nextId' = nextId
    BY <1>3 DEF Accepted, Refused, Broken, api
  <2>3. AsksInv' /\ WrittenKept
    BY <2>2, SettleKeeps, KeptTypes DEF TypeInv
  <2>4. rating' \in Ratings /\ cached' \in Ratings /\ noteOpen' \in BOOLEAN
    BY <1>3, <2>1 DEF Accepted, Refused, Broken, TakeBack, Remembers, Ask, TypeInv, TypeOK
  <2>5. Rest'
    BY <1>3, <2>4 DEF Accepted, Refused, Broken, api, TypeInv, TypeOK, Rest
  <2> QED
    BY <2>3, <2>5, RestAndAsks
<1>4. CASE Remount
  <2>1. AsksInv' /\ WrittenKept
    BY <1>4, RemountKeeps, KeptTypes DEF TypeInv, Remount, api
  <2>2. Rest'
    BY <1>4 DEF Remount, api, TypeInv, TypeOK, Rest
  <2> QED
    BY <2>1, <2>2, RestAndAsks
<1>5. CASE Reload
  <2>1. AsksInv' /\ WrittenKept
    BY <1>5, ReloadKeeps, KeptTypes DEF TypeInv, Reload, api
  <2>2. row.rating \in Ratings
    BY DEF TypeInv, TypeOK, Row, NoRow, Ratings
  <2>3. Rest'
    BY <1>5, <2>2 DEF Reload, LoadedRating, api, TypeInv, TypeOK, Rest
  <2> QED
    BY <2>1, <2>3, RestAndAsks
<1> QED
  BY <1>1, <1>2, <1>3, <1>4, <1>5 DEF Bubble

LEMMA CheckOwnerTypes ==
  ASSUME TypeInv, NEW a \in Asks, CheckOwner(a)
  PROVE  TypeInv' /\ WrittenKept
<1>1. PICK at \in {"owned", "failed"} : Moves(a, at, asks[a].fid) /\ asks[a].at = "sent"
  BY GotoMoves DEF CheckOwner, TypeInv
<1>2. AsksInv'
  BY <1>1, MovedTypes DEF CheckOwner, api
<1>3. WrittenKept
  <2>1. Asks' = Asks
    BY <1>1, SameAsks DEF Moves, TypeInv
  <2> QED
    BY <1>1, <2>1 DEF Moves, Written, WrittenKept
<1>4. Rest'
  BY DEF CheckOwner, client, api, TypeInv, TypeOK, Rest
<1> QED
  BY <1>2, <1>3, <1>4, RestAndAsks

LEMMA UpsertTypes ==
  ASSUME TypeInv, NEW a \in Asks, Upsert(a)
  PROVE  TypeInv'
<1>1. asks[a] \in Ask /\ asks[a].at = "owned" /\ asks[a].kind # "clear"
  BY AsksFunction DEF TypeInv, Upsert
<1>2. nextId \in Fids
  BY <1>1, IdLeft
<1>3. CASE NoEffect(a)
  <2>1. AsksInv'
    BY <1>1, <1>3, GotoMoves, MovedTypes DEF NoEffect, TypeInv
  <2>2. Rest'
    BY <1>3 DEF Upsert, NoEffect, client, TypeInv, TypeOK, Rest
  <2> QED
    BY <2>1, <2>2, RestAndAsks
<1>4. CASE /\ row' = Upserted(a)
           /\ nextId' = IF row'.fid = nextId THEN nextId + 1 ELSE nextId
           /\ Outcome(a, row'.fid)
  <2>1. KeptFid \in Fids
    BY <1>2 DEF KeptFid, TypeInv, TypeOK, Row
  <2>2. asks[a].rating \in Votes /\ asks[a].text \in Texts
    BY <1>1 DEF Ask, TypeInv, AsksInv
  <2>3. row'.fid = KeptFid
    BY <1>4 DEF Upserted
  <2>4. AsksInv'
    BY <1>1, <1>4, <2>1, <2>3, WroteTypes DEF Outcome
  <2>5. row' \in Row
    BY <1>4, <2>1, <2>2 DEF Upserted, StoredComment, Row
  <2>6. nextId' \in 1 .. MaxAsks + 1
    BY <1>2, <1>4, FeedbackAssumption DEF Fids
  <2>7. Rest'
    BY <1>4, <2>5, <2>6 DEF Upsert, Outcome, client, TypeInv, TypeOK, Rest
  <2> QED
    BY <2>4, <2>7, RestAndAsks
<1> QED
  BY <1>3, <1>4 DEF Upsert

LEMMA RemoveTypes ==
  ASSUME TypeInv, NEW a \in Asks, Remove(a)
  PROVE  TypeInv'
<1>1. asks[a] \in Ask /\ asks[a].at = "owned"
  BY AsksFunction DEF TypeInv, Remove
<1>2. nextId \in {nextId, nextId + 1}
  OBVIOUS
<1>3. AsksInv'
  <2>1. CASE (Goto(a, "done") \/ NoEffect(a)) /\ nextId' = nextId
    BY <1>1, <2>1, GotoMoves, MovedTypes DEF NoEffect, TypeInv
  <2>2. CASE row # NoRow /\ Outcome(a, row.fid) /\ nextId' = nextId
    <3>1. row.fid \in Fids
      BY <2>2 DEF TypeInv, TypeOK, Row
    <3> QED
      BY <1>1, <1>2, <2>2, <3>1, WroteTypes DEF Outcome
  <2> QED
    BY <2>1, <2>2 DEF Remove, NoEffect
<1>4. Rest'
  BY DEF Remove, NoEffect, Outcome, client, TypeInv, TypeOK, Rest
<1> QED
  BY <1>3, <1>4, RestAndAsks

LEMMA FireTypes ==
  ASSUME TypeInv, NEW a \in Asks, Fire(a)
  PROVE  /\ TypeInv'
         /\ Moves(a, "done", 0)
<1>1. asks[a] \in Ask /\ asks[a].at = "written" /\ asks[a].fid \in Fids
  BY AsksFunction DEF TypeInv, AsksInv, Written, Fire
<1>2. Moves(a, "done", 0)
  <2>1. asks \in [Asks -> Ask] /\ asks' = [asks EXCEPT ![a].at = "done", ![a].fid = 0]
    BY AsksFunction DEF Fire, TypeInv
  <2>0. 0 \in 0 .. MaxAsks
    BY FeedbackAssumption
  <2> DEFINE d == [asks[a] EXCEPT !.at = "done", !.fid = 0]
  <2>2. asks' = [asks EXCEPT ![a] = d]
    BY <2>1, Zenon
  <2>3. /\ d \in Ask /\ d.at = "done" /\ d.fid = 0
        /\ d.kind = asks[a].kind /\ d.rating = asks[a].rating /\ d.text = asks[a].text
        /\ d.prev = asks[a].prev /\ d.waiting = asks[a].waiting
        /\ d.mine = asks[a].mine /\ d.lone = asks[a].lone
    BY <1>1, <2>0 DEF Ask
  <2> HIDE DEF d
  <2>4. /\ asks' \in [Asks -> Ask]
        /\ \A b \in Asks : asks'[b] = IF b = a THEN d ELSE asks[b]
    BY <2>1, <2>2, <2>3
  <2> QED
    BY <2>3, <2>4 DEF Moves
<1>3. AsksInv'
  BY <1>2, MovedTypes DEF Fire, api
<1>4. jobs' \subseteq Job
  <2>1. a \in 1 .. MaxAsks
    BY AsksFunction, FeedbackAssumption DEF TypeInv, TypeOK
  <2>2. \A key \in {"user_score", "user_feedback"} : \A v \in Ratings \cup Texts :
          Told(a, key, v) \in Job
    BY <1>1, <2>1 DEF Told, Job, Keys
  <2>3. /\ asks[a].rating \in Ratings \cup Texts /\ asks[a].text \in Ratings \cup Texts
        /\ None \in Ratings \cup Texts /\ NoNote \in Ratings \cup Texts
    BY <1>1 DEF Ask, Ratings, Texts
  <2>4. Scrub(a) \subseteq Job /\ Report(a) \subseteq Job
    BY <2>2, <2>3 DEF Scrub, Report
  <2> QED
    BY <2>4 DEF Fire, TypeInv, TypeOK
<1>5. Rest'
  BY <1>4 DEF Fire, client, api, TypeInv, TypeOK, Rest
<1> QED
  BY <1>2, <1>3, <1>5, RestAndAsks

\* The calls of the mirror, and the deletion of the message.
Away == (\E j \in jobs : Deliver(j) \/ Drop(j)) \/ DeleteMessage

LEMMA AwayTypes ==
  ASSUME TypeInv, Away
  PROVE  TypeInv' /\ asks' = asks
<1>1. asks' = asks /\ nextId' = nextId
  BY DEF Away, Deliver, Drop, DeleteMessage, api
<1>2. AsksInv'
  BY <1>1 DEF TypeInv, AsksInv, Used, Written, Asks
<1>3. ASSUME NEW j \in jobs, Deliver(j) \/ Drop(j)
      PROVE  Rest'
  <2>1. j.key \in Keys /\ j.value \in Ratings \cup Texts
    BY DEF TypeInv, TypeOK, Job
  <2>2. mirror' \in [Keys -> Ratings \cup Texts]
    BY <1>3, <2>1 DEF Deliver, Drop, TypeInv, TypeOK
  <2> QED
    BY <1>3, <2>2 DEF Deliver, Drop, client, api, TypeInv, TypeOK, Rest
<1>4. ASSUME DeleteMessage
      PROVE  Rest'
  BY <1>4 DEF DeleteMessage, client, TypeInv, TypeOK, Rest
<1>5. Rest'
  BY <1>3, <1>4 DEF Away
<1> QED
  BY <1>1, <1>2, <1>5, RestAndAsks

LEMMA StepKinds ==
  ASSUME [Next]_vars
  PROVE  \/ Bubble \/ Away
         \/ \E a \in Asks : CheckOwner(a) \/ Upsert(a) \/ Remove(a) \/ Fire(a)
         \/ UNCHANGED vars
BY DEF Next, Bubble, Away

LEMMA StayTypes ==
  ASSUME TypeInv, UNCHANGED vars
  PROVE  TypeInv'
BY DEF vars, TypeInv, TypeOK, AsksInv, Used, Written, Asks

LEMMA TypeStep == TypeInv /\ [Next]_vars => TypeInv'
BY StepKinds, BubbleTypes, CheckOwnerTypes, UpsertTypes, RemoveTypes, FireTypes,
   AwayTypes, StayTypes

\* Type correctness, and with it that ids never run out: a request draws one
\* feedback id at most (chat.go, Feedback).
THEOREM TypeCorrect == Spec => []TypeOK
<1>1. TypeInv => TypeOK
  BY DEF TypeInv
<1> QED
  BY <1>1, InitTypes, TypeStep, PTL DEF Spec

-----------------------------------------------------------------------------
(* The mirror. *)

\* LangSmith has the row, or is being told, or will be by the one request that
\* has just stored it.  Without a run id it has nothing.
MirrorInv ==
  /\ ~ traced => /\ \A key \in Keys : mirror[key] = Absent(key)
                 /\ \A j \in jobs : j.value = Absent(j.key)
  /\ alive /\ followed =>
       /\ \A a, b \in Written : a = b
       /\ Written # {} => jobs = {}
       /\ \A j \in jobs : j.value = Wanted(j.key)
       /\ \A key \in Keys :
            \/ mirror[key] = Wanted(key)
            \/ \E j \in jobs : j.key = key
            \/ \E a \in Written : asks[a].fid = key[1]
       /\ \A a \in Written :
            IF asks[a].kind = "clear" THEN row = NoRow
            ELSE /\ row.rating = asks[a].rating /\ row.comment = asks[a].text
                 /\ row.fid = asks[a].fid

\* Nothing that the mirror is about changes.
LEMMA QuietMirror ==
  ASSUME MirrorInv, WrittenKept, followed' => followed, alive' => alive,
         UNCHANGED <<traced, row, jobs, mirror>>
  PROVE  MirrorInv'
<1>1. Written' = Written
  BY DEF WrittenKept
<1>2. \A key : Wanted(key)' = Wanted(key)
  BY DEF Wanted
<1> QED
  BY <1>1, <1>2 DEF MirrorInv, WrittenKept, Wanted

LEMMA InitMirror == Init => MirrorInv
<1> SUFFICES ASSUME Init PROVE MirrorInv
  OBVIOUS
<1>1. Written = {} /\ jobs = {} /\ row = NoRow
  BY DEF Init, Written, Asks
<1>2. \A key \in Keys : mirror[key] = Absent(key) /\ key[1] # row.fid
  BY <1>1 DEF Init, Keys, Fids, NoRow
<1> QED
  BY <1>1, <1>2 DEF MirrorInv, Wanted

\* A change is stored under the id of the row there was, or of a new one.
LEMMA StoredMirror ==
  ASSUME TypeInv, MirrorInv, NEW a \in Asks, NEW fid \in Fids,
         asks[a].at = "owned", Wrote(a, fid),
         followed' = (followed /\ ~ Overlaps),
         row = NoRow \/ row.fid = fid,
         IF asks[a].kind = "clear" THEN row' = NoRow ELSE row' = Upserted(a) /\ fid = KeptFid,
         UNCHANGED <<alive, traced, jobs, mirror>>
  PROVE  MirrorInv'
<1>1. Moves(a, "written", fid)
  BY WroteMoves, FeedbackAssumption DEF TypeInv, Fids
<1>2. Asks' = Asks
  BY <1>1, SameAsks DEF Moves, TypeInv
<1>3. ~ traced' => /\ \A key \in Keys : mirror'[key] = Absent(key)
                   /\ \A j \in jobs' : j.value = Absent(j.key)
  BY DEF MirrorInv
<1>4. ASSUME alive', followed'
      PROVE  /\ jobs' = {} /\ Written' = {a}
             /\ \A key \in Keys : mirror'[key] = Wanted(key)' \/ fid = key[1]
  <2>1. followed /\ alive /\ jobs = {} /\ Written = {}
    BY <1>4 DEF Overlaps, Written
  <2>2. jobs' = {} /\ Written' = {a}
    BY <1>1, <1>2, <2>1 DEF Moves, Written
  <2>3. ASSUME NEW key \in Keys, fid # key[1]
        PROVE  mirror'[key] = Wanted(key)'
    <3>1. key[1] \in Fids /\ key[1] # 0
      BY DEF Keys, Fids
    <3>2. row.fid # key[1] /\ row'.fid # key[1]
      BY <2>3, <3>1 DEF NoRow, Upserted
    <3>3. Wanted(key) = Absent(key) /\ Wanted(key)' = Absent(key)
      BY <3>2 DEF Wanted
    <3> QED
      BY <2>1, <3>3 DEF MirrorInv
  <2> QED
    BY <2>2, <2>3
<1>5. /\ asks'[a].fid = fid /\ asks'[a].kind = asks[a].kind
      /\ asks'[a].rating = asks[a].rating /\ asks'[a].text = asks[a].text
  BY <1>1 DEF Moves
<1>6. IF asks'[a].kind = "clear" THEN row' = NoRow
      ELSE /\ row'.rating = asks'[a].rating /\ row'.comment = asks'[a].text
           /\ row'.fid = asks'[a].fid
  BY <1>5 DEF Upserted, StoredComment
<1> QED
  BY <1>3, <1>4, <1>5, <1>6 DEF MirrorInv

LEMMA UnfollowedMirror ==
  ASSUME MirrorInv, ~ followed', UNCHANGED <<traced, jobs, mirror>>
  PROVE  MirrorInv'
BY DEF MirrorInv

\* A request fails, or has nothing to do.
LEMMA UnwrittenMirror ==
  ASSUME TypeInv, MirrorInv, NEW a \in Asks, asks[a].at = "owned",
         NEW at \in {"done", "failed"}, Goto(a, at),
         UNCHANGED <<alive, traced, row, followed, jobs, mirror>>
  PROVE  MirrorInv'
<1>1. Moves(a, at, asks[a].fid)
  BY GotoMoves DEF TypeInv
<1>2. Asks' = Asks
  BY <1>1, SameAsks DEF Moves, TypeInv
<1>3. WrittenKept
  BY <1>1, <1>2 DEF Moves, Written, WrittenKept
<1> QED
  BY <1>3, QuietMirror

LEMMA UpsertMirror ==
  ASSUME TypeInv, MirrorInv, NEW a \in Asks, Upsert(a)
  PROVE  MirrorInv'
<1>1. /\ asks[a].at = "owned" /\ asks[a].kind # "clear"
      /\ UNCHANGED <<alive, traced, jobs, mirror>>
  BY DEF Upsert
<1>2. CASE NoEffect(a)
  BY <1>1, <1>2, UnwrittenMirror DEF NoEffect
<1>3. CASE row' = Upserted(a) /\ Outcome(a, row'.fid)
  <2>1. row'.fid = KeptFid
    BY <1>3 DEF Upserted
  <2>2. KeptFid \in Fids /\ (row = NoRow \/ row.fid = KeptFid)
    BY <1>1, IdLeft DEF KeptFid, TypeInv, TypeOK, Row
  <2>3. CASE Wrote(a, row'.fid) /\ followed' = (followed /\ ~ Overlaps)
    BY <1>1, <1>3, <2>1, <2>2, <2>3, StoredMirror
  <2>4. CASE ~ followed'
    BY <1>1, <2>4, UnfollowedMirror
  <2> QED
    BY <1>3, <2>3, <2>4 DEF Outcome
<1> QED
  BY <1>2, <1>3 DEF Upsert

LEMMA RemoveMirror ==
  ASSUME TypeInv, MirrorInv, NEW a \in Asks, Remove(a)
  PROVE  MirrorInv'
<1>1. /\ asks[a].at = "owned" /\ asks[a].kind = "clear"
      /\ UNCHANGED <<alive, traced, jobs, mirror>>
  BY DEF Remove
<1>2. CASE NoEffect(a)
  BY <1>1, <1>2, UnwrittenMirror DEF NoEffect
<1>3. CASE Goto(a, "done") /\ row' = row /\ followed' = followed
  BY <1>1, <1>3, UnwrittenMirror
<1>4. CASE row # NoRow /\ row' = NoRow /\ Outcome(a, row.fid)
  <2>1. row.fid \in Fids
    BY <1>4 DEF TypeInv, TypeOK, Row
  <2>2. CASE Wrote(a, row.fid) /\ followed' = (followed /\ ~ Overlaps)
    BY <1>1, <1>4, <2>1, <2>2, StoredMirror
  <2>3. CASE ~ followed'
    BY <1>1, <2>3, UnfollowedMirror
  <2> QED
    BY <1>4, <2>2, <2>3 DEF Outcome
<1> QED
  BY <1>2, <1>3, <1>4 DEF Remove

LEMMA FireMirror ==
  ASSUME TypeInv, MirrorInv, NEW a \in Asks, Fire(a)
  PROVE  MirrorInv'
<1>1. /\ Moves(a, "done", 0) /\ a \in Written /\ asks[a].fid \in Fids
      /\ UNCHANGED <<alive, traced, row, mirror, followed>>
      /\ jobs' = jobs \cup IF asks[a].kind = "clear" THEN Scrub(a) ELSE Report(a)
  BY FireTypes DEF Fire, Written, TypeInv, AsksInv, api
<1>2. Asks' = Asks
  BY <1>1, SameAsks DEF Moves, TypeInv
<1>3. Written' = Written \ {a}
  BY <1>1, <1>2 DEF Moves, Written
<1>4. \A key : Wanted(key)' = Wanted(key)
  BY <1>1 DEF Wanted
<1>5. ~ traced => \A j \in jobs' : j.value = Absent(j.key)
  BY <1>1 DEF MirrorInv, Scrub, Report, Told, Absent
<1>6. ASSUME alive, followed
      PROVE  /\ Written' = {}
             /\ \A j \in jobs' : j.value = Wanted(j.key)
             /\ \A key \in Keys : mirror[key] = Wanted(key) \/ \E j \in jobs' : j.key = key
  <2>1. Written = {a} /\ Written' = {} /\ jobs = {}
    BY <1>1, <1>3, <1>6 DEF MirrorInv
  <2>2. \A key \in Keys : mirror[key] = Wanted(key) \/ asks[a].fid = key[1]
    BY <1>6, <2>1 DEF MirrorInv
  <2>3. \A key \in Keys :
          asks[a].fid = key[1] => \/ key = <<asks[a].fid, "user_score">>
                                  \/ key = <<asks[a].fid, "user_feedback">>
    BY DEF Keys
  <2>4. CASE asks[a].kind = "clear"
    <3>1. jobs' = Scrub(a) /\ row = NoRow
      BY <1>1, <1>6, <2>1, <2>4 DEF MirrorInv
    <3>2. \A key : Wanted(key) = Absent(key) \/ row.fid = key[1]
      BY DEF Wanted
    <3>3. row.fid # asks[a].fid
      BY <1>1, <3>1 DEF NoRow, Fids
    <3>4. \A j \in jobs' : j.key[1] = asks[a].fid /\ j.value = Absent(j.key)
      BY <3>1 DEF Scrub, Told, Absent
    <3>5. \A key \in Keys : asks[a].fid = key[1] => \E j \in jobs' : j.key = key
      BY <2>3, <3>1 DEF Scrub, Told
    <3> QED
      BY <2>1, <2>2, <3>2, <3>3, <3>4, <3>5
  <2>5. CASE asks[a].kind # "clear" /\ traced
    <3>1. /\ jobs' = {Told(a, "user_score", row.rating), Told(a, "user_feedback", row.comment)}
          /\ row.fid = asks[a].fid
      BY <1>1, <1>6, <2>1, <2>5 DEF MirrorInv, Report
    <3>2. \A j \in jobs' : j.value = Wanted(j.key)
      BY <2>5, <3>1 DEF Told, Wanted
    <3>3. \A key \in Keys : asks[a].fid = key[1] => \E j \in jobs' : j.key = key
      BY <2>3, <3>1 DEF Told
    <3> QED
      BY <2>1, <2>2, <3>2, <3>3
  <2>6. CASE asks[a].kind # "clear" /\ ~ traced
    BY <1>1, <2>1, <2>6 DEF MirrorInv, Report, Wanted
  <2> QED
    BY <2>4, <2>5, <2>6
<1> QED
  BY <1>1, <1>4, <1>5, <1>6 DEF MirrorInv

LEMMA AwayMirror ==
  ASSUME TypeInv, MirrorInv, Away
  PROVE  MirrorInv'
<1>1. asks' = asks /\ Written' = Written
  BY AwayTypes DEF Written, Asks
<1>2. ASSUME NEW j \in jobs, Deliver(j)
      PROVE  MirrorInv'
  <2>1. /\ jobs' = jobs \ {j} /\ mirror' = [mirror EXCEPT ![j.key] = j.value]
        /\ UNCHANGED <<alive, traced, row, followed>>
    BY <1>2 DEF Deliver, api
  <2>2. mirror \in [Keys -> Ratings \cup Texts] /\ j.key \in Keys
    BY DEF TypeInv, TypeOK, Job
  <2>3. \A key : Wanted(key)' = Wanted(key)
    BY <2>1 DEF Wanted
  <2>4. ~ traced => /\ \A key \in Keys : mirror'[key] = Absent(key)
                    /\ \A k \in jobs' : k.value = Absent(k.key)
    BY <2>1, <2>2 DEF MirrorInv
  <2>5. ASSUME alive, followed
        PROVE  \A key \in Keys : \/ mirror'[key] = Wanted(key)
                                 \/ \E k \in jobs' : k.key = key
                                 \/ \E a \in Written : asks[a].fid = key[1]
    BY <2>1, <2>2, <2>5 DEF MirrorInv
  <2> QED
    BY <1>1, <2>1, <2>3, <2>4, <2>5 DEF MirrorInv
<1>3. ASSUME NEW j \in jobs, Drop(j)
      PROVE  MirrorInv'
  <2>1. /\ jobs' = jobs \ {j} /\ mirror' \in {mirror, [mirror EXCEPT ![j.key] = j.value]}
        /\ traced' = traced /\ ~ followed'
    BY <1>3 DEF Drop, api
  <2>2. mirror \in [Keys -> Ratings \cup Texts] /\ j.key \in Keys
    BY DEF TypeInv, TypeOK, Job
  <2> QED
    BY <2>1, <2>2 DEF MirrorInv
<1>4. ASSUME DeleteMessage
      PROVE  MirrorInv'
  <2>1. ~ alive' /\ UNCHANGED <<traced, jobs, mirror>>
    BY <1>4 DEF DeleteMessage
  <2> QED
    BY <2>1 DEF MirrorInv
<1> QED
  BY <1>2, <1>3, <1>4 DEF Away

LEMMA MirrorStep == TypeInv /\ MirrorInv /\ [Next]_vars => MirrorInv'
<1> SUFFICES ASSUME TypeInv, MirrorInv, [Next]_vars
             PROVE  MirrorInv'
  OBVIOUS
<1>1. CASE Bubble
  <2>1. UNCHANGED <<alive, traced, row, jobs, mirror, followed>>
    BY <1>1 DEF Bubble, Vote, SubmitNote, Request, Accepted, Refused, Broken, Remount,
                Reload, api
  <2> QED
    BY <1>1, <2>1, BubbleTypes, QuietMirror
<1>2. ASSUME NEW a \in Asks, CheckOwner(a)
      PROVE  MirrorInv'
  BY <1>2, CheckOwnerTypes, QuietMirror DEF CheckOwner, api
<1>3. CASE UNCHANGED vars
  BY <1>3, QuietMirror DEF vars, WrittenKept, Written, Asks
<1> QED
  BY <1>1, <1>2, <1>3, StepKinds, UpsertMirror, RemoveMirror, FireMirror, AwayMirror

\* Once the mirror's calls are done, and none failed or overlapped another
\* change, LangSmith has the row's score and note under the row's id and
\* nothing else (langsmith.go, Feedback and ClearFeedback in chat.go).
THEOREM MirrorKeepsUp == Spec => []MirrorFollows
<1>1. TypeInv /\ MirrorInv => MirrorFollows
  BY DEF MirrorInv, MirrorFollows, Written
<1> QED
  BY <1>1, InitTypes, InitMirror, TypeStep, MirrorStep, PTL DEF Spec

-----------------------------------------------------------------------------
(* The bubble. *)

\* A request that nothing overlaps is the only one under way, the bubble shows
\* what it asks for, and once stored so does the row.  While the bubble is in
\* step, whatever is under way is such a request, which can be taken back.
ShowInv ==
  /\ \A a \in Asks : asks[a].kind = "clear" => asks[a].rating = None
  /\ \A a \in Asks :
       asks[a].lone /\ Open(a) =>
         /\ asks[a].waiting /\ asks[a].mine
         /\ \A b \in Asks : Open(b) => b = a
         /\ rating = asks[a].rating
         /\ alive /\ asks[a].at \in {"written", "done"} => row.rating = asks[a].rating
  /\ inStep /\ alive =>
       /\ ~ Busy => rating = row.rating /\ cached = row.rating
       /\ \A a \in Asks :
            Open(a) =>
              /\ asks[a].lone
              /\ cached = asks[a].prev
              /\ asks[a].at \in {"sent", "owned", "failed"} => row.rating = asks[a].prev
              /\ asks[a].kind = "note" => asks[a].rating = asks[a].prev

\* A handler takes a request on.
LEMMA ApiShow ==
  ASSUME TypeInv, ShowInv, NEW a \in Asks, NEW at, NEW fid, Moves(a, at, fid),
         asks[a].at \in {"sent", "owned", "written"},
         at \in {"written", "done"} /\ alive /\ asks[a].lone => row'.rating = asks[a].rating,
         at \notin {"written", "done"} /\ inStep' => row'.rating = row.rating,
         at \in {"sent", "owned", "failed"} => asks[a].at \in {"sent", "owned"},
         inStep' => inStep, UNCHANGED <<rating, cached, alive>>
  PROVE  ShowInv'
<1>1. Asks' = Asks
  BY SameAsks DEF Moves, TypeInv
<1>2. Open(a)
  BY DEF Open
<1>3. \A b \in Asks : /\ Open(b)' => Open(b)
                      /\ asks[b].waiting => (Open(b)' <=> Open(b))
  BY <1>2 DEF Moves, Open
<1>4. \A b \in Asks : asks[b].lone /\ Open(b) => b = a
  BY <1>2 DEF ShowInv
<1>5. ASSUME NEW b \in Asks, asks'[b].lone, Open(b)'
      PROVE  /\ asks'[b].waiting /\ asks'[b].mine
             /\ \A c \in Asks : Open(c)' => c = b
             /\ rating' = asks'[b].rating
             /\ alive' /\ asks'[b].at \in {"written", "done"} => row'.rating = asks'[b].rating
  <2>1. asks[b].lone /\ Open(b) /\ b = a
    BY <1>3, <1>4, <1>5 DEF Moves
  <2> QED
    BY <1>3, <2>1 DEF Moves, ShowInv
<1>6. ASSUME inStep', alive'
      PROVE  /\ Busy'
             /\ \A b \in Asks :
                  Open(b)' =>
                    /\ asks'[b].lone
                    /\ cached' = asks'[b].prev
                    /\ asks'[b].at \in {"sent", "owned", "failed"} => row'.rating = asks'[b].prev
                    /\ asks'[b].kind = "note" => asks'[b].rating = asks'[b].prev
  <2>1. asks[a].lone /\ asks[a].waiting
    BY <1>2, <1>6 DEF ShowInv
  <2>2. Open(a)' /\ Busy'
    BY <1>1, <1>2, <1>3, <2>1 DEF Busy
  <2>3. ASSUME NEW b \in Asks, Open(b)'
        PROVE  /\ b = a /\ asks'[b].lone
               /\ cached' = asks'[b].prev
               /\ asks'[b].kind = "note" => asks'[b].rating = asks'[b].prev
    BY <1>2, <1>3, <1>6, <2>1, <2>3 DEF ShowInv, Moves
  <2>4. asks'[a].at \in {"sent", "owned", "failed"} => row'.rating = asks'[a].prev
    BY <1>2, <1>6 DEF ShowInv, Moves
  <2> QED
    BY <2>2, <2>3, <2>4
<1>7. \A b \in Asks : asks'[b].kind = "clear" => asks'[b].rating = None
  BY DEF ShowInv, Moves
<1> QED
  BY <1>1, <1>5, <1>6, <1>7 DEF ShowInv

LEMMA HandlerShow ==
  ASSUME TypeInv, ShowInv, NEW a \in Asks,
         CheckOwner(a) \/ Upsert(a) \/ Remove(a) \/ Fire(a)
  PROVE  ShowInv'
<1>1. asks[a] \in Ask
  BY AsksFunction DEF TypeInv
<1>2. CASE CheckOwner(a)
  BY <1>2, GotoMoves, ApiShow DEF CheckOwner, TypeInv, client, api
<1>3. CASE Fire(a)
  <2>1. Moves(a, "done", 0) /\ asks[a].at = "written" /\ Open(a)
    BY <1>3, FireTypes DEF Fire, Open
  <2>2. /\ alive /\ asks[a].lone => row.rating = asks[a].rating
        /\ UNCHANGED <<rating, cached, alive, row, inStep>>
    BY <1>3, <2>1 DEF ShowInv, Fire, client, api
  <2> QED
    BY <2>1, <2>2, ApiShow
<1>4. CASE Upsert(a)
  <2>1. asks[a].at = "owned" /\ UNCHANGED <<rating, cached, alive>>
    BY <1>4 DEF Upsert, client
  <2>2. CASE NoEffect(a)
    BY <2>1, <2>2, GotoMoves, ApiShow DEF NoEffect, TypeInv
  <2>3. CASE row' = Upserted(a) /\ Outcome(a, row'.fid)
    <3>1. row'.rating = asks[a].rating
      BY <2>3 DEF Upserted
    <3>2. row'.fid \in 0 .. MaxAsks
      BY <1>4, <2>3, UpsertTypes, FeedbackAssumption DEF TypeInv, TypeOK, Row, NoRow, Fids
    <3>3. CASE Wrote(a, row'.fid) /\ inStep' = inStep
      BY <2>1, <3>1, <3>2, <3>3, WroteMoves, ApiShow DEF TypeInv
    <3>4. CASE Goto(a, "failed") /\ inStep' = FALSE
      BY <2>1, <3>4, GotoMoves, ApiShow DEF TypeInv
    <3> QED
      BY <2>3, <3>3, <3>4 DEF Outcome
  <2> QED
    BY <1>4, <2>2, <2>3 DEF Upsert
<1>5. CASE Remove(a)
  <2>1. /\ asks[a].at = "owned" /\ UNCHANGED <<rating, cached, alive>>
        /\ asks[a].rating = None
    BY <1>5 DEF Remove, client, ShowInv
  <2>2. CASE NoEffect(a)
    BY <2>1, <2>2, GotoMoves, ApiShow DEF NoEffect, TypeInv
  <2>3. CASE row = NoRow /\ Goto(a, "done") /\ row' = row /\ inStep' = inStep
    BY <2>1, <2>3, GotoMoves, ApiShow DEF NoRow, TypeInv
  <2>4. CASE row # NoRow /\ row' = NoRow /\ Outcome(a, row.fid)
    <3>1. row.fid \in 0 .. MaxAsks /\ row'.rating = None
      BY <2>4, FeedbackAssumption DEF TypeInv, TypeOK, Row, Fids, NoRow
    <3>2. CASE Wrote(a, row.fid) /\ inStep' = inStep
      BY <2>1, <3>1, <3>2, WroteMoves, ApiShow DEF TypeInv
    <3>3. CASE Goto(a, "failed") /\ inStep' = FALSE
      BY <2>1, <3>3, GotoMoves, ApiShow DEF TypeInv
    <3> QED
      BY <2>4, <3>2, <3>3 DEF Outcome
  <2> QED
    BY <1>5, <2>2, <2>3, <2>4 DEF Remove
<1> QED
  BY <1>2, <1>3, <1>4, <1>5

\* Every request is over with its bubble's page, or is no longer alone.
LEMMA CrowdedShow ==
  ASSUME TypeInv
  PROVE  \A a \in Asks : /\ Crowded[a].lone = (asks[a].lone /\ ~ Open(a))
                         /\ Crowded[a].waiting = asks[a].waiting
                         /\ Crowded[a].mine = asks[a].mine
                         /\ Crowded[a].prev = asks[a].prev
<1>1. asks \in [Asks -> Ask]
  BY AsksFunction DEF TypeInv
<1>2. \A a \in Asks : (asks[a].lone /\ ~ Open(a)) \in BOOLEAN
  OBVIOUS
<1>3. \A ask \in Ask : \A x \in BOOLEAN :
        /\ [ask EXCEPT !.lone = x].lone = x
        /\ [ask EXCEPT !.lone = x].waiting = ask.waiting
        /\ [ask EXCEPT !.lone = x].mine = ask.mine
        /\ [ask EXCEPT !.lone = x].prev = ask.prev
  BY DEF Ask
<1> QED
  BY <1>1, <1>2, <1>3 DEF Crowded

LEMMA RequestShow ==
  ASSUME TypeInv, ShowInv, NEW kind \in {"vote", "note", "clear"}, NEW vote \in Ratings,
         NEW text \in Texts, Request(kind, vote, text),
         rating' = vote,
         kind = "clear" => vote = None,
         kind = "note" => vote = rating
  PROVE  ShowInv'
<1>0. PICK n : n = Len(asks) + 1
  OBVIOUS
<1>1. /\ Added(kind, vote, text)
      /\ UNCHANGED <<cached, alive, row>> /\ inStep' = (inStep /\ ~ Busy)
  BY RequestAdds DEF TypeInv, Request, api
<1>2. /\ Len(asks) \in Nat /\ Asks = 1 .. Len(asks) /\ n \notin Asks
      /\ Asks' = Asks \cup {n}
  <2>1. Len(asks) \in Nat /\ Asks = 1 .. Len(asks)
    BY AsksFunction DEF TypeInv
  <2>2. Asks' = 1 .. Len(asks')
    BY <1>1, LenProperties DEF Added, Asks
  <2> QED
    BY <1>0, <1>1, <2>1, <2>2 DEF Added
<1>3. /\ \A a \in Asks : asks'[a] = Crowded[a]
      /\ asks'[n] = [kind |-> kind, rating |-> vote, text |-> text, prev |-> rating,
                     waiting |-> TRUE, mine |-> TRUE, lone |-> ~ Busy, fid |-> 0,
                     at |-> "sent"]
  <2>1. Crowded \in Seq(Ask) /\ Len(Crowded) = Len(asks)
    BY <1>2, AsksFunction, CrowdedKeeps, AsSequence DEF TypeInv
  <2> QED
    BY <1>0, <1>2, <2>1 DEF Request
<1>8. /\ asks'[n].waiting /\ asks'[n].mine /\ asks'[n].at = "sent"
      /\ rating' = asks'[n].rating /\ asks'[n].prev = rating
      /\ asks'[n].kind = kind
      /\ asks'[n].lone <=> ~ Busy
  <2>1. PICK x \in BOOLEAN : x = (~ Busy)
    OBVIOUS
  <2>2. asks'[n] = [kind |-> kind, rating |-> vote, text |-> text, prev |-> rating,
                    waiting |-> TRUE, mine |-> TRUE, lone |-> x, fid |-> 0,
                    at |-> "sent"]
    BY <1>3, <2>1, Zenon
  <2>3. /\ asks'[n].waiting /\ asks'[n].mine /\ asks'[n].at = "sent"
        /\ rating' = asks'[n].rating /\ asks'[n].prev = rating
        /\ asks'[n].kind = kind /\ asks'[n].lone = x
    BY <2>2
  <2> QED
    BY <2>1, <2>3
<1>4. ASSUME NEW a \in Asks
      PROVE  /\ Open(a)' <=> Open(a)
             /\ ~ (asks'[a].lone /\ Open(a)')
             /\ asks'[a].kind = "clear" => asks'[a].rating = None
  <2>1. /\ asks'[a].waiting = asks[a].waiting /\ asks'[a].at = asks[a].at
        /\ asks'[a].lone = (asks[a].lone /\ ~ Open(a))
        /\ asks'[a].kind = asks[a].kind /\ asks'[a].rating = asks[a].rating
    BY <1>3, CrowdedKeeps, CrowdedShow DEF TypeInv
  <2>2. Open(a)' <=> Open(a)
    BY <2>1 DEF Open
  <2> QED
    BY <2>1, <2>2 DEF ShowInv
<1>5. Open(n)' /\ Busy'
  <2>1. Open(n)'
    BY <1>8 DEF Open
  <2> QED
    BY <1>2, <2>1 DEF Busy
<1>6. ASSUME NEW a \in Asks', asks'[a].lone, Open(a)'
      PROVE  /\ a = n
             /\ \A b \in Asks' : Open(b)' => b = n
  <2>1. a = n /\ ~ Busy
    BY <1>2, <1>4, <1>6, <1>8
  <2>2. \A b \in Asks : ~ Open(b)'
    BY <1>4, <2>1 DEF Busy
  <2> QED
    BY <1>2, <2>1, <2>2
<1>7. ASSUME inStep', alive', NEW a \in Asks', Open(a)'
      PROVE  /\ asks'[a].lone
             /\ cached' = asks'[a].prev
             /\ row'.rating = asks'[a].prev
             /\ asks'[a].kind = "note" => asks'[a].rating = asks'[a].prev
  <2>1. ~ Busy /\ inStep /\ alive
    BY <1>1, <1>7
  <2>2. a = n
    BY <1>2, <1>4, <1>7, <2>1 DEF Busy
  <2>3. rating = row.rating /\ cached = row.rating
    BY <2>1 DEF ShowInv
  <2> QED
    BY <1>1, <1>8, <2>1, <2>2, <2>3
<1>9. asks'[n].kind = "clear" => asks'[n].rating = None
  BY <1>8
<1> QED
  BY <1>2, <1>4, <1>5, <1>6, <1>7, <1>8, <1>9 DEF ShowInv

\* A request of the bubble ends, for the client.
LEMMA SettleFields ==
  ASSUME TypeInv, NEW a \in Asks, Settle(a)
  PROVE  /\ Asks' = Asks
         /\ asks'[a].kind = asks[a].kind /\ asks'[a].rating = asks[a].rating
         /\ asks'[a].at = asks[a].at /\ ~ asks'[a].waiting /\ ~ asks'[a].lone
         /\ \A b \in Asks \ {a} : asks'[b] = asks[b]
<1>1. asks \in [Asks -> Ask] /\ asks' = [asks EXCEPT ![a] = Settled(asks[a])]
  BY AsksFunction DEF Settle, TypeInv
<1>2. Asks' = Asks /\ asks'[a] = Settled(asks[a])
  BY <1>1, SettleKeeps, SameAsks DEF Kept, TypeInv
<1>3. \A ask \in Ask : /\ Settled(ask).kind = ask.kind /\ Settled(ask).at = ask.at
                       /\ Settled(ask).rating = ask.rating
                       /\ ~ Settled(ask).waiting /\ ~ Settled(ask).lone
  BY DEF Ask, Settled, Detached
<1> QED
  BY <1>1, <1>2, <1>3

LEMMA AnsweredShow ==
  ASSUME TypeInv, ShowInv, NEW a \in Asks, Accepted(a) \/ Refused(a) \/ Broken(a)
  PROVE  ShowInv'
<1>1. /\ Settle(a) /\ Open(a) /\ asks[a].waiting
      /\ UNCHANGED <<alive, row>>
      /\ Broken(a) \/ asks[a].at \in {"done", "failed"}
  BY DEF Accepted, Refused, Broken, Open, api
<1>2. /\ Asks' = Asks
      /\ asks'[a].kind = asks[a].kind /\ asks'[a].rating = asks[a].rating
      /\ asks'[a].at = asks[a].at /\ ~ asks'[a].waiting /\ ~ asks'[a].lone
      /\ \A b \in Asks \ {a} : asks'[b] = asks[b]
  BY <1>1, SettleFields
<1>3. \A b \in Asks \ {a} : Open(b)' <=> Open(b)
  BY <1>2 DEF Open
<1>4. \A b \in Asks' : ~ (asks'[b].lone /\ Open(b)')
  BY <1>1, <1>2, <1>3 DEF ShowInv
<1>5. \A b \in Asks' : asks'[b].kind = "clear" => asks'[b].rating = None
  BY <1>2 DEF ShowInv
<1>6. ASSUME inStep', alive'
      PROVE  /\ rating' = row'.rating /\ cached' = row'.rating
             /\ \A b \in Asks' : ~ Open(b)'
  <2>1. ~ Broken(a) /\ alive /\ asks[a].at \in {"done", "failed"}
    BY <1>1, <1>6 DEF Broken
  <2>2. asks[a].lone
    BY <1>1, <1>6, <2>1 DEF Accepted, Refused, ShowInv
  <2>3. \A b \in Asks' : ~ Open(b)'
    BY <1>1, <1>2, <1>3, <2>1, <2>2 DEF ShowInv, Open
  <2>4. asks[a].mine /\ rating = asks[a].rating
    BY <1>1, <2>2 DEF ShowInv
  <2>5. CASE Accepted(a)
    <3>1. asks[a].at = "done" /\ rating' = rating /\ cached' = Remembers(a)
      BY <2>5 DEF Accepted
    <3>2. row.rating = asks[a].rating
      BY <1>1, <2>1, <2>2, <3>1 DEF ShowInv
    <3>3. CASE asks[a].kind # "note"
      BY <1>1, <2>3, <2>4, <3>1, <3>2, <3>3 DEF Remembers
    <3>4. CASE asks[a].kind = "note"
      <4>1. inStep
        BY <1>6, <2>5, <3>4 DEF Accepted
      <4>2. cached = asks[a].prev /\ asks[a].rating = asks[a].prev
        BY <1>1, <2>1, <3>4, <4>1 DEF ShowInv
      <4> QED
        BY <1>1, <2>3, <2>4, <3>1, <3>2, <3>4, <4>2 DEF Remembers
    <3> QED
      BY <3>3, <3>4
  <2>6. CASE Refused(a)
    <3>1. asks[a].at = "failed" /\ TakeBack(a) /\ cached' = cached /\ inStep
      BY <1>6, <2>6 DEF Refused
    <3>2. /\ cached = asks[a].prev /\ row.rating = asks[a].prev
          /\ asks[a].kind = "note" => asks[a].rating = asks[a].prev
      BY <1>1, <2>1, <3>1 DEF ShowInv
    <3>3. rating' = asks[a].prev
      BY <2>4, <3>1, <3>2 DEF TakeBack
    <3> QED
      BY <1>1, <2>3, <3>1, <3>2, <3>3
  <2> QED
    BY <2>1, <2>5, <2>6
<1> QED
  BY <1>4, <1>5, <1>6 DEF ShowInv

LEMMA PageShow ==
  ASSUME TypeInv, ShowInv, Remount \/ Reload
  PROVE  ShowInv'
<1>1. CASE Remount
  <2>1. /\ asks' = [a \in Asks |-> Detached(Crowded[a])]
        /\ rating' = cached /\ UNCHANGED <<cached, alive, row>>
        /\ inStep' = (inStep /\ ~ Busy)
    BY <1>1 DEF Remount, api
  <2>2. Kept /\ Asks' = Asks
    BY <2>1, RemountKeeps, SameAsks DEF TypeInv, Kept
  <2>3. \A ask \in Ask : Detached(ask).lone = ask.lone /\ Detached(ask).waiting = ask.waiting
    BY DEF Ask, Detached
  <2>4. \A a \in Asks : /\ asks'[a].lone = (asks[a].lone /\ ~ Open(a))
                        /\ asks'[a].waiting = asks[a].waiting
    BY <2>1, <2>3, CrowdedKeeps, CrowdedShow DEF TypeInv
  <2>5. \A a \in Asks : Open(a)' <=> Open(a)
    BY <2>2, <2>4 DEF Kept, Open
  <2>6. /\ \A a \in Asks' : ~ (asks'[a].lone /\ Open(a)')
        /\ \A a \in Asks' : asks'[a].kind = "clear" => asks'[a].rating = None
    <3>1. \A a \in Asks' : ~ (asks'[a].lone /\ Open(a)')
      BY <2>2, <2>4, <2>5
    <3> QED
      BY <2>2, <3>1 DEF Kept, ShowInv
  <2>7. inStep' /\ alive' => /\ rating' = row'.rating /\ cached' = row'.rating
                             /\ \A a \in Asks' : ~ Open(a)'
    BY <2>1, <2>2, <2>5 DEF ShowInv, Busy
  <2> QED
    BY <2>6, <2>7 DEF ShowInv
<1>2. CASE Reload
  <2>1. /\ asks' = [a \in Asks |-> Settled(asks[a])]
        /\ rating' = row.rating /\ cached' = row.rating /\ row' = row
        /\ inStep' => \A a \in Asks : asks[a].at \notin {"sent", "owned", "written"}
    BY <1>2 DEF Reload, LoadedRating, api
  <2>2. Kept /\ Asks' = Asks
    BY <2>1, ReloadKeeps, SameAsks DEF TypeInv, Kept
  <2>3. \A ask \in Ask : ~ Settled(ask).lone /\ ~ Settled(ask).waiting
    BY DEF Ask, Settled, Detached
  <2>4. \A a \in Asks : ~ asks'[a].lone /\ ~ asks'[a].waiting /\ asks'[a].at = asks[a].at
    BY <2>1, <2>2, <2>3, AsksFunction DEF TypeInv, Kept
  <2>5. \A a \in Asks' : asks'[a].kind = "clear" => asks'[a].rating = None
    BY <2>2 DEF Kept, ShowInv
  <2>6. inStep' => \A a \in Asks' : ~ Open(a)'
    BY <2>1, <2>2, <2>4 DEF Open
  <2> QED
    BY <2>1, <2>2, <2>4, <2>5, <2>6 DEF ShowInv
<1> QED
  BY <1>1, <1>2

LEMMA StayShow ==
  ASSUME ShowInv, UNCHANGED <<asks, rating, cached, inStep>>, alive' => alive /\ row' = row
  PROVE  ShowInv'
BY DEF ShowInv, Open, Busy, Asks

LEMMA ShowStep == TypeInv /\ ShowInv /\ [Next]_vars => ShowInv'
<1> SUFFICES ASSUME TypeInv, ShowInv, [Next]_vars
             PROVE  ShowInv'
  OBVIOUS
<1>1. ASSUME NEW next \in Votes, Vote(next)
      PROVE  ShowInv'
  <2>1. next \in Ratings /\ None \in Ratings /\ NoNote \in Texts
    BY DEF Ratings, Texts
  <2>2. CASE Request("clear", None, NoNote) /\ rating' = None
    BY <2>1, <2>2, RequestShow
  <2>3. CASE Request("vote", next, NoNote) /\ rating' = next
    BY <2>1, <2>3, RequestShow
  <2> QED
    BY <1>1, <2>2, <2>3 DEF Vote
<1>2. ASSUME NEW text \in Texts, SubmitNote(text)
      PROVE  ShowInv'
  <2>1. CASE Request("note", rating, text) /\ rating' = rating
    BY <2>1, RequestShow DEF TypeInv, TypeOK
  <2>2. CASE UNCHANGED <<cached, asks, api, inStep, rating>>
    BY <2>2, StayShow DEF api
  <2> QED
    BY <1>2, <2>1, <2>2 DEF SubmitNote
<1>3. CASE Away
  <2>1. UNCHANGED <<asks, rating, cached, inStep>> /\ (alive' => alive /\ row' = row)
    BY <1>3 DEF Away, Deliver, Drop, DeleteMessage, client, api
  <2> QED
    BY <2>1, StayShow
<1>4. CASE UNCHANGED vars
  BY <1>4, StayShow DEF vars
<1> QED
  BY <1>1, <1>2, <1>3, <1>4, StepKinds, AnsweredShow, PageShow, HandlerShow DEF Bubble

\* At rest and in step, the bubble, the cached vote and the row agree,
\* whatever failed, was refused or taken back (message-actions.tsx 105-133).
THEOREM BubbleShowsRow == Spec => []ShownIsStored
<1>1. Init => ShowInv
  BY DEF Init, ShowInv, Asks, Open, Busy, NoRow
<1>2. ShowInv => ShownIsStored
  BY DEF ShowInv, ShownIsStored
<1> QED
  BY <1>1, <1>2, InitTypes, TypeStep, ShowStep, PTL DEF Spec
=============================================================================
