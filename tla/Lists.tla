------------------------------- MODULE Lists -------------------------------
(***************************************************************************)
(* The lists a reader pages through while their rows come, move, are       *)
(* decided upon and go: the comments of an area by heat or by time, the    *)
(* replies below one, the queue of comments under review, who a user       *)
(* follows and is followed by, the conversations and the messages of one,  *)
(* and the latest comments of the home page.                               *)
(* app/services/comment/comment_read.py, comment_admin.py,                 *)
(* app/services/user/follow.py, app/services/message/dm/dm.py.             *)
(*                                                                         *)
(* Most are cut by page number out of an order that changes.  A page of    *)
(* comments takes two reads: the rows, then what is shown beside them.     *)
(***************************************************************************)
EXTENDS Integers, FiniteSets

CONSTANTS LastRow,       \* bound: the ids are 1 .. LastRow
          OwnRows,       \* those of the reader
          RowsPerPage,
          PageLimit,     \* pages of another user's list one may see
          ScanRows,      \* candidates for the latest comments
          ListPages,     \* bound: pages asked for
          ListTurns      \* bound: what happens while a reader is paging

ASSUME ListAssumption == /\ {LastRow, ListPages, ListTurns} \subseteq Nat
                         /\ OwnRows \subseteq 1 .. LastRow
                         /\ {RowsPerPage, PageLimit, ScanRows} \subseteq Nat \ {0}

VARIABLES
  list,        \* the list of the behaviour
  row,         \* none, held for review, open, or gone
  place,       \* of each row by heat, by the time of the follow or of the last
               \* message, the first place is 1; 0 before it comes
  top,         \* the pinned row, 0 if there is none
  orphaned,    \* comments whose target was deleted
  reader,      \* what the reader has seen and where it stands
  answer,      \* the last page
  met,         \* history: what happened while the reader was paging
  listTurns

listVars == <<list, row, place, top, orphaned, reader, answer, met, listTurns>>

RowId == 1 .. LastRow
Areas == {"hot", "time"}
Numbered == Areas \cup {"replies", "queue", "following", "fans", "sessions"}
List == Numbered \cup {"messages", "polling", "latest"}

\* came, left, moved: the list changed before the end of the paging.
\* late: an older message was released after a newer one was fetched.  focus:
\* the first page was asked for with a comment to begin with.  window: pages
\* were left out.
Met == {"came", "left", "moved", "late", "focus", "window"}

NoReader == [at |-> "idle", page |-> 0, cursor |-> 0, from |-> 0, focus |-> 0, top |-> 0,
             rows |-> {}, more |-> FALSE, got |-> {}, again |-> {}, missed |-> {},
             due |-> {}, ended |-> FALSE]
NoAnswer == [rows |-> {}, focus |-> {}, top |-> 0, own |-> {}, ahead |-> 0]

Present == {r \in RowId : row[r] # "none"}

ListsTypeOK ==
  /\ list \in List
  /\ row \in [RowId -> {"none", "held", "open", "gone"}]
  /\ place \in [RowId -> Nat]
  /\ \A r \in Present : place[r] \in 1 .. Cardinality(Present)
  /\ \A r, q \in Present : place[r] = place[q] => r = q
  /\ top \in {0} \cup RowId /\ orphaned \subseteq RowId
  /\ reader.at \in {"idle", "read"} /\ reader.got \subseteq RowId
  /\ reader.missed \subseteq reader.due /\ reader.again \subseteq reader.got
  /\ met \subseteq Met /\ listTurns \in 0 .. ListTurns

ListsInit ==
  /\ list \in List
  /\ row = [r \in RowId |-> "none"] /\ place = [r \in RowId |-> 0] /\ top = 0 /\ orphaned = {}
  /\ reader = NoReader /\ answer = NoAnswer
  /\ met = {} /\ listTurns = 0

-----------------------------------------------------------------------------
(* What happens to the rows                                                *)

Begun == reader.page > 0 \/ reader.at = "read"

\* Before the reader begins anything may happen; then each change is noted.
Meanwhile(what) ==
  IF ~Begun THEN UNCHANGED <<met, listTurns>>
  ELSE /\ listTurns < ListTurns /\ listTurns' = listTurns + 1
       /\ met' = met \cup what

Upcoming(r) == row[r] = "none" /\ \A q \in RowId : q < r => row[q] # "none"

\* Only what is reviewed is held; a heat may be any, a time is the latest.
RowCanBe(s) == s = "open" \/ list \notin {"following", "fans", "sessions"}
PlaceOf(n) == IF list = "hot" THEN 1 .. n + 1 ELSE {1}

Inserted(places, r, i) ==
  [q \in RowId |-> IF q = r THEN i ELSE IF places[q] >= i THEN places[q] + 1 ELSE places[q]]

Arrives(r, s, i) ==
  /\ Upcoming(r) /\ RowCanBe(s) /\ i \in PlaceOf(Cardinality(Present))
  /\ row' = [row EXCEPT ![r] = s]
  /\ place' = Inserted(place, r, i)
  /\ Meanwhile({"came"})
  /\ UNCHANGED <<list, top, orphaned, reader, answer>>

\* Approved, or rejected.
Decided(r, s) ==
  /\ row[r] = "held"
  /\ row' = [row EXCEPT ![r] = s]
  /\ Meanwhile((IF s = "open" THEN {"came", "left"} ELSE {"left"})
               \cup (IF r < reader.cursor \/ \E q \in reader.rows : r < q THEN {"late"} ELSE {}))
  /\ UNCHANGED <<list, place, top, orphaned, reader, answer>>

\* Deleted, taken down, unfollowed.
RowLeaves(r) ==
  /\ row[r] = "open"
  /\ row' = [row EXCEPT ![r] = "gone"]
  /\ Meanwhile({"left"})
  /\ UNCHANGED <<list, place, top, orphaned, reader, answer>>

\* Seeded bug: what moves leaves its place empty behind it.
PlaceLeftEmpty(r) == [place EXCEPT ![r] = 0]

OthersPlaces(r) ==
  [q \in RowId |-> IF q = r THEN 0
                   ELSE IF place[q] > place[r] THEN place[q] - 1 ELSE place[q]]

\* A like changes the heat of a comment, a message the time of a conversation.
Moves(r, i) ==
  /\ list \in {"hot", "sessions"} /\ row[r] = "open"
  /\ i \in PlaceOf(Cardinality(Present) - 1)
  /\ place' = Inserted(OthersPlaces(r), r, i) /\ place' # place
  /\ Meanwhile({"moved"})
  /\ UNCHANGED <<list, row, top, orphaned, reader, answer>>

\* One comment is pinned at a time; here one conversation too.
PinsRow(r) ==
  /\ list \in Areas \cup {"sessions"}
  /\ r = 0 \/ (r \in RowId /\ row[r] = "open")
  /\ top # r /\ top' = r
  /\ Meanwhile({"moved"})
  /\ UNCHANGED <<list, row, place, orphaned, reader, answer>>

TargetGoes(r) ==
  /\ list = "latest" /\ row[r] # "none" /\ r \notin orphaned
  /\ orphaned' = orphaned \cup {r}
  /\ Meanwhile({"left"})
  /\ UNCHANGED <<list, row, place, top, reader, answer>>

-----------------------------------------------------------------------------
(* What a page is cut from                                                 *)

Open == {r \in RowId : row[r] = "open"}
Held == {r \in RowId : row[r] = "held"}

\* The order of a list: what is pinned first; by place or by id, the latest
\* first but among the replies and the new messages.
PlaceInList(r) ==
  CASE list \in {"hot", "following", "fans"} -> place[r]
    [] list = "sessions" -> IF r = top THEN 0 ELSE place[r]
    [] list = "replies" \/ (list = "polling" /\ reader.cursor # 0) -> r
    [] OTHER -> LastRow - r
Prior(r, rows) == {q \in rows : PlaceInList(q) < PlaceInList(r)}

\* The pinned comment and the one to begin with are not in the list itself.
AreaRows(focus) == Open \ {top, focus}

\* What is held is shown to who sent it.
Messages == Open \cup (Held \cap OwnRows)
MessageRows(cursor) == {r \in Messages : cursor = 0 \/ r < cursor}
NewMessages(cursor) == {r \in Messages : r > cursor}

ListRows(focus, cursor) ==
  CASE list \in Areas -> AreaRows(focus)
    [] list = "queue" -> Held
    [] list = "messages" -> MessageRows(cursor)
    [] list = "polling" -> NewMessages(cursor)
    [] OTHER -> Open

Cut(rows, from, n) ==
  {r \in rows : /\ Cardinality(Prior(r, rows)) >= from
                /\ Cardinality(Prior(r, rows)) < from + n}

\* The candidates for the latest comments are not cut before their targets
\* have been looked at.
PageRows(rows, n) ==
  CASE list \in Numbered -> Cut(rows, n * RowsPerPage, RowsPerPage)
    [] list = "latest" -> Cut(rows, 0, ScanRows)
    [] OTHER -> Cut(rows, 0, RowsPerPage)

\* Pages of another user's list beyond the limit are empty.
BeyondWindow(n) == list = "fans" /\ n >= PageLimit

\* What the reader was to see when it began, and what a list that is left
\* alone would show.
Listed == IF list \in Areas THEN Open
          ELSE IF list = "latest" THEN Open \ orphaned
          ELSE ListRows(0, 0)

-----------------------------------------------------------------------------
(* The reader                                                              *)

\* The first read.  The comment to begin with, or its root, is looked for on
\* the first page only.
ReadsRows(focus) ==
  /\ reader.at = "idle" /\ ~reader.ended /\ reader.page < ListPages
  /\ focus = 0 \/ (list \in Areas /\ reader.page = 0 /\ focus \in Open \ {top})
  /\ LET rows == ListRows(focus, reader.cursor)
         page == IF BeyondWindow(reader.page) THEN {} ELSE PageRows(rows, reader.page)
     IN reader' = [reader EXCEPT
          !.at = "read", !.focus = focus, !.top = IF list \in Areas THEN top ELSE 0,
          !.rows = page,
          !.more = IF list \in Numbered THEN Cardinality(page) = RowsPerPage
                   ELSE list = "messages" /\ Cardinality(rows) > RowsPerPage,
          !.due = IF reader.page = 0 THEN Listed ELSE @]
  /\ met' = met \cup (IF focus # 0 THEN {"focus"} ELSE {})
                \cup (IF BeyondWindow(reader.page) THEN {"window"} ELSE {})
  /\ UNCHANGED <<list, row, place, top, orphaned, answer, listTurns>>

\* The pinned comment and the one to begin with, as they are at the second read.
ShownTop == IF reader.page = 0 /\ reader.top \in Open THEN reader.top ELSE 0
ShownFocus == IF reader.focus \in Open THEN {reader.focus} ELSE {}

\* The reader's comments under review, on every page.
OwnHeld == IF list \in Areas \cup {"replies"} THEN Held \cap OwnRows ELSE {}

\* The latest comments whose target is there, as many as asked for.
Alive(rows) == Cut(rows \ orphaned, 0, RowsPerPage)
ShownRows == IF list = "latest" THEN Alive(reader.rows) ELSE reader.rows

\* How many come before the reader's own: one more if a comment is pinned,
\* though that is not among the items; replies come last.
OwnPlace(items) ==
  LET n == (IF ShownTop # 0 THEN 1 ELSE 0) + Cardinality(ShownFocus)
  IN IF list = "replies" \/ n > Cardinality(items) THEN Cardinality(items) ELSE n

Smallest(S) == CHOOSE r \in S : \A q \in S : q >= r
Largest(S) == CHOOSE r \in S : \A q \in S : q <= r

\* The second read, and the answer.
Answers ==
  /\ reader.at = "read"
  /\ answer' = [rows |-> ShownRows, focus |-> ShownFocus, top |-> ShownTop,
                own |-> OwnHeld, ahead |-> OwnPlace(ShownFocus \cup ShownRows)]
  /\ LET items == ShownFocus \cup ShownRows
         new == items \cup ({ShownTop} \ {0})
         got == reader.got \cup new
         due == reader.due \cap Listed
         last == IF items = {} \/ list \notin {"messages", "polling"} THEN reader.cursor
                 ELSE IF list = "messages" THEN Smallest(items) ELSE Largest(items)
         from == IF list = "polling" /\ reader.from = 0 THEN last ELSE reader.from
         polled == {r \in Messages : from < r /\ r <= last}
     IN reader' = [reader EXCEPT
          !.at = "idle", !.rows = {}, !.focus = 0, !.top = 0, !.page = @ + 1,
          !.cursor = last,
          !.from = from,
          !.got = got, !.again = @ \cup (reader.got \cap new),
          !.due = IF list = "polling" THEN polled ELSE due,
          !.missed = IF list = "polling" THEN polled \ got
                     ELSE IF reader.more THEN {} ELSE due \ got,
          !.ended = ~reader.more /\ list # "polling"]
  /\ UNCHANGED <<list, row, place, top, orphaned, met, listTurns>>

ListsNext ==
  \/ \E r \in RowId :
       \/ \E s \in {"held", "open"}, i \in RowId : Arrives(r, s, i)
       \/ Decided(r, "open") \/ Decided(r, "gone")
       \/ RowLeaves(r)
       \/ \E i \in RowId : Moves(r, i)
       \/ TargetGoes(r)
  \/ \E r \in {0} \cup RowId : PinsRow(r) \/ ReadsRows(r)
  \/ Answers

ListsSpec == ListsInit /\ [][ListsNext]_listVars

-----------------------------------------------------------------------------
(* Properties                                                              *)

\* A page of comments holds a comment once, the pinned one and the one to
\* begin with included, and of what is held for review only the reader's own.
PageIsSound ==
  /\ answer.rows \cap answer.focus = {}
  /\ answer.own \cap (answer.rows \cup answer.focus) = {}
  /\ answer.top \notin answer.rows \cup answer.focus \cup answer.own
  /\ list # "queue" => answer.own \subseteq OwnRows

\* The reader's comments under review come before the ordinary ones, as
\* list_main says, unless a comment is pinned: they are one place too far then.
OwnComeFirst ==
  list \in Areas /\ answer.top = 0 /\ answer.own # {} =>
    answer.ahead <= Cardinality(answer.focus)

\* A row is shown once, unless rows came or moved while the reader was paging,
\* or the first page began with a comment, which the second counts again.
RowShownOnce ==
  reader.again # {} =>
    \/ list \in Numbered /\ met \cap {"came", "moved"} # {}
    \/ list \in Areas /\ "focus" \in met

\* A list that has been paged to its end has shown all that was and still is in
\* it, unless rows left or moved, or the list is that of another user, or more
\* of the latest comments are there than are shown.  Polling for messages misses
\* those that are released late, and nothing else.
RowsAllShown ==
  reader.missed # {} =>
    \/ list \in Numbered /\ met \cap {"left", "moved"} # {}
    \/ list = "fans" /\ "window" \in met
    \/ list = "polling" /\ met \cap {"late"} # {}
    \/ list = "latest"

\* Fewer of the latest comments are shown than asked for only if the scan did
\* not reach them.
LatestFills ==
  list = "latest" /\ reader.ended /\ met = {} /\ Cardinality(Open) <= ScanRows =>
    Cardinality(answer.rows) = IF Cardinality(Open \ orphaned) < RowsPerPage
                        THEN Cardinality(Open \ orphaned) ELSE RowsPerPage

ListsHold == PageIsSound /\ OwnComeFirst /\ RowShownOnce /\ RowsAllShown /\ LatestFills

=============================================================================
