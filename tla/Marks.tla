------------------------------- MODULE Marks -------------------------------
(***************************************************************************)
(* Likes and dislikes of one user: the row per resource and the counter of *)
(* the resource, to which other users have contributed.                    *)
(*                                                                         *)
(* A request reads the row in one step; in a later one it inserts, changes *)
(* or deletes the row and counts in place, in one transaction.             *)
(***************************************************************************)
EXTENDS Integers, FiniteSets

CONSTANTS LikedMoment,    \* counted with a floor of zero
          LikedResource,  \* other resources: no floor
          Disliked,       \* dislikes: deleted by key, not by primary key
          LikedComment,   \* one row that is a like or a dislike
          OthersMarks,    \* what other users contributed to each counter
          MarkWorker, MarkRequests

Mark == LikedMoment \cup LikedResource \cup Disliked \cup LikedComment

ASSUME MarkAssumption == /\ OthersMarks \in Nat /\ MarkRequests \in Nat
                         /\ LikedMoment \cap LikedComment = {}

VARIABLES
  mark,       \* the user's row: its value and its primary key
  likes, hates, \* the counters
  markJob,    \* what each worker has read and is to write
  overlapped, \* history: the marks whose row changed under a request
  marksAsked  \* requests so far, the source of primary keys

markVars == <<mark, likes, hates, markJob, overlapped, marksAsked>>

Value == {"none", "like", "hate"}
NoMark == [value |-> "none", pk |-> 0]
NoMarkJob == [op |-> "idle"]

MarksTypeOK ==
  /\ mark \in [Mark -> [value : Value, pk : Nat]]
  /\ likes \in [Mark -> Int] /\ hates \in [LikedComment -> Int]
  /\ \A m \in LikedMoment : likes[m] \in Nat
  /\ DOMAIN markJob = MarkWorker
  /\ overlapped \subseteq Mark
  /\ marksAsked \in 0 .. MarkRequests

MarksInit ==
  /\ mark = [m \in Mark |-> NoMark]
  /\ likes = [m \in Mark |-> OthersMarks]
  /\ hates = [m \in LikedComment |-> OthersMarks]
  /\ markJob = [w \in MarkWorker |-> NoMarkJob]
  /\ overlapped = {}
  /\ marksAsked = 0

-----------------------------------------------------------------------------

IsLiked(m) == IF mark[m].value = "like" THEN 1 ELSE 0
IsHated(m) == IF mark[m].value = "hate" THEN 1 ELSE 0

MarkReads(w, op, m, v) ==
  /\ markJob[w] = NoMarkJob
  /\ marksAsked < MarkRequests
  /\ marksAsked' = marksAsked + 1
  /\ markJob' = [markJob EXCEPT ![w] =
       [op |-> op, m |-> m, to |-> v, seen |-> mark[m], pk |-> marksAsked + 1]]
  /\ UNCHANGED <<mark, likes, hates, overlapped>>

MarkDone(w) == markJob' = [markJob EXCEPT ![w] = NoMarkJob]
               /\ UNCHANGED marksAsked

Overlaps(j) ==
  overlapped' = overlapped \cup IF mark[j.m] = j.seen THEN {} ELSE {j.m}

FloorOfLikes(n) == IF n < 0 THEN 0 ELSE n
FloorFor(m, n) == IF m \in LikedMoment THEN FloorOfLikes(n) ELSE n

-----------------------------------------------------------------------------
(* do_like_generic, do_like_dynamic, do_dislike *)

\* A row that is there already violates the unique constraint: the request
\* rolls back and reports success.
InsertSucceeds(m) == mark[m].value = "none"

CancelIfSeen(j) == j.seen.value # "none"

Toggles(w, deleted) ==
  LET j == markJob[w]
      adds == j.to = "like" /\ j.seen.value = "none" /\ InsertSucceeds(j.m)
      cancels == j.to = "none" /\ CancelIfSeen(j)
  IN /\ mark' = CASE adds -> [mark EXCEPT ![j.m] = [value |-> "like", pk |-> j.pk]]
                  [] cancels /\ deleted -> [mark EXCEPT ![j.m] = NoMark]
                  [] OTHER -> mark
     /\ likes' = [likes EXCEPT
                    ![j.m] = CASE adds -> @ + 1
                               [] cancels -> FloorFor(j.m, @ - 1)
                               [] OTHER -> @]
     /\ Overlaps(j)
     /\ MarkDone(w)
     /\ UNCHANGED hates

ToggleReads(w, m, v) ==
  /\ m \notin LikedComment
  /\ v \in {"like", "none"}
  /\ MarkReads(w, "toggle", m, v)

SamePk(j) == mark[j.m].pk = j.seen.pk

LikeMoment(w) == /\ markJob[w].op = "toggle" /\ markJob[w].m \in LikedMoment
                 /\ Toggles(w, SamePk(markJob[w]))
LikeResource(w) == /\ markJob[w].op = "toggle" /\ markJob[w].m \in LikedResource
                   /\ Toggles(w, SamePk(markJob[w]))
Dislike(w) == /\ markJob[w].op = "toggle" /\ markJob[w].m \in Disliked
              /\ Toggles(w, TRUE)

-----------------------------------------------------------------------------
(* CommentActionService.action *)

ReactReads(w, c, v) == c \in LikedComment /\ MarkReads(w, "react", c, v)

Weight(v, of) == IF v = of THEN 1 ELSE 0
\* Seeded bug: the previous reaction is not taken back.
DeltaOfNew(j, of) == Weight(j.to, of)
DeltaOf(j, of) == Weight(j.to, of) - Weight(j.seen.value, of)

\* An insert meets the unique constraint, an update of a row that is gone
\* matches nothing: both raise and roll back.  The deletion of a row that is
\* gone only warns.
ReactFails(j) ==
  \/ j.to # "none" /\ j.seen.value = "none" /\ mark[j.m].value # "none"
  \/ j.to # "none" /\ j.seen.value # "none" /\ j.to # j.seen.value /\ ~SamePk(j)

React(w) ==
  LET j == markJob[w]
      now == mark[j.m]
  IN /\ j.op = "react"
     /\ IF ReactFails(j)
        THEN UNCHANGED <<mark, likes, hates>>
        ELSE /\ mark' = [mark EXCEPT ![j.m] =
                  CASE j.to = "none" -> IF SamePk(j) THEN NoMark ELSE now
                    [] j.to = j.seen.value -> now
                    [] j.seen.value = "none" -> [value |-> j.to, pk |-> j.pk]
                    [] OTHER -> [now EXCEPT !.value = j.to]]
             /\ likes' = [likes EXCEPT ![j.m] = @ + DeltaOf(j, "like")]
             /\ hates' = [hates EXCEPT ![j.m] = @ + DeltaOf(j, "hate")]
     /\ Overlaps(j)
     /\ MarkDone(w)

-----------------------------------------------------------------------------

MarksNext ==
  \E w \in MarkWorker :
    \/ \E m \in Mark, v \in Value : ToggleReads(w, m, v) \/ ReactReads(w, m, v)
    \/ LikeMoment(w)
    \/ LikeResource(w)
    \/ Dislike(w)
    \/ React(w)

MarksSpec == MarksInit /\ [][MarksNext]_markVars

-----------------------------------------------------------------------------
(* Properties. *)

\* Every counter is what the others contributed plus the user's own row,
\* unless two requests of the user worked on that row at the same time.
MarksCounted ==
  \A m \in Mark \ overlapped :
    /\ likes[m] = OthersMarks + IsLiked(m)
    /\ m \in LikedComment => hates[m] = OthersMarks + IsHated(m)

\* However its requests overlap, a double click never counts a like twice:
\* the unique row decides, and only cancellations are counted more than once.
NeverLikedTwice ==
  \A m \in Mark \ LikedComment : likes[m] <= OthersMarks + IsLiked(m)

\* Both, for likes, dislikes and reactions to a comment.
MarksHold == MarksCounted /\ NeverLikedTwice

=============================================================================
