---------------------------- MODULE CommentArea ----------------------------
(***************************************************************************)
(* One comment area of a moment: the comment rows, the counters stored in  *)
(* the area row (msg_comment_subject) and in the statistics row of the     *)
(* moment, the floor numbers and the pinned comment.                       *)
(*                                                                         *)
(* A request reads rows in one step and commits what it computed from them *)
(* in a later one, as the services do under READ COMMITTED; `UPDATE ...    *)
(* SET c = c + 1' is applied to the row as it is at the commit.            *)
(***************************************************************************)
EXTENDS Integers, FiniteSets

CONSTANTS Comment,      \* the rpids there can be
          NoComment,    \* no root, no pinned comment
          AreaWorker,   \* requests served at the same time
          AreaRequests  \* bound: requests of a behaviour

ASSUME AreaAssumption == /\ NoComment \notin Comment
                         /\ AreaRequests \in Nat

VARIABLES
  status,        \* auditStatus of each comment
  rootOf,        \* the comment it replies to, or NoComment
  topBit,        \* the TOP bit of attr
  floor, rcount, \* floor number; stored number of replies
  subject,       \* the area row
  commentCount,  \* commentCount of the moment
  request,       \* what each worker has read and is to commit
  cause,         \* history: the known ways to go wrong that were met
  asked          \* requests so far

areaVars == <<status, rootOf, topBit, floor, rcount, subject, commentCount,
              request, cause, asked>>

Status == {"absent", "normal", "auditing", "rejected", "hidden", "deleted"}

\* takedown: a report hid a counted comment.  lost: set_state failed between
\* its two transactions.  revived: a deleted row got another status.  row,
\* tree, top, counter, floor: a commit used a value of that kind that had
\* changed; row and tree are the same event, of which recount repairs row.
\* floored: a counter that was too low already was kept from going below zero.
Cause == {"takedown", "lost", "revived", "row", "tree", "top", "counter",
          "floored", "floor"}
Repaired == {"takedown", "lost", "row", "counter", "floored"}

Subject == [all : Int, root : Int,            \* visible comments, first level
            seq : Nat,                        \* last floor number given
            top : Comment \cup {NoComment}]

Idle == [op |-> "idle"]

AreaTypeOK ==
  /\ status \in [Comment -> Status]
  /\ rootOf \in [Comment -> Comment \cup {NoComment}]
  /\ topBit \in [Comment -> BOOLEAN]
  /\ floor \in [Comment -> Nat]
  /\ rcount \in [Comment -> Int]
  /\ subject \in Subject
  /\ commentCount \in Nat
  /\ DOMAIN request = AreaWorker
  /\ cause \subseteq Cause
  /\ asked \in 0 .. AreaRequests

AreaInit ==
  /\ status = [c \in Comment |-> "absent"]
  /\ rootOf = [c \in Comment |-> NoComment]
  /\ topBit = [c \in Comment |-> FALSE]
  /\ floor = [c \in Comment |-> 0]
  /\ rcount = [c \in Comment |-> 0]
  /\ subject = [all |-> 0, root |-> 0, seq |-> 0, top |-> NoComment]
  /\ commentCount = 0
  /\ request = [w \in AreaWorker |-> Idle]
  /\ cause = {}
  /\ asked = 0

-----------------------------------------------------------------------------
(* What is read and written. *)

Visible == {c \in Comment : status[c] = "normal"}
VisibleRoots == {c \in Visible : rootOf[c] = NoComment}
Stored == {c \in Comment : status[c] # "absent"}

One(b) == IF b THEN 1 ELSE 0
AtLeastZero(n) == IF n < 0 THEN 0 ELSE n
IsRoot(c) == rootOf[c] = NoComment

Submit(w, r) ==
  /\ request[w] = Idle
  /\ asked < AreaRequests
  /\ asked' = asked + 1
  /\ request' = [request EXCEPT ![w] = r]
  /\ UNCHANGED <<status, rootOf, topBit, floor, rcount, subject, commentCount,
                 cause>>

Finish(w) == request' = [request EXCEPT ![w] = Idle] /\ UNCHANGED asked

Meets(kinds) == cause' = cause \cup kinds
If(b, kind) == IF b THEN {kind} ELSE {}
StatusChanged(r) ==
  IF status[r.c] # r.seen.status THEN {"row", "tree"} ELSE {}

Row(c) == [status |-> status[c], top |-> topBit[c], pinned |-> subject.top]

\* The row or the pin a request works with is no longer what it read.
Changed(r) ==
  StatusChanged(r)
    \cup If(topBit[r.c] # r.seen.top \/ subject.top # r.seen.pinned, "top")

-----------------------------------------------------------------------------
(* CommentService.add *)

\* _resolve_tree: a reply hangs below a visible comment of the first level,
\* also the reply to a reply.
ReplyTarget(r) == r \in VisibleRoots \cup {NoComment}

\* The area row is loaded; the later select returns the loaded object, whose
\* floor_seq is the loaded one plus the increment of this request.
AddReads(w, c, r) ==
  /\ status[c] = "absent"
  /\ \A v \in AreaWorker : request[v].op = "add" => request[v].c # c
  /\ ReplyTarget(r)
  /\ Submit(w, [op |-> "add", c |-> c, root |-> r, seq |-> subject.seq])

FloorStep(r) == 1

\* s: the verdict of the audit engine and of comment_pre_audit.
AddCommits(w, s) ==
  LET r == request[w]
      counted == One(s = "normal")
  IN /\ r.op = "add"
     /\ s \in {"normal", "auditing", "rejected"}
     /\ status' = [status EXCEPT ![r.c] = s]
     /\ rootOf' = [rootOf EXCEPT ![r.c] = r.root]
     /\ floor' = [floor EXCEPT ![r.c] = r.seq + FloorStep(r)]
     /\ subject' = [subject EXCEPT
                      !.seq = @ + FloorStep(r),
                      !.all = @ + counted,
                      !.root = @ + IF r.root = NoComment THEN counted ELSE 0]
     /\ commentCount' = commentCount + counted
     /\ rcount' = [c \in Comment |->
                     rcount[c] + One(r.root = c)]
     /\ Meets(If(subject.seq # r.seq, "floor"))
     /\ Finish(w)
     /\ UNCHANGED topBit

-----------------------------------------------------------------------------
(* CommentService.delete *)

DeleteReads(w, c) ==
  /\ status[c] \notin {"absent", "deleted"}
  /\ Submit(w, [op |-> "delete", c |-> c, seen |-> Row(c)])

\* Only a comment that was visible had been counted.
\* Seeded bug: every deletion is counted.
CountedAlways(r) == 1

Counted(r) == One(r.seen.status = "normal")

PinAfterDelete(r) == IF r.seen.pinned = r.c THEN NoComment ELSE subject.top

RepliesAfterDelete(r) == [c \in Comment |-> rcount[c] - One(rootOf[r.c] = c)]

DeleteCommits(w) ==
  LET r == request[w]
      counted == Counted(r)
  IN /\ r.op = "delete"
     /\ status' = [status EXCEPT ![r.c] = "deleted"]
     /\ topBit' = [topBit EXCEPT ![r.c] = @ /\ ~r.seen.top]
     /\ subject' = [subject EXCEPT
                      !.all = @ - counted,
                      !.root = @ - IF IsRoot(r.c) THEN counted ELSE 0,
                      !.top = PinAfterDelete(r)]
     /\ commentCount' = AtLeastZero(commentCount - counted)
     /\ rcount' = RepliesAfterDelete(r)
     /\ Meets(Changed(r) \cup If(commentCount < counted, "floored"))
     /\ Finish(w)
     /\ UNCHANGED <<rootOf, floor>>

-----------------------------------------------------------------------------
(* CommentService.set_top *)

TopReads(w, c, on) ==
  /\ c \in VisibleRoots
  /\ Submit(w, [op |-> "top", c |-> c, on |-> on, seen |-> Row(c),
                old |-> subject.top # NoComment /\ topBit[subject.top]])

\* The session writes the columns whose value differs from the loaded one.
TopCommits(w) ==
  LET r == request[w]
      old == r.seen.pinned
  IN /\ r.op = "top"
     /\ IF r.on
        THEN /\ topBit' = [c \in Comment |->
                             \/ c = r.c /\ (topBit[c] \/ ~r.seen.top)
                             \/ /\ c # r.c
                                /\ topBit[c]
                                /\ ~(c = old /\ r.old)]
             /\ subject' = [subject EXCEPT
                              !.top = IF old # r.c THEN r.c ELSE @]
        ELSE /\ topBit' = [topBit EXCEPT ![r.c] =
                             @ /\ ~(old = r.c /\ r.seen.top)]
             /\ subject' = [subject EXCEPT
                              !.top = IF old = r.c THEN NoComment ELSE @]
     /\ Meets(Changed(r)
                \cup If(old # NoComment /\ topBit[old] # r.old, "top"))
     /\ Finish(w)
     /\ UNCHANGED <<status, rootOf, floor, rcount, commentCount>>

-----------------------------------------------------------------------------
(* CommentAdminService.set_state: the status in one transaction, the       *)
(* counters, read and written back, in a second one.                       *)

SetReads(w, c, to) ==
  /\ c \in Stored
  /\ to \in {"normal", "rejected", "hidden"}
  /\ Submit(w, [op |-> "set", c |-> c, to |-> to, seen |-> Row(c)])

Delta(r) == One(r.to = "normal") - One(r.seen.status = "normal")

SetCommits(w) ==
  LET r == request[w]
      differs == r.to # r.seen.status
  IN /\ r.op = "set"
     /\ status' = IF differs THEN [status EXCEPT ![r.c] = r.to] ELSE status
     /\ Meets(StatusChanged(r)
                \cup If(differs /\ status[r.c] = "deleted", "revived"))
     /\ IF Delta(r) # 0
        THEN request' = [request EXCEPT ![w] =
               [op |-> "sync", c |-> r.c, delta |-> Delta(r)]]
        ELSE request' = [request EXCEPT ![w] = Idle]
     /\ UNCHANGED <<rootOf, topBit, floor, rcount, subject, commentCount,
                    asked>>

\* _sync_subject_count loads the area row ...
SyncReads(w) ==
  /\ request[w].op = "sync"
  /\ request' = [request EXCEPT ![w] =
       [op |-> "write", c |-> @.c, delta |-> @.delta,
        all |-> subject.all, root |-> subject.root]]
  /\ UNCHANGED <<status, rootOf, topBit, floor, rcount, subject, commentCount,
                 cause, asked>>

\* ... and writes absolute values; the moment is counted in place.
SyncWrites(w) ==
  LET r == request[w]
      all == AtLeastZero(r.all + r.delta)
      root == AtLeastZero(r.root + r.delta)
      counters == {r.all, commentCount} \cup IF IsRoot(r.c) THEN {r.root} ELSE {}
  IN /\ r.op = "write"
     /\ subject' = [subject EXCEPT
                      !.all = IF all # r.all THEN all ELSE @,
                      !.root = IF IsRoot(r.c) /\ root # r.root
                               THEN root ELSE @]
     /\ commentCount' = AtLeastZero(commentCount + r.delta)
     /\ Meets(If(subject.all # r.all \/ subject.root # r.root, "counter")
                \cup If(\E n \in counters : n + r.delta < 0, "floored"))
     /\ Finish(w)
     /\ UNCHANGED <<status, rootOf, topBit, floor, rcount>>

\* The second transaction fails, or the process stops before it commits.
SyncLost(w) ==
  /\ request[w].op \in {"sync", "write"}
  /\ Meets({"lost"})
  /\ Finish(w)
  /\ UNCHANGED <<status, rootOf, topBit, floor, rcount, subject, commentCount>>

-----------------------------------------------------------------------------
(* CommentBiz.hide, called when a report is upheld: nothing is counted. *)

HideReads(w, c) ==
  /\ c \in Stored
  /\ Submit(w, [op |-> "hide", c |-> c, seen |-> Row(c)])

HideCommits(w) ==
  LET r == request[w]
      differs == r.seen.status # "hidden"
  IN /\ r.op = "hide"
     /\ status' = IF differs THEN [status EXCEPT ![r.c] = "hidden"] ELSE status
     /\ Meets(If(status[r.c] = "normal" /\ differs, "takedown")
                \cup If(status[r.c] = "deleted" /\ differs, "revived")
                \cup StatusChanged(r))
     /\ Finish(w)
     /\ UNCHANGED <<rootOf, topBit, floor, rcount, subject, commentCount>>

-----------------------------------------------------------------------------
(* scripts/recount_comment_subject.py --apply *)

RecountReads(w) ==
  Submit(w, [op |-> "recount",
             all |-> Cardinality(Visible), root |-> Cardinality(VisibleRoots),
             row |-> <<subject.all, subject.root>>, stat |-> commentCount])

Syncing == {w \in AreaWorker : request[w].op \in {"sync", "write"}}

RecountCommits(w) ==
  LET r == request[w]
      clean == /\ <<subject.all, subject.root>> = r.row
               /\ commentCount = r.stat
               /\ Cardinality(Visible) = r.all
               /\ Cardinality(VisibleRoots) = r.root
               /\ Syncing = {}
  IN /\ r.op = "recount"
     /\ subject' = [subject EXCEPT
                      !.all = IF r.row[1] # r.all THEN r.all ELSE @,
                      !.root = IF r.row[2] # r.root THEN r.root ELSE @]
     /\ commentCount' = IF r.stat # r.all THEN r.all ELSE commentCount
     /\ cause' = IF clean
                 THEN cause \ Repaired
                 ELSE cause \cup {"counter"}
     /\ Finish(w)
     /\ UNCHANGED <<status, rootOf, topBit, floor, rcount>>

-----------------------------------------------------------------------------

AreaNext ==
  \E w \in AreaWorker :
    \/ \E c \in Comment :
         \/ \E r \in Comment \cup {NoComment} : AddReads(w, c, r)
         \/ DeleteReads(w, c)
         \/ \E on \in BOOLEAN : TopReads(w, c, on)
         \/ \E to \in Status : SetReads(w, c, to)
         \/ HideReads(w, c)
    \/ \E s \in Status : AddCommits(w, s)
    \/ DeleteCommits(w)
    \/ TopCommits(w)
    \/ SetCommits(w)
    \/ SyncReads(w)
    \/ SyncWrites(w)
    \/ SyncLost(w)
    \/ HideCommits(w)
    \/ RecountReads(w)
    \/ RecountCommits(w)

AreaSpec == AreaInit /\ [][AreaNext]_areaVars

-----------------------------------------------------------------------------
(* Properties.  Each says that nothing but the named causes breaks it. *)

\* Between requests of administrators the counters of the area and of the
\* moment are the numbers of visible comments, whatever else runs at the same
\* time (add, delete, set_state, the recount script).
CountersAreVisible ==
  (Syncing = {} /\ cause \cap Repaired = {})
    => /\ subject.all = Cardinality(Visible)
       /\ subject.root = Cardinality(VisibleRoots)
       /\ commentCount = subject.all

\* Taking down a reported comment without counting it makes the area show too
\* many comments, never too few.
TakedownOnlyOvercounts ==
  (Syncing = {} /\ cause \cap Repaired \subseteq {"takedown"})
    => subject.all >= Cardinality(Visible)

\* The stored number of replies is the number of replies that are not
\* deleted, whatever their audit status, unless an administrator brought a
\* deleted reply back or two requests worked on one row.
RepliesCounted ==
  cause \cap {"tree", "revived"} = {}
    => \A c \in Comment :
         rcount[c] = Cardinality({d \in Stored : rootOf[d] = c
                                                 /\ status[d] # "deleted"})

\* No two comments of an area have the same floor, unless two were added at
\* the same time.
FloorsDistinct ==
  "floor" \notin cause
    => \A c, d \in Stored : c # d => floor[c] # floor[d]

\* The TOP bit marks the pinned comment and no other, and the pinned comment
\* is not a deleted one.
TopIsMarked ==
  cause \cap {"top", "tree", "revived"} = {}
    => /\ {c \in Comment : topBit[c]} = {subject.top} \ {NoComment}
       /\ subject.top # NoComment => status[subject.top] # "deleted"

\* What an area shows, its counters and what is beside them (add, delete,
\* set_top, set_state, hide and the recount script, two of them at a time).
CommentsHold ==
  /\ CountersAreVisible /\ TakedownOnlyOvercounts
  /\ RepliesCounted /\ FloorsDistinct /\ TopIsMarked

=============================================================================
