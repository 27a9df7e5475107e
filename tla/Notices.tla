------------------------------ MODULE Notices ------------------------------
(***************************************************************************)
(* System notices, stored once for everybody, and one user who pulls them: *)
(* a server-side cursor, a row per notice that was read or deleted, and    *)
(* the notices themselves, whose ids are drawn when the row is inserted    *)
(* and which become visible later: at the commit, at publish_at, when a    *)
(* draft is published, or when the user reaches the level they are for.    *)
(*                                                                         *)
(* A pull reads, marks what it read in one transaction and moves the       *)
(* cursor in another.                                                      *)
(***************************************************************************)
EXTENDS Integers, FiniteSets

CONSTANTS LastNotice,     \* bound: the ids are 1 .. LastNotice
          NoticeLimit,    \* the page size
          NoticeKey,      \* (target_value, title) of notices for the user alone
          NoKey,          \* of the other notices
          NoticeWorker,   \* requests served at the same time
          NoticeRequests  \* bound: requests of a behaviour but publishing

ASSUME NoticeAssumption == /\ LastNotice \in Nat /\ NoticeRequests \in Nat
                           /\ NoticeLimit \in Nat \ {0}
                           /\ NoKey \notin NoticeKey

VARIABLES
  notice,        \* msg_notify
  levelled,      \* the user has the level that notices may ask for
  readRow,       \* msg_notify_state of the user
  cursor,        \* last_notify_id of the user
  given,         \* cursors that responses have given to the user's clients
  pulled,        \* history: notices returned by pull
  slips,         \* history: the known ways to go wrong that were met
  noticeJob,     \* what each worker has read and is to write
  noticesAsked   \* requests so far

noticeVars == <<notice, levelled, readRow, cursor, given, pulled,
                slips, noticeJob, noticesAsked>>

Id == 1 .. LastNotice

\* For everybody or the user, for a level, or not for the user.
Target == {"mine", "level", "others"}
NoticeRow == [status : {"none", "inserted", "draft", "published", "revoked"},
              publish : {"draft", "published"},  \* the status it is inserted with
              target : Target, key : NoticeKey \cup {NoKey},
              made : NoticeKey \cup {NoKey},   \* history: the idempotent request
              at : {"early", "due", "over"}]     \* before publish_at, after expire_at
NoNotice == [status |-> "none", publish |-> "draft", target |-> "others",
             key |-> NoKey, made |-> NoKey, at |-> "early"]
NoNoticeJob == [op |-> "idle"]

\* late: a notice became visible that is not above the cursor.  doubled: two
\* deliveries of one publish request overlapped.  edited: an update took its
\* key off the notice that a publish request had made.
NoticesTypeOK ==
  /\ notice \in [Id -> NoticeRow]
  /\ levelled \in BOOLEAN
  /\ readRow \in [Id -> {"none", "read", "deleted"}]
  /\ cursor \in 0 .. LastNotice
  /\ given \subseteq 0 .. LastNotice
  /\ pulled \subseteq Id
  /\ slips \subseteq [kind : {"late", "doubled", "edited"}, of : Id \cup NoticeKey]
  /\ DOMAIN noticeJob = NoticeWorker
  /\ noticesAsked \in 0 .. NoticeRequests

NoticesInit ==
  /\ notice = [n \in Id |-> NoNotice]
  /\ levelled = FALSE
  /\ readRow = [n \in Id |-> "none"]
  /\ cursor = 0
  /\ given = {}
  /\ pulled = {}
  /\ slips = {}
  /\ noticeJob = [w \in NoticeWorker |-> NoNoticeJob]
  /\ noticesAsked = 0

-----------------------------------------------------------------------------

\* _visible_condition and _target_condition
InEffect(row) == row.status = "published" /\ row.at = "due"
TargetsOf(level) == {"mine"} \cup IF level THEN {"level"} ELSE {}
ShownIn(rows, level) ==
  {n \in Id : InEffect(rows[n]) /\ rows[n].target \in TargetsOf(level)}
Shown == ShownIn(notice, levelled)
Committed(n) == notice[n].status \notin {"none", "inserted"}

LargestOf(S) == IF S = {} THEN 0 ELSE CHOOSE n \in S : \A x \in S : x <= n

\* The ids that a finished or a running pull has gone past.
Passed == LargestOf({cursor} \cup given
                    \cup UNION {noticeJob[w].items :
                                  w \in {v \in NoticeWorker :
                                           noticeJob[v].op \in {"pull", "move"}}})

Takes(w, job) ==
  /\ noticeJob[w] = NoNoticeJob
  /\ noticeJob' = [noticeJob EXCEPT ![w] = job]

Asks(w, job) ==
  /\ Takes(w, job)
  /\ noticesAsked < NoticeRequests
  /\ noticesAsked' = noticesAsked + 1

Answers(w) == noticeJob' = [noticeJob EXCEPT ![w] = NoNoticeJob]

\* One request that is a single transaction.
AsksOnce == /\ noticesAsked < NoticeRequests
            /\ noticesAsked' = noticesAsked + 1
            /\ UNCHANGED noticeJob

\* What a change of the rows or of the level makes visible too late.
Late(rows, level) ==
  {[kind |-> "late", of |-> n] :
     n \in {x \in ShownIn(rows, level) \ Shown : x <= Passed}}

Notify(rows) == notice' = rows /\ slips' = slips \cup Late(rows, levelled)

-----------------------------------------------------------------------------
(* create, create_idempotent, send_to_user, send_welcome                   *)

\* A notice for a single user asks recv_notify, a welcome does not; one that
\* is published idempotently looks for its key first, whoever published it.
IsNew(k) == \A n \in Id : Committed(n) => notice[n].key # k

Publishing == {w \in NoticeWorker : noticeJob[w].op = "publish"}
Publishes(w, k) == noticeJob[w].op \in {"publish", "commit"} /\ noticeJob[w].made = k

PublishChecks(w, k, target, once) ==
  /\ Cardinality(Publishing) < Cardinality({n \in Id : notice[n] = NoNotice})
  /\ k # NoKey => target = "mine"
  /\ once => k # NoKey /\ IsNew(k)
  /\ Takes(w, [op |-> "publish", key |-> k, made |-> IF once THEN k ELSE NoKey,
               target |-> target])
  /\ slips' = slips \cup
       {[kind |-> "doubled", of |-> k] : v \in {x \in NoticeWorker : once /\ Publishes(x, k)}}
  /\ UNCHANGED <<notice, levelled, readRow, cursor, given, pulled, noticesAsked>>

\* The INSERT draws the id.
PublishInserts(w, n, status, at) ==
  /\ noticeJob[w].op = "publish"
  /\ notice[n].status = "none"
  /\ \A x \in Id : x < n => notice[x].status # "none"
  /\ notice' = [notice EXCEPT ![n] =
       [NoNotice EXCEPT !.status = "inserted", !.publish = status,
                        !.target = noticeJob[w].target, !.key = noticeJob[w].key,
                        !.made = noticeJob[w].made, !.at = at]]
  /\ noticeJob' = [noticeJob EXCEPT ![w] =
       [op |-> "commit", n |-> n, made |-> noticeJob[w].made]]
  /\ UNCHANGED <<levelled, readRow, cursor, given, pulled, slips, noticesAsked>>

PublishCommits(w) ==
  LET n == noticeJob[w].n
  IN /\ noticeJob[w].op = "commit"
     /\ Notify([notice EXCEPT ![n].status = notice[n].publish])
     /\ Answers(w)
     /\ UNCHANGED <<levelled, readRow, cursor, given, pulled, noticesAsked>>

-----------------------------------------------------------------------------
(* update, revoke, and what changes by itself                              *)

\* update sets fields, of a published notice too, among them the title and
\* the addressee by which publish requests look it up; revoke is one of these.
Updates(row) ==
  {[row EXCEPT !.status = s] : s \in {"draft", "published", "revoked"}}
    \cup {[row EXCEPT !.target = t, !.key = NoKey] : t \in Target}
    \cup {[row EXCEPT !.target = "mine", !.key = k] : k \in NoticeKey}
    \cup {[row EXCEPT !.at = t] : t \in {"early", "due"}}

UpdateNotice(n, row) ==
  LET rows == [notice EXCEPT ![n] = row]
      made == notice[n].made
  IN /\ Committed(n)
     /\ row # notice[n]
     /\ AsksOnce
     /\ notice' = rows
     /\ slips' = slips \cup Late(rows, levelled)
          \cup IF made \notin {NoKey, row.key}
               THEN {[kind |-> "edited", of |-> made]} ELSE {}
     /\ UNCHANGED <<levelled, readRow, cursor, given, pulled>>

TimePasses(n) ==
  /\ Committed(n)
  /\ notice[n].at # "over"
  /\ Notify([notice EXCEPT ![n].at = IF @ = "early" THEN "due" ELSE "over"])
  /\ UNCHANGED <<levelled, readRow, cursor, given, pulled, noticeJob, noticesAsked>>

LevelUp ==
  /\ ~levelled
  /\ levelled' = TRUE
  /\ slips' = slips \cup Late(notice, TRUE)
  /\ UNCHANGED <<notice, readRow, cursor, given, pulled, noticeJob, noticesAsked>>

-----------------------------------------------------------------------------
(* pull                                                                    *)

\* Seeded bug: the newest notices come first.
PageNewest(S) == {n \in S : Cardinality({x \in S : x > n}) < NoticeLimit}

PageOf(S) == {n \in S : Cardinality({x \in S : x < n}) < NoticeLimit}

\* A client sends the cursor of an earlier response, or none.
PullReads(w, from) ==
  /\ from \in given \cup {cursor}
  /\ Asks(w, [op |-> "pull", loaded |-> cursor, from |-> from,
              items |-> PageOf({n \in Shown : n > from})])
  /\ UNCHANGED <<notice, levelled, readRow, cursor, given, pulled, slips>>

Marked(row, items) ==
  [n \in Id |-> IF n \in items /\ row[n] = "none" THEN "read" ELSE row[n]]

PullMarks(w) ==
  /\ noticeJob[w].op = "pull"
  /\ readRow' = Marked(readRow, noticeJob[w].items)
  /\ noticeJob' = [noticeJob EXCEPT ![w].op = "move"]
  /\ UNCHANGED <<notice, levelled, cursor, given, pulled, slips, noticesAsked>>

\* The cursor is written if it is not the loaded one, whatever it is by now.
PullMoves(w) ==
  LET j == noticeJob[w]
      new == LargestOf({j.from} \cup j.items)
      moved == LargestOf({j.loaded, new})
  IN /\ j.op = "move"
     /\ cursor' = IF moved # j.loaded THEN moved ELSE cursor
     /\ pulled' = pulled \cup j.items
     /\ given' = given \cup {new}
     /\ Answers(w)
     /\ UNCHANGED <<notice, levelled, readRow, slips, noticesAsked>>

-----------------------------------------------------------------------------
(* list_for_user and delete_for_user                                       *)

\* A page of the history, the newest first, of what is not deleted.
Listed(p) ==
  LET S == {n \in Shown : readRow[n] # "deleted"}
      above(n) == Cardinality({x \in S : x > n})
  IN {n \in S : above(n) >= p * NoticeLimit /\ above(n) < (p + 1) * NoticeLimit}

ListReads(w, p) ==
  /\ Listed(p) # {}
  /\ Asks(w, [op |-> "list", items |-> Listed(p)])
  /\ UNCHANGED <<notice, levelled, readRow, cursor, given, pulled, slips>>

ListMarks(w) ==
  /\ noticeJob[w].op = "list"
  /\ readRow' = Marked(readRow, noticeJob[w].items)
  /\ Answers(w)
  /\ UNCHANGED <<notice, levelled, cursor, given, pulled, slips, noticesAsked>>

DeleteNotice(n) ==
  /\ Committed(n)
  /\ readRow' = [readRow EXCEPT ![n] = "deleted"]
  /\ AsksOnce
  /\ UNCHANGED <<notice, levelled, cursor, given, pulled, slips>>

\* unread_count
UnreadNotices == {n \in Shown : readRow[n] = "none"}

-----------------------------------------------------------------------------

NoticesNext ==
  \/ \E w \in NoticeWorker :
       \/ \E k \in NoticeKey \cup {NoKey}, t \in Target, once \in BOOLEAN :
            PublishChecks(w, k, t, once)
       \/ \E n \in Id, s \in {"draft", "published"}, at \in {"early", "due"} :
            PublishInserts(w, n, s, at)
       \/ PublishCommits(w)
       \/ \E from \in 0 .. LastNotice : PullReads(w, from)
       \/ PullMarks(w) \/ PullMoves(w)
       \/ \E p \in 0 .. LastNotice : ListReads(w, p)
       \/ ListMarks(w)
  \/ \E n \in Id :
       \/ \E row \in Updates(notice[n]) : UpdateNotice(n, row)
       \/ TimePasses(n)
       \/ DeleteNotice(n)
  \/ LevelUp

NoticesSpec == NoticesInit /\ [][NoticesNext]_noticeVars

-----------------------------------------------------------------------------
(* Properties.                                                             *)

InHand(n) == \E w \in NoticeWorker :
  noticeJob[w].op \in {"pull", "move"} /\ n \in noticeJob[w].items

\* pull gives out every visible notice before the cursor passes it: the only
\* ones it never returns are those that became visible below the cursor.
NothingSkipped ==
  \A n \in Shown : n <= cursor =>
    n \in pulled \/ InHand(n) \/ [kind |-> "late", of |-> n] \in slips

\* What pull returned is read by the time it is returned, and stays so.
PulledIsRead == pulled \cap {n \in Id : readRow[n] = "none"} = {}

\* A request that is published idempotently makes one notice, however often it
\* is delivered and whatever else is published, unless two of its deliveries
\* overlapped or an update took its key off the notice it had made.
PublishedOnce ==
  \A k \in NoticeKey :
    {[kind |-> "doubled", of |-> k], [kind |-> "edited", of |-> k]} \cap slips = {} =>
      \A x, y \in Id :
        Committed(x) /\ Committed(y) /\ notice[x].made = k /\ notice[y].made = k => x = y

\* A pull and its cursor, two at a time, beside every change of the notices:
\* besides, a deleted notice stays deleted, whichever reads were under way, and
\* the cursor only goes back by a pull that loaded it before another moved it
\* (pull, list_for_user, create_idempotent, update, revoke).
NoticesHold ==
  /\ [](NothingSkipped /\ PulledIsRead /\ PublishedOnce)
  /\ [][/\ \A n \in Id : readRow[n] = "deleted" => readRow'[n] = "deleted"
       /\ cursor' < cursor => \E w \in NoticeWorker :
            noticeJob[w].op = "move" /\ noticeJob[w].loaded # cursor]_noticeVars

=============================================================================
