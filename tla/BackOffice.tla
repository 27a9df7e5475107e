----------------------------- MODULE BackOffice -----------------------------
(***************************************************************************)
(* The desks of the administrators: what waits for a decision, listed page *)
(* by page while it comes, is decided and goes; the statistics beside the  *)
(* lists; the conversation around a message; and decisions in batches.     *)
(* app/services/moment/moment_audit.py, moment_topic_audit.py,             *)
(* app/services/comment/comment_admin.py, message/dm/dm_admin.py,          *)
(* app/services/admin/report.py, message_admin.py,                         *)
(* app/services/user/avatar_audit.py, folder_cover_audit.py and their api. *)
(*                                                                         *)
(* Every statement reads what is committed when it runs (READ COMMITTED).  *)
(***************************************************************************)
EXTENDS Integers, FiniteSets

CONSTANTS LastPiece,     \* bound: the ids are 1 .. LastPiece
          Sort,          \* kinds of moments and comments, tables of reports, conversations
          Asked,         \* sets of states a clerk asks for
          PiecesPerPage,
          OfficePages,   \* bound: pages asked for
          OfficeTurns    \* bound: what happens while a clerk is at work

AuditState == {"auditing", "normal", "rejected", "hidden", "deleted"}

ASSUME OfficeAssumption ==
  /\ {LastPiece, OfficePages, OfficeTurns} \subseteq Nat
  /\ PiecesPerPage \in Nat \ {0}
  /\ IsFiniteSet(Sort) /\ Sort # {}
  /\ Asked \subseteq (SUBSET AuditState) \ {{}}

VARIABLES
  desk,        \* whose pieces are decided here
  duty,        \* what the clerk does: page and count, look around, decide
  made,        \* how many pieces have been made
  piece,       \* the state of each, none before it is made and after a purge
  sort,        \* the kind of each, from when it is made
  halves,      \* rows of each: a message has one for either side
  root,        \* is the clerk root, by the role of its token
  msgAdmin,     \* does the table msg_admin hold the clerk
  clerk,       \* the list the clerk pages through
  tally,       \* the statistics the clerk looks at
  context,     \* the conversation the clerk looks at
  batch,       \* the batch the clerk had decided
  turns        \* history: changes since the clerk began

officeVars == <<desk, duty, made, piece, sort, halves, root, msgAdmin, clerk, tally, context,
                batch, turns>>

Piece == 1 .. LastPiece
Desk == {"moments", "topics", "comments", "messages", "reports", "avatars", "covers"}

\* A clerk makes one request after the other.
Duty == {"lists", "context", "batch"}

\* Kinds are told apart at some desks: a filter of the list, or a table each.
Sorted == {"moments", "comments", "reports"}

NoClerk == [at |-> "idle", page |-> 0, states |-> {}, sorts |-> {}, tables |-> {},
            table |-> {}, total |-> 0, rows |-> {}, got |-> {}, again |-> {},
            due |-> {}, decided |-> {}, times |-> [k \in Sort |-> 0], ended |-> FALSE]
NoTally == [of |-> "", tables |-> {}, left |-> {}, by |-> [s \in AuditState |-> 0], total |-> 0]
NoContext == [items |-> {}, all |-> {}]
NoBatch == [todo |-> {}, state |-> "", ok |-> {}, bad |-> {}, given |-> {}, broken |-> FALSE]

OfficeTypeOK ==
  /\ desk \in Desk /\ duty \in Duty /\ made \in 0 .. LastPiece
  /\ piece \in [Piece -> AuditState \cup {"none"}]
  /\ sort \in [Piece -> Sort \cup {"none"}] /\ halves \in [Piece -> 1 .. 2]
  /\ \A p \in Piece : p > made => piece[p] = "none"
  /\ root \in BOOLEAN /\ msgAdmin \in BOOLEAN
  /\ clerk.at \in {"idle", "open", "counted"} /\ clerk.page \in 0 .. OfficePages
  /\ clerk.states \subseteq AuditState /\ clerk.sorts \subseteq Sort
  /\ clerk.total \in Nat /\ clerk.got \subseteq Piece /\ clerk.again \subseteq clerk.got
  /\ tally.of \in {"", "statistics", "stats"}
  /\ tally.by \in [AuditState -> Nat] /\ tally.total \in Nat
  /\ context.items \subseteq context.all /\ context.all \subseteq Piece
  /\ batch.todo \cup batch.ok \cup batch.bad \subseteq Piece /\ batch.broken \in BOOLEAN
  /\ turns \in 0 .. OfficeTurns

OfficeInit ==
  /\ desk \in Desk /\ duty \in Duty /\ made = 0
  /\ duty # "lists" => desk = "messages"
  /\ piece = [p \in Piece |-> "none"]
  /\ sort = [p \in Piece |-> "none"]
  /\ halves = [p \in Piece |-> IF desk = "messages" THEN 2 ELSE 1]
  /\ root \in BOOLEAN /\ msgAdmin = FALSE
  /\ clerk = NoClerk /\ tally = NoTally /\ context = NoContext /\ batch = NoBatch
  /\ turns = 0

clerkVars == <<clerk, tally, context, batch>>
roleVars == <<root, msgAdmin>>

-----------------------------------------------------------------------------
(* What happens to the pieces                                              *)

Begun == clerk # NoClerk \/ tally # NoTally \/ context # NoContext \/ batch # NoBatch
Listed == clerk.at = "idle" /\ (clerk.page = 0 \/ clerk.ended)
Settled == tally.tables = {} /\ tally.left = {}

\* Before the clerk begins anything may happen; then each change is counted.
Turn ==
  IF Begun THEN turns < OfficeTurns /\ turns' = turns + 1 ELSE UNCHANGED turns

\* A topic, a picture or a report begins under review and is decided once.
Reviewed == {"topics", "avatars", "covers", "reports"}

\* Sent, published, handed in, reported.
Made(s, k) ==
  /\ made < LastPiece /\ made' = made + 1
  /\ desk \notin Sorted /\ duty # "context" => \A p \in Piece : sort[p] \in {"none", k}
  /\ sort' = [sort EXCEPT ![made + 1] = k]
  /\ s = "auditing" \/ (s = "normal" /\ desk \notin Reviewed)
  /\ piece' = [piece EXCEPT ![made + 1] = s]
  /\ Turn
  /\ UNCHANGED <<desk, duty, halves, roleVars, clerkVars>>

\* The others are approved, rejected and taken down from any state; a comment
\* that is deleted is in a state of its own.
Outcomes ==
  CASE desk \in Reviewed -> {"normal", "rejected"}
    [] desk = "comments" -> {"normal", "rejected", "hidden", "deleted"}
    [] OTHER -> {"normal", "rejected", "hidden"}
MayBecome(p, s) ==
  /\ s \in Outcomes /\ piece[p] \notin {"none", s}
  /\ desk \in Reviewed => piece[p] = "auditing"

\* By another administrator, or by the author.
Becomes(p, s) ==
  /\ MayBecome(p, s)
  /\ piece' = [piece EXCEPT ![p] = s]
  /\ Turn
  /\ UNCHANGED <<desk, duty, made, sort, halves, roleVars, clerkVars>>

\* An account is purged: its rows go, with both halves of what it sent.
Purged(p) ==
  /\ piece[p] # "none"
  /\ \/ /\ desk = "messages" /\ halves[p] = 2
        /\ halves' = [halves EXCEPT ![p] = 1] /\ UNCHANGED piece
     \/ /\ piece' = [piece EXCEPT ![p] = "none"] /\ UNCHANGED halves
  /\ Turn
  /\ UNCHANGED <<desk, duty, made, sort, roleVars, clerkVars>>

-----------------------------------------------------------------------------
(* Who may look                                                            *)

\* MessageAdminService.grant, revoke, by root; for a clerk who is root a row in the
\* table changes nothing.
Grants(b) ==
  /\ ~root /\ msgAdmin' = b /\ msgAdmin # b
  /\ UNCHANGED <<desk, duty, made, piece, sort, halves, root, clerkVars, turns>>

\* The administrators of messages: root, or who is in the table.
msg_admin_user == root \/ msgAdmin

\* Who is not root sees what waits for review, whatever is asked for; who asks
\* for more is refused.
VisibleStates(states) == IF root THEN states ELSE {"auditing"}
Refused(states) == ~root /\ ~ states \subseteq {"auditing"}

One(states) == \E s \in AuditState : states = {s}
AllOrOne(sorts) == sorts = Sort \/ \E k \in Sort : sorts = {k}

\* What each route lets ask for, and whom.
audit_list(states, sorts) == root /\ One(states) /\ AllOrOne(sorts)
topic_audit_list(states, sorts) == root /\ One(states) /\ sorts = Sort
avatar_audit_list(states, sorts) == root /\ One(states) /\ sorts = Sort
folder_cover_audit_list(states, sorts) == root /\ One(states) /\ sorts = Sort
comment_audit_queue(states, sorts) == msg_admin_user /\ ~Refused(states) /\ AllOrOne(sorts)
dm_audit_queue(states, sorts) == msg_admin_user /\ ~Refused(states) /\ sorts = Sort
list_reports(states, sorts) ==
  root /\ (states = AuditState \/ One(states)) /\ AllOrOne(sorts)

MayAsk(states, sorts) ==
  CASE desk = "moments" -> audit_list(states, sorts)
    [] desk = "topics" -> topic_audit_list(states, sorts)
    [] desk = "avatars" -> avatar_audit_list(states, sorts)
    [] desk = "covers" -> folder_cover_audit_list(states, sorts)
    [] desk = "comments" -> comment_audit_queue(states, sorts)
    [] desk = "messages" -> dm_audit_queue(states, sorts)
    [] desk = "reports" -> list_reports(states, sorts)

-----------------------------------------------------------------------------
(* The lists                                                               *)

Found(states, sorts) == {p \in Piece : piece[p] \in states /\ sort[p] \in sorts}

\* A row stands for its piece; the latest piece comes first.
RowsOf(p) == IF halves[p] = 2 THEN {2 * p, 2 * p + 1} ELSE {2 * p}
PieceOf(r) == r \div 2
Queue(states, sorts) == UNION {RowsOf(p) : p \in Found(states, sorts)}
Over(r, rows) == {q \in rows : q > r}
Window(rows, from, n) ==
  {r \in rows : /\ Cardinality(Over(r, rows)) >= from
                /\ Cardinality(Over(r, rows)) < from + n}
Pieces(rows) == {PieceOf(r) : r \in rows}

\* Reports of all kinds are read table by table, the others in one statement.
Merged == desk = "reports" /\ clerk.sorts = Sort
Tables(sorts) == IF desk = "reports" THEN {{k} : k \in sorts} ELSE {sorts}

\* A page is asked for: the first with the filters, the next with the same.
AsksPage(states, sorts) ==
  /\ duty = "lists" /\ Settled
  /\ clerk.at = "idle" /\ ~clerk.ended /\ clerk.page < OfficePages
  /\ MayAsk(states, sorts)
  /\ clerk.page > 0 => states = clerk.states /\ sorts = clerk.sorts
  /\ clerk' = [clerk EXCEPT
       !.at = "open", !.states = VisibleStates(states), !.sorts = sorts,
       !.tables = Tables(sorts), !.total = 0, !.rows = {},
       !.due = IF clerk.page = 0 THEN Found(VisibleStates(states), sorts) ELSE @]
  /\ UNCHANGED <<desk, duty, made, piece, sort, halves, roleVars, tally, context, batch, turns>>

Counts(t) ==
  /\ clerk.at = "open" /\ t \in clerk.tables
  /\ clerk' = [clerk EXCEPT !.at = "counted", !.table = t,
                 !.total = @ + Cardinality(Queue(clerk.states, t))]
  /\ UNCHANGED <<desk, duty, made, piece, sort, halves, roleVars, tally, context, batch, turns>>

\* Each table gives all that can be on the pages up to this one.
UpToPage(rows) == Window(rows, 0, (clerk.page + 1) * PiecesPerPage)
ThisPage(rows) == Window(rows, clerk.page * PiecesPerPage, PiecesPerPage)

Lists ==
  /\ clerk.at = "counted"
  /\ LET queue == Queue(clerk.states, clerk.table)
         rows == IF Merged THEN UpToPage(queue) ELSE ThisPage(queue)
     IN clerk' = [clerk EXCEPT
          !.at = "open", !.tables = @ \ {clerk.table}, !.table = {}, !.rows = @ \cup rows,
          !.decided = @ \cup {p \in Pieces(rows) : piece[p] # "auditing"}]
  /\ UNCHANGED <<desk, duty, made, piece, sort, halves, roleVars, tally, context, batch, turns>>

\* How often what is reported was reported, in whatever state the reports are.
load_report_counts == [k \in Sort |-> Cardinality(Found(AuditState, {k}))]

\* The page: what several tables gave is cut again.  Both halves of a message
\* are one item; what is shown beside the items is looked up last.
PageAnswered ==
  /\ clerk.at = "open" /\ clerk.tables = {}
  /\ LET items == Pieces(IF Merged THEN ThisPage(clerk.rows) ELSE clerk.rows)
     IN clerk' = [clerk EXCEPT
          !.at = "idle", !.page = @ + 1, !.rows = {},
          !.got = @ \cup items, !.again = @ \cup (clerk.got \cap items),
          !.times = IF desk = "reports" THEN load_report_counts ELSE @,
          !.ended = (clerk.page + 1) * PiecesPerPage >= clerk.total]
  /\ UNCHANGED <<desk, duty, made, piece, sort, halves, roleVars, tally, context, batch, turns>>

-----------------------------------------------------------------------------
(* The statistics                                                          *)

\* Of all kinds and states in one statement; of reports table by table.
AsksStatistics ==
  /\ duty = "lists" /\ Listed /\ root /\ tally.of = ""
  /\ tally' = [NoTally EXCEPT !.of = "statistics", !.tables = Tables(Sort)]
  /\ UNCHANGED <<desk, duty, made, piece, sort, halves, roleVars, clerk, context, batch, turns>>

\* Both halves of a message are counted once.
ByState(t) == [s \in AuditState |-> Cardinality(Found({s}, t))]

agg_rows_to_resp(by, t) ==
  [tally EXCEPT !.tables = @ \ {t},
     !.by = [s \in AuditState |-> @[s] + by[s]],
     !.total = @ + by["auditing"] + by["normal"] + by["rejected"] + by["hidden"]
                 + by["deleted"]]

Aggregates(t) ==
  /\ tally.of = "statistics" /\ t \in tally.tables
  /\ tally' = agg_rows_to_resp(ByState(t), t)
  /\ UNCHANGED <<desk, duty, made, piece, sort, halves, roleVars, clerk, context, batch, turns>>

\* The counters beside the queue of messages: the messages, then the rows in
\* each state, one statement each; of comments, all states in one statement and
\* what is not deleted as the total.
AsksStats ==
  /\ duty = "lists" /\ Listed /\ desk \in {"comments", "messages"} /\ msg_admin_user /\ tally.of = ""
  /\ tally' = [NoTally EXCEPT !.of = "stats",
                 !.left = IF desk = "messages" THEN {"auditing", "rejected", "hidden"} ELSE {},
                 !.by = IF desk = "messages" THEN @ ELSE ByState(Sort),
                 !.total = IF desk = "messages" THEN Cardinality(Found(AuditState, Sort))
                           ELSE Cardinality(Found(AuditState \ {"deleted"}, Sort))]
  /\ UNCHANGED <<desk, duty, made, piece, sort, halves, roleVars, clerk, context, batch, turns>>

CountsState(s) ==
  /\ tally.of = "stats" /\ s \in tally.left
  /\ tally' = [tally EXCEPT !.left = @ \ {s},
                            !.by = [@ EXCEPT ![s] = Cardinality(Queue({s}, Sort))]]
  /\ UNCHANGED <<desk, duty, made, piece, sort, halves, roleVars, clerk, context, batch, turns>>

-----------------------------------------------------------------------------
(* The conversation around a message                                       *)

\* Twice the rows are read, for the halves, and cut once they are one item.
get_session_context(k) ==
  Window(Pieces(Window(Queue(AuditState, {k}), 0, 2 * PiecesPerPage)), 0, PiecesPerPage)

\* The messages in every state, for every administrator of messages.
session_context(k) ==
  /\ duty = "context" /\ desk = "messages" /\ msg_admin_user
  /\ Found(AuditState, {k}) # {}
  /\ context' = [items |-> get_session_context(k), all |-> Found(AuditState, {k})]
  /\ UNCHANGED <<desk, duty, made, piece, sort, halves, roleVars, clerk, tally, batch, turns>>

-----------------------------------------------------------------------------
(* Decisions in batches                                                    *)

BatchStarts(ids, s) ==
  /\ duty = "batch" /\ desk = "messages" /\ root /\ batch = NoBatch
  /\ ids # {} /\ s \in Outcomes
  /\ batch' = [NoBatch EXCEPT !.todo = ids, !.state = s]
  /\ UNCHANGED <<desk, duty, made, piece, sort, halves, roleVars, clerk, tally, context, turns>>

NotDone(p, stored, broken) ==
  batch' = [batch EXCEPT !.todo = @ \ {p}, !.bad = @ \cup {p}, !.broken = broken,
                         !.given = IF stored THEN @ \cup {p} ELSE @]

\* One message after the other, each committed by itself: there is none; it is
\* decided; the database fails before the commit, and the session may be of no
\* use then; or it fails at the commit, which was made.
BatchStep(p) ==
  /\ p \in batch.todo
  /\ \/ batch.broken /\ NotDone(p, FALSE, TRUE) /\ UNCHANGED <<piece, turns>>
     \/ /\ ~batch.broken /\ piece[p] = "none"
        /\ NotDone(p, FALSE, FALSE) /\ UNCHANGED <<piece, turns>>
     \/ /\ ~batch.broken /\ piece[p] # "none"
        /\ piece' = [piece EXCEPT ![p] = batch.state] /\ Turn
        /\ \/ batch' = [batch EXCEPT !.todo = @ \ {p}, !.ok = @ \cup {p},
                                     !.given = @ \cup {p}]
           \/ NotDone(p, TRUE, TRUE)
     \/ /\ ~batch.broken /\ piece[p] # "none"
        /\ \E broken \in BOOLEAN : NotDone(p, FALSE, broken)
        /\ UNCHANGED <<piece, turns>>
  /\ UNCHANGED <<desk, duty, made, sort, halves, roleVars, clerk, tally, context>>

OfficeNext ==
  \/ \E s \in AuditState :
       \/ \E k \in Sort : Made(s, k)
       \/ \E p \in Piece : Becomes(p, s)
       \/ CountsState(s)
       \/ \E ids \in SUBSET Piece : BatchStarts(ids, s)
  \/ \E p \in Piece : Purged(p) \/ BatchStep(p)
  \/ \E b \in BOOLEAN : Grants(b)
  \/ \E states \in Asked, sorts \in SUBSET Sort : AsksPage(states, sorts)
  \/ \E t \in SUBSET Sort : Counts(t) \/ Aggregates(t)
  \/ Lists \/ PageAnswered \/ AsksStatistics \/ AsksStats
  \/ \E k \in Sort : session_context(k)

OfficeSpec == OfficeInit /\ [][OfficeNext]_officeVars

-----------------------------------------------------------------------------
(* Properties                                                              *)

\* A clerk who has paged to the end has been shown all that was in the list, and
\* nothing twice, if nothing was made, decided or purged meanwhile: also if the
\* list was put together from several tables.  Only a message, which has two
\* rows, can be on two pages.
PagesCoverQueue ==
  clerk.ended /\ turns = 0 =>
    /\ clerk.got = clerk.due
    /\ desk # "messages" => clerk.again = {}

\* The total of a list and the statistics beside it agree if nothing changed in
\* between, as ReportService.statistics says.  The total of the messages is that
\* of their rows: up to twice as many.
TotalsAgree ==
  \A s \in AuditState :
    /\ clerk.ended /\ turns = 0 /\ clerk.states = {s} /\ clerk.sorts = Sort
    /\ tally.of = "statistics" /\ tally.tables = {}
    => /\ tally.by[s] <= clerk.total /\ clerk.total <= 2 * tally.by[s]
       /\ desk # "messages" => clerk.total = tally.by[s]

\* The counters beside the queue count rows in each state, and messages in all.
StatsFit ==
  tally.of = "stats" /\ tally.left = {} /\ turns = 0 /\ desk = "messages" =>
    tally.by["auditing"] + tally.by["rejected"] + tally.by["hidden"] <= 2 * tally.total

\* A thing is said to have been reported at least as often as the list shows a
\* report of it, if no report was purged meanwhile: here one thing of each kind.
TimesFit ==
  desk = "reports" /\ clerk.at = "idle" /\ turns = 0 =>
    \A k \in Sort : Cardinality({p \in clerk.got : sort[p] = k}) <= clerk.times[k]

\* Who is not root is shown by a list only what was under review when it was read.
LimitedSeeQueue == ~root => clerk.decided = {}

\* Around a message the latest ones of the conversation are shown, as many as a
\* page holds, whether both of their halves are left or one.
ContextIsLatest == context.items = Window(context.all, 0, PiecesPerPage)

\* What a batch reports as decided was decided by it, each id is reported once,
\* and at most one of those it reports as failed was decided after all.
BatchTellsTruth ==
  /\ batch.ok \subseteq batch.given /\ batch.ok \cap batch.bad = {}
  /\ \A p, q \in batch.bad \cap batch.given : p = q

OfficeHolds ==
  /\ PagesCoverQueue /\ TotalsAgree /\ StatsFit /\ TimesFit /\ LimitedSeeQueue
  /\ ContextIsLatest /\ BatchTellsTruth

=============================================================================
