----------------------------- MODULE DmMailbox -----------------------------
(***************************************************************************)
(* The mailboxes of two users who write to each other: the index rows of   *)
(* every message, one per user, and each user's session row with the last  *)
(* message, the unread count and the acknowledged watermark.               *)
(*                                                                         *)
(* A request is a sequence of transactions under READ COMMITTED, so it is  *)
(* split wherever it reads what a later statement of it relies on.  A row  *)
(* that was loaded is written back the way the ORM does it: the columns    *)
(* the request has changed, and no others.                                 *)
(*                                                                         *)
(* A message key is drawn before the message is checked and stored, so the *)
(* keys are ordered by the draw, not by the commit.                        *)
(***************************************************************************)
EXTENDS Naturals, FiniteSets

CONSTANTS
    User,          \* the two of them
    Keys,          \* how many messages are sent in all
    Concurrent,    \* how many sends are under way at a time
    DailyLimit,    \* dm_daily_send_limit
    GateLimit,     \* dm_stranger_gate_limit
    PreAudit,      \* dm_pre_audit
    Budgets        \* how often each of the other requests is made, one of these

ASSUME UserAssumption == IsFiniteSet(User) /\ Cardinality(User) = 2
ASSUME NumberAssumption ==
    /\ Keys \in Nat \ {0} /\ Concurrent \in Nat \ {0}
    /\ DailyLimit \in Nat \ {0} /\ GateLimit \in Nat \ {0}
ASSUME PreAuditAssumption == PreAudit \in BOOLEAN
ASSUME BudgetAssumption ==
    Budgets \subseteq [{"ack", "delete", "recall", "close", "admin", "follow"} -> Nat]

VARIABLES
    send,       \* of each key: how far it is, from whom, and its folder
    status,     \* msg_status of each user's index row
    audit,      \* auditStatus, the same in both rows
    recalled,   \* keys whose content_preview is erased
    session,    \* the session row of each user
    request,    \* what else a user is doing: one request at a time
    admin,      \* the administrator's request
    follows,    \* users who follow the other one
    accepts,    \* users who accept private messages of strangers
    seen,       \* keys that were in a page of messages shown to the user
    known,      \* users whom the other one has ever followed or answered
    budget      \* how many requests of a kind are left

vars == <<send, status, audit, recalled, session, request, admin,
          follows, accepts, seen, known, budget>>

Key == 1..Keys
None == 0
Peer(u) == CHOOSE v \in User : v # u

Preview == [kind: {"text", "auditing", "recalled", "removed"}, of: Key \cup {None}]

Session ==
    [exists: BOOLEAN, last: Key \cup {None}, preview: Preview, unread: 0..Keys,
     ack: Key \cup {None}, relation: {"normal", "stranger"},
     folder: {"single", "stranger"}, deleted: BOOLEAN]

NoSession ==
    [exists |-> FALSE, last |-> None, preview |-> [kind |-> "text", of |-> None],
     unread |-> 0, ack |-> None, relation |-> "stranger", folder |-> "single",
     deleted |-> FALSE]

Idle == [at |-> "idle", key |-> None, was |-> NoSession, new |-> NoSession]
NoAdmin ==
    [at |-> "idle", key |-> None, prev |-> "normal", state |-> "normal",
     was |-> [u \in User |-> NoSession], new |-> [u \in User |-> NoSession]]

AuditState == {"normal", "auditing", "removed"}

TypeOK ==
    /\ send \in [Key -> [at: {"free", "keyed", "gated", "filtered", "sent", "refused"},
                         from: User, folder: {"single", "stranger"}]]
    /\ status \in [User -> [Key -> {"none", "normal", "recalled", "deleted"}]]
    /\ audit \in [Key -> AuditState]
    /\ recalled \subseteq Key
    /\ session \in [User -> Session]
    /\ request \in [User -> [at: {"idle", "listed", "write", "recall"},
                             key: Key \cup {None}, was: Session, new: Session]]
    /\ admin \in [at: {"idle", "write"}, key: Key \cup {None}, prev: AuditState,
                  state: AuditState, was: [User -> Session], new: [User -> Session]]
    /\ follows \subseteq User /\ accepts \subseteq User /\ known \subseteq User
    /\ seen \in [User -> SUBSET Key]
    \* both rows of a message are there or none, and with them both sessions
    /\ \A k \in Key : \A u \in User :
          /\ status[u][k] # "none" <=> send[k].at = "sent"
          /\ status[u][k] # "none" => session[u].exists

Init ==
    /\ send \in [Key -> {[at |-> "free", from |-> u, folder |-> "single"] : u \in User}]
    /\ status = [u \in User |-> [k \in Key |-> "none"]]
    /\ audit = [k \in Key |-> "normal"]
    /\ recalled = {}
    /\ session = [u \in User |-> NoSession]
    /\ request = [u \in User |-> Idle]
    /\ admin = NoAdmin
    /\ follows = {}
    /\ accepts \in SUBSET User
    /\ seen = [u \in User |-> {}]
    /\ known = {}
    /\ budget \in Budgets

\* The columns a request has changed in a row it loaded.
Flush(row, was, new) ==
    [f \in DOMAIN row |-> IF new[f] # was[f] THEN new[f] ELSE row[f]]

Spend(kind) == budget[kind] > 0 /\ budget' = [budget EXCEPT ![kind] = @ - 1]

----------------------------------------------------------------------------
(* Sending                                                                 *)

Own(u, S) == {k \in Key : send[k].from = u /\ status[u][k] \in S}
NotDeleted == {"normal", "recalled"}

SendOnly == UNCHANGED <<status, audit, recalled, session, request, admin,
                        follows, accepts, seen, known, budget>>

\* Keys are drawn in their order; Init has chosen who sends which.
SendStart(k) ==
    /\ send[k].at = "free"
    /\ \A j \in 1..(k - 1) : send[j].at # "free"
    /\ Cardinality({j \in Key : send[j].at \in {"keyed", "gated", "filtered"}})
         < Concurrent
    /\ send' = [send EXCEPT ![k].at = "keyed"]
    /\ SendOnly

\* One of them is deactivated, or has blocked the other.
SendRefused(k) ==
    /\ send[k].at = "keyed"
    /\ send' = [send EXCEPT ![k].at = "refused"]
    /\ SendOnly

\* Seeded bug: an answer is looked for among the sender's own messages.
MaySendSwapped(u) ==
    /\ Cardinality(Own(u, NotDeleted)) < DailyLimit
    /\ \/ Peer(u) \in follows
       \/ Own(u, NotDeleted) # {}
       \/ Cardinality(Own(u, NotDeleted)) < GateLimit

\* The daily limit; then the stranger gate, which a receiver lifts who follows
\* the sender or has answered.
MaySend(u) ==
    /\ Cardinality(Own(u, NotDeleted)) < DailyLimit
    /\ \/ Peer(u) \in follows
       \/ Own(Peer(u), NotDeleted) # {}
       \/ Cardinality(Own(u, NotDeleted)) < GateLimit

SendGate(k) ==
    /\ send[k].at = "keyed"
    /\ send' = [send EXCEPT ![k].at =
                    IF MaySend(send[k].from) THEN "gated" ELSE "refused"]
    /\ SendOnly

\* Seeded bug: whom the receiver does not follow is a stranger.
IsStrangerUnlessFollowed(u, p) == p \notin follows

IsStranger(u, p) == /\ session[p].relation # "normal"
                    /\ Own(p, NotDeleted \cup {"deleted"}) = {}

\* The folder of the receiver the message will go to.
SendFilter(k) ==
    LET u == send[k].from  p == Peer(u) IN
    /\ send[k].at = "gated"
    /\ send' = [send EXCEPT ![k].at = "filtered",
                    ![k].folder = IF IsStranger(u, p) /\ p \notin accepts
                                  THEN "stranger" ELSE "single"]
    /\ SendOnly

\* Seeded bug: the relation of the message replaces the one of the row.
UpsertedPlain(row, k, text, counts, relation, folder) ==
    [row EXCEPT !.exists = TRUE, !.last = k, !.preview = [kind |-> text, of |-> k],
                !.unread = IF counts THEN @ + 1 ELSE @,
                !.relation = relation, !.folder = folder, !.deleted = FALSE]

\* Seeded bug: a message counts for its sender too.
UpsertedCounted(row, k, text, counts, relation, folder) ==
    [row EXCEPT !.exists = TRUE, !.last = k, !.preview = [kind |-> text, of |-> k],
                !.unread = IF @ < Keys THEN @ + 1 ELSE @,
                !.relation = IF @ = "stranger" THEN relation ELSE @,
                !.folder = folder, !.deleted = FALSE]

\* INSERT ... ON DUPLICATE KEY UPDATE: the last message is this one whatever
\* its key is, and the relation is only ever raised.
Upserted(row, k, text, counts, relation, folder) ==
    [row EXCEPT !.exists = TRUE, !.last = k, !.preview = [kind |-> text, of |-> k],
                !.unread = IF counts THEN @ + 1 ELSE @,
                !.relation = IF @ = "stranger" THEN relation ELSE @,
                !.folder = folder, !.deleted = FALSE]

\* The audit state of a new row: _persist_dm passes it under a name the table
\* does not have, so the column keeps its default, with dm_pre_audit too.
InsertedAudit == "normal"

\* Seeded bug: a filtered message is stored for its sender only.
SendPersistUnfiltered(k) ==
    LET u == send[k].from IN
    /\ send[k].at = "filtered"
    /\ send' = [send EXCEPT ![k].at = "sent"]
    /\ status' = [v \in User |-> IF v = u \/ send[k].folder = "single"
                    THEN [status[v] EXCEPT ![k] = "normal"] ELSE status[v]]
    /\ audit' = [audit EXCEPT ![k] = InsertedAudit]
    /\ session' = [v \in User |->
          IF v = u
          THEN Upserted(session[v], k, "text", FALSE, "normal", "single")
          ELSE Upserted(session[v], k, "text", TRUE, "stranger", send[k].folder)]
    /\ UNCHANGED <<recalled, request, admin, follows, accepts, seen, known, budget>>

\* One transaction; a deadlock rolls it back and it is run again.
SendPersist(k) ==
    LET u == send[k].from  p == Peer(u) IN
    /\ send[k].at = "filtered"
    /\ send' = [send EXCEPT ![k].at = "sent"]
    /\ status' = [v \in User |-> [status[v] EXCEPT ![k] = "normal"]]
    /\ audit' = [audit EXCEPT ![k] = InsertedAudit]
    /\ session' = [v \in User |->
          IF v = u
          THEN Upserted(session[v], k, "text", FALSE, "normal", "single")
          ELSE Upserted(session[v], k, IF PreAudit THEN "auditing" ELSE "text",
                        ~PreAudit, "stranger", send[k].folder)]
    /\ known' = known \cup {p}
    /\ UNCHANGED <<recalled, request, admin, follows, accepts, seen, budget>>

----------------------------------------------------------------------------
(* Reading                                                                 *)

RequestOnly == UNCHANGED <<send, status, audit, recalled, session, admin,
                           follows, accepts, known>>

\* What fetch_messages selects.
Visible(u) == {k \in Key : /\ status[u][k] \in NotDeleted
                           /\ audit[k] # "auditing" \/ send[k].from = u}

\* The page of messages, the newest first.
FetchList(u) ==
    /\ request[u].at = "idle"
    /\ Visible(u) \ seen[u] # {} \/ session[u].unread > 0
    /\ seen' = [seen EXCEPT ![u] = @ \cup Visible(u)]
    /\ request' = [request EXCEPT ![u].at = "listed"]
    /\ RequestOnly /\ UNCHANGED budget

\* The session row is loaded after the messages, when there is something to
\* mark as read.
FetchRead(u) ==
    LET row == session[u] IN
    /\ request[u].at = "listed"
    /\ request' = [request EXCEPT ![u] =
          IF row.exists /\ ~row.deleted /\ row.unread > 0
          THEN [Idle EXCEPT !.at = "write", !.was = row,
                            !.new = [row EXCEPT !.unread = 0, !.ack = row.last]]
          ELSE Idle]
    /\ RequestOnly /\ UNCHANGED <<seen, budget>>

\* POST /ack, with a key the client has shown or for the whole session.
Ack(u, k) ==
    LET row == session[u] IN
    /\ request[u].at = "idle"
    /\ row.exists
    /\ k \in seen[u] \cup {None}
    /\ Spend("ack")
    /\ seen' = [seen EXCEPT ![u] = IF k = None THEN @ \cup {row.last} ELSE @]
    /\ request' = [request EXCEPT ![u] =
          [Idle EXCEPT !.at = "write", !.was = row,
              !.new = [row EXCEPT !.unread = 0,
                  !.ack = IF k = None THEN row.last
                          ELSE IF k > row.ack THEN k ELSE row.ack]]]
    /\ RequestOnly

\* POST /session/delete
Close(u) ==
    /\ request[u].at = "idle"
    /\ session[u].exists
    /\ Spend("close")
    /\ request' = [request EXCEPT ![u] =
          [Idle EXCEPT !.at = "write", !.was = session[u],
              !.new = [session[u] EXCEPT !.deleted = TRUE, !.unread = 0]]]
    /\ RequestOnly /\ UNCHANGED seen

\* The commit of a request that loaded the session row.
WriteBack(u) ==
    /\ request[u].at = "write"
    /\ session' = [session EXCEPT ![u] = Flush(@, request[u].was, request[u].new)]
    /\ request' = [request EXCEPT ![u] = Idle]
    /\ UNCHANGED <<send, status, audit, recalled, admin, follows, accepts,
                   seen, known, budget>>

----------------------------------------------------------------------------
(* Deleting and recalling                                                  *)

DeleteMessage(u, k) ==
    /\ request[u].at = "idle"
    /\ k \in seen[u] \cup Own(u, NotDeleted)
    /\ status[u][k] # "deleted"
    /\ Spend("delete")
    /\ status' = [status EXCEPT ![u][k] = "deleted"]
    /\ UNCHANGED <<send, audit, recalled, session, request, admin, follows,
                   accepts, seen, known>>

\* The sender's row is checked, and the window by the key's timestamp.
RecallCheck(u, k) ==
    /\ request[u].at = "idle"
    /\ send[k].from = u /\ status[u][k] = "normal"
    /\ Spend("recall")
    /\ request' = [request EXCEPT ![u] = [Idle EXCEPT !.at = "recall", !.key = k]]
    /\ RequestOnly /\ UNCHANGED seen

\* Seeded bug: the update is restricted to the sender's own row.
RecallWriteOwn(u) ==
    LET k == request[u].key IN
    /\ request[u].at = "recall"
    /\ status' = [status EXCEPT ![u][k] = "recalled"]
    /\ recalled' = recalled \cup {k}
    /\ session' = [v \in User |-> IF session[v].last = k
                    THEN [session[v] EXCEPT !.preview = [kind |-> "recalled", of |-> k]]
                    ELSE session[v]]
    /\ request' = [request EXCEPT ![u] = Idle]
    /\ UNCHANGED <<send, audit, admin, follows, accepts, seen, known, budget>>

\* Seeded bug: the session rows keep the text.
RecallWriteNoPreview(u) ==
    LET k == request[u].key IN
    /\ request[u].at = "recall"
    /\ status' = [v \in User |-> [status[v] EXCEPT ![k] = "recalled"]]
    /\ recalled' = recalled \cup {k}
    /\ request' = [request EXCEPT ![u] = Idle]
    /\ UNCHANGED <<send, audit, session, admin, follows, accepts, seen, known, budget>>

\* Seeded bug: the session rows are not asked for their last message.
RecallWriteAnySession(u) ==
    LET k == request[u].key IN
    /\ request[u].at = "recall"
    /\ status' = [v \in User |-> [status[v] EXCEPT ![k] = "recalled"]]
    /\ recalled' = recalled \cup {k}
    /\ session' = [v \in User |->
          [session[v] EXCEPT !.preview = [kind |-> "recalled", of |-> k]]]
    /\ request' = [request EXCEPT ![u] = Idle]
    /\ UNCHANGED <<send, audit, admin, follows, accepts, seen, known, budget>>

\* Both rows, whatever their status is by now, and the session rows that show
\* the message.
RecallWrite(u) ==
    LET k == request[u].key IN
    /\ request[u].at = "recall"
    /\ status' = [v \in User |-> [status[v] EXCEPT ![k] = "recalled"]]
    /\ recalled' = recalled \cup {k}
    /\ session' = [v \in User |-> IF session[v].last = k
                    THEN [session[v] EXCEPT !.preview = [kind |-> "recalled", of |-> k]]
                    ELSE session[v]]
    /\ request' = [request EXCEPT ![u] = Idle]
    /\ UNCHANGED <<send, audit, admin, follows, accepts, seen, known, budget>>

----------------------------------------------------------------------------
(* The administrator                                                       *)

\* What set_state makes of the session row of v.
Decided(k, state, v) ==
    LET row == session[v] IN
    IF state = "removed" /\ row.last = k
    THEN [row EXCEPT !.preview = [kind |-> "removed", of |-> k]]
    ELSE IF state = "normal" /\ audit[k] = "auditing" /\ v # send[k].from
    THEN [row EXCEPT !.last = k, !.unread = @ + 1,
             !.preview = [kind |-> IF k \in recalled THEN "recalled" ELSE "text",
                          of |-> k]]
    ELSE row

AdminRead(k, state) ==
    /\ admin.at = "idle"
    /\ send[k].at = "sent"
    /\ Spend("admin")
    /\ admin' = [at |-> "write", key |-> k, prev |-> audit[k], state |-> state,
                 was |-> session, new |-> [v \in User |-> Decided(k, state, v)]]
    /\ UNCHANGED <<send, status, audit, recalled, session, request, follows,
                   accepts, seen, known>>

AdminWrite ==
    /\ admin.at = "write"
    /\ audit' = [audit EXCEPT ![admin.key] =
                    IF admin.state # admin.prev THEN admin.state ELSE @]
    /\ session' = [v \in User |-> Flush(session[v], admin.was[v], admin.new[v])]
    /\ admin' = NoAdmin
    /\ UNCHANGED <<send, status, recalled, request, follows, accepts, seen,
                   known, budget>>

----------------------------------------------------------------------------
(* Relations and settings change beside all this.                          *)

Follow(u) ==
    /\ Spend("follow")
    /\ follows' = IF u \in follows THEN follows \ {u} ELSE follows \cup {u}
    /\ known' = known \cup {Peer(u)}
    /\ UNCHANGED <<send, status, audit, recalled, session, request, admin,
                   accepts, seen>>

Sending(k) == \/ SendStart(k) \/ SendRefused(k) \/ SendGate(k)
              \/ SendFilter(k) \/ SendPersist(k)

Requests(u) ==
    \/ FetchList(u) \/ FetchRead(u) \/ WriteBack(u) \/ RecallWrite(u)
    \/ Close(u) \/ Follow(u)
    \/ \E k \in Key : DeleteMessage(u, k) \/ RecallCheck(u, k)
    \/ \E k \in Key \cup {None} : Ack(u, k)

Next ==
    \/ \E k \in Key : Sending(k)
    \/ \E u \in User : Requests(u)
    \/ \E k \in Key, s \in {"normal", "removed"} : AdminRead(k, s)
    \/ AdminWrite

Spec == Init /\ [][Next]_vars

----------------------------------------------------------------------------
(* Properties                                                              *)

\* A recall reaches both users: whatever deletions and recalls interleave,
\* nobody's row of a recalled message is back to normal.
RecallIsMutual ==
    \A k \in recalled : \A u \in User : status[u][k] \in {"recalled", "deleted"}

\* Who has answered stays known: a session never falls back among those of
\* strangers (the CASE of _upsert_row).
KnownStaysKnown ==
    [][\A u \in User : session[u].relation = "normal" =>
                       session'[u].relation = "normal"]_vars

\* A session shows the text, or the placeholder, of the message it names as
\* its last one.
PreviewOfLast == \A u \in User : session[u].preview.of = session[u].last

\* The text of a recalled message is gone from the session rows, whichever
\* message was the last one when the recall ran.
RecalledTextGone ==
    \A u \in User : session[u].preview.kind = "text" =>
                    session[u].preview.of \notin recalled

\* A message is counted once: there are never more unread messages than
\* messages received, whatever of them is recalled or read meanwhile.
CountedOnce ==
    \A u \in User : session[u].unread <=
        Cardinality({k \in Key : send[k].at = "sent" /\ send[k].from = Peer(u)})

\* A user who was neither followed nor answered has no more than GateLimit
\* messages with the other one.
GateHolds ==
    \A u \in User : u \notin known =>
        Cardinality({k \in Key : send[k].at = "sent" /\ send[k].from = u})
          <= GateLimit

\* The conversation of a user who has answered is not among the strangers'.
FolderOfKnown ==
    \A u \in User : session[u].folder = "stranger" =>
                    session[u].relation = "stranger"

\* What protects a user from strangers, and keeps friends out of their folder
\* (_check_stranger_gate and the relation of _upsert_row), one send at a time.
StrangersHold == GateHolds /\ FolderOfKnown

\* The watermark is a message the user has been shown, or has sent.
AckedWasSeen ==
    \A u \in User : \/ session[u].ack \in seen[u] \cup {None}
                    \/ send[session[u].ack].from = u

=============================================================================
