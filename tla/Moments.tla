------------------------------ MODULE Moments ------------------------------
(***************************************************************************)
(* Moments and forwards of them: the audit status, the soft deletion, the  *)
(* row of the feed that repeats both, the pin of the author's space, the   *)
(* audit log and the repost counter of the forwarded moment.               *)
(*                                                                         *)
(* A handler loads the moment in one step and commits in a later one.  The *)
(* session writes the columns whose value differs from the loaded one; the *)
(* feed row is updated to an absolute value, the counter in place.         *)
(***************************************************************************)
EXTENDS Integers, FiniteSets

CONSTANTS Moment, NoMoment,
          MomentWorker,     \* requests served at the same time
          MomentRequests    \* bound: requests of a behaviour

ASSUME MomentAssumption == /\ NoMoment \notin Moment
                           /\ MomentRequests \in Nat

VARIABLES
  moment,        \* the row of TMoment
  feed,          \* the row of TResourceFeed
  lastLog,       \* the status the last entry of the audit log ends in
  repostCount,   \* of each moment, in its statistics row
  momentJob,     \* what each worker has loaded and is to commit
  drift,         \* history: the known ways to go wrong that were met
  momentsAsked   \* requests so far

momentVars == <<moment, feed, lastLog, repostCount, momentJob, drift,
                momentsAsked>>

MomentStatus == {"absent", "auditing", "normal", "rejected", "hidden"}

\* passed: a forward was published without an audit by a person.  again: a
\* normal forward was approved once more.  hidden: a counted forward was taken
\* down.  gone: a deleted forward was approved.  twice: one that was deleted
\* while it counted was rejected.  unlogged: a status was changed
\* without an entry in the log.  row: a handler committed what it computed from
\* a row whose status or deletion had changed since; pin: whose pin had.
Drift == {"passed", "again", "hidden", "gone", "twice", "unlogged",
          "row", "pin"}

MomentRow == [status : MomentStatus, src : Moment \cup {NoMoment},
              deleted : BOOLEAN, top : BOOLEAN]
FeedRow == [status : MomentStatus, deleted : BOOLEAN]

NoRow == [status |-> "absent", src |-> NoMoment, deleted |-> FALSE,
          top |-> FALSE]
NoJob == [op |-> "idle"]

MomentsTypeOK ==
  /\ moment \in [Moment -> MomentRow]
  /\ feed \in [Moment -> FeedRow]
  /\ lastLog \in [Moment -> MomentStatus]
  /\ repostCount \in [Moment -> Nat]
  /\ DOMAIN momentJob = MomentWorker
  /\ drift \subseteq Drift
  /\ momentsAsked \in 0 .. MomentRequests

MomentsInit ==
  /\ moment = [m \in Moment |-> NoRow]
  /\ feed = [m \in Moment |-> [status |-> "absent", deleted |-> FALSE]]
  /\ lastLog = [m \in Moment |-> "absent"]
  /\ repostCount = [m \in Moment |-> 0]
  /\ momentJob = [w \in MomentWorker |-> NoJob]
  /\ drift = {}
  /\ momentsAsked = 0

-----------------------------------------------------------------------------

Published == {m \in Moment : moment[m].status # "absent"}
Public(m) == moment[m].status = "normal" /\ ~moment[m].deleted
Forwards(m) == {f \in Moment : moment[f].src = m /\ Public(f)}

Load(w, job) ==
  /\ momentJob[w] = NoJob
  /\ momentsAsked < MomentRequests
  /\ momentsAsked' = momentsAsked + 1
  /\ momentJob' = [momentJob EXCEPT ![w] = job]
  /\ UNCHANGED <<moment, feed, lastLog, repostCount, drift>>

Done(w) == momentJob' = [momentJob EXCEPT ![w] = NoJob] /\ UNCHANGED momentsAsked

Same(m, row) == moment[m].status = row.status /\ moment[m].deleted = row.deleted
Drifts(job, kinds) ==
  drift' = drift \cup kinds
             \cup (IF Same(job.m, job.row) THEN {} ELSE {"row"})
             \cup (IF moment[job.m].top = job.row.top THEN {} ELSE {"pin"})

\* incr_repost_count: in place, and never below zero.
Unbounded(n) == n
FloorZero(n) == IF n < 0 THEN 0 ELSE n
Repost(m, delta) ==
  repostCount' = [s \in Moment |->
                    FloorZero(repostCount[s]
                                + IF s = moment[m].src THEN delta ELSE 0)]
ForwardOf(m, kind) == IF moment[m].src = NoMoment THEN {} ELSE {kind}

\* The session writes a column only if its value is not the loaded one.
Written(new, seen, now) == IF new = seen THEN now ELSE new

-----------------------------------------------------------------------------
(* MomentPublishService.create, repost *)

Forwardable == {s \in Moment : Public(s)}

\* _decide_content_audit: the verdict of the audit engine; a refused text is
\* not stored.
Verdict == {"normal", "auditing", "refused"}

NewMoment(job, v) == [NoRow EXCEPT !.status = v, !.src = job.src]

PublishLoads(w, m, s) ==
  /\ moment[m].status = "absent"
  /\ \A v \in MomentWorker : momentJob[v] # NoJob => momentJob[v].m # m
  /\ s \in Forwardable \cup {NoMoment}
  /\ Load(w, [op |-> "publish", m |-> m, src |-> s])

PublishCommits(w, v) ==
  LET j == momentJob[w]
  IN /\ j.op = "publish"
     /\ v \in Verdict
     /\ IF v = "refused"
        THEN UNCHANGED <<moment, feed, lastLog, drift>>
        ELSE /\ moment' = [moment EXCEPT ![j.m] = NewMoment(j, v)]
             /\ feed' = [feed EXCEPT ![j.m].status = v]
             /\ lastLog' = [lastLog EXCEPT ![j.m] = v]
             /\ drift' = drift \cup IF v = "normal" /\ j.src # NoMoment
                                    THEN {"passed"} ELSE {}
     /\ Done(w)
     /\ UNCHANGED repostCount

-----------------------------------------------------------------------------
(* DynamicBiz.audit_approve, audit_reject: any stored row, a deleted one too *)

AuditLoads(w, m, op) ==
  /\ m \in Published
  /\ op \in {"approve", "reject"}
  /\ Load(w, [op |-> op, m |-> m, row |-> moment[m]])

Approves(w) ==
  LET j == momentJob[w]
  IN /\ j.op = "approve"
     /\ moment' = [moment EXCEPT ![j.m].status =
                     Written("normal", j.row.status, @)]
     /\ feed' = [feed EXCEPT ![j.m].status = "normal"]
     /\ Repost(j.m, 1)
     /\ lastLog' = [lastLog EXCEPT ![j.m] = "normal"]
     /\ Drifts(j, (IF j.row.status = "normal"
                   THEN ForwardOf(j.m, "again") ELSE {})
                  \cup IF j.row.deleted THEN ForwardOf(j.m, "gone") ELSE {})
     /\ Done(w)

\* Seeded bug: every rejection is counted.
RejectDeltaAlways(j) == -1

RejectDelta(j) == IF j.row.status = "normal" THEN -1 ELSE 0
RejectFeed(j) == "rejected"
LogsAfter(j) == "rejected"

Rejects(w) ==
  LET j == momentJob[w]
  IN /\ j.op = "reject"
     /\ moment' = [moment EXCEPT ![j.m].status =
                     Written("rejected", j.row.status, @)]
     /\ feed' = [feed EXCEPT ![j.m].status = RejectFeed(j)]
     /\ Repost(j.m, RejectDelta(j))
     /\ lastLog' = [lastLog EXCEPT ![j.m] = LogsAfter(j)]
     /\ Drifts(j, IF j.row.deleted /\ j.row.status = "normal"
                  THEN ForwardOf(j.m, "twice") ELSE {})
     /\ Done(w)

-----------------------------------------------------------------------------
(* DynamicBiz.hide, called when a report is upheld *)

HideLoads(w, m) ==
  /\ m \in Published
  /\ ~moment[m].deleted
  /\ Load(w, [op |-> "hide", m |-> m, row |-> moment[m]])

\* Neither counted nor logged.
Hides(w) ==
  LET j == momentJob[w]
  IN /\ j.op = "hide"
     /\ moment' = [moment EXCEPT ![j.m].status =
                     Written("hidden", j.row.status, @)]
     /\ feed' = [feed EXCEPT ![j.m].status = "hidden"]
     /\ Drifts(j, {"unlogged"} \cup IF j.row.status = "normal"
                                    THEN ForwardOf(j.m, "hidden") ELSE {})
     /\ Done(w)
     /\ UNCHANGED <<repostCount, lastLog>>

-----------------------------------------------------------------------------
(* MomentPublishService.remove, by the author or an administrator *)

RemoveLoads(w, m) ==
  /\ m \in Published
  /\ ~moment[m].deleted
  /\ Load(w, [op |-> "remove", m |-> m, row |-> moment[m]])

PinAfterRemove(j) == Written(FALSE, j.row.top, moment[j.m].top)
RemoveDelta(j) == IF j.row.status = "normal" THEN -1 ELSE 0

Removes(w) ==
  LET j == momentJob[w]
  IN /\ j.op = "remove"
     /\ moment' = [moment EXCEPT ![j.m].deleted = TRUE,
                                 ![j.m].top = PinAfterRemove(j)]
     /\ feed' = [feed EXCEPT ![j.m].deleted = TRUE]
     /\ Repost(j.m, RemoveDelta(j))
     /\ lastLog' = [lastLog EXCEPT ![j.m] = j.row.status]
     /\ Drifts(j, {})
     /\ Done(w)

-----------------------------------------------------------------------------
(* MomentPublishService.top *)

PinLoads(w, m, on) ==
  /\ Public(m)
  /\ moment[m].top # on
  /\ Load(w, [op |-> "top", m |-> m, on |-> on, row |-> moment[m]])

Pins(w) ==
  LET j == momentJob[w]
  IN /\ j.op = "top"
     /\ moment' = [moment EXCEPT ![j.m].top = j.on]
     /\ Drifts(j, {})
     /\ Done(w)
     /\ UNCHANGED <<feed, lastLog, repostCount>>

-----------------------------------------------------------------------------

MomentsNext ==
  \E w \in MomentWorker :
    \/ \E m \in Moment :
         \/ \E s \in Moment \cup {NoMoment} : PublishLoads(w, m, s)
         \/ \E op \in {"approve", "reject"} : AuditLoads(w, m, op)
         \/ HideLoads(w, m)
         \/ RemoveLoads(w, m)
         \/ \E on \in BOOLEAN : PinLoads(w, m, on)
    \/ \E v \in Verdict : PublishCommits(w, v)
    \/ Approves(w)
    \/ Rejects(w)
    \/ Hides(w)
    \/ Removes(w)
    \/ Pins(w)

MomentsSpec == MomentsInit /\ [][MomentsNext]_momentVars

-----------------------------------------------------------------------------
(* Properties.  Each says that nothing but the named causes breaks it. *)

\* The repost counter of a moment is the number of its public forwards; what
\* breaks it is publishing without an audit, a second approval, a take-down,
\* an audit of a deleted forward, and two handlers on one row.
RepostsCounted ==
  drift \cap {"passed", "again", "hidden", "gone", "twice", "row"} = {}
    => \A m \in Moment : repostCount[m] = Cardinality(Forwards(m))

\* A second approval, a take-down and the approval of a deleted forward leave
\* a counter that is too high, never one that is too low.
RepostsNeverMissing ==
  drift \cap {"passed", "twice", "row"} = {}
    => \A m \in Moment : repostCount[m] >= Cardinality(Forwards(m))

\* A forward that is published at once is never counted, yet its removal
\* counts down: the counter is then too low, never too high.
UnauditedNeverOvercounts ==
  drift \cap {"again", "hidden", "gone", "row"} = {}
    => \A m \in Moment : repostCount[m] <= Cardinality(Forwards(m))

\* The feed shows a moment as its row says, unless two handlers worked on it
\* at the same time: then a rejected moment can stay in the feed.
FeedAgrees ==
  "row" \notin drift
    => \A m \in Moment : /\ feed[m].status = moment[m].status
                         /\ feed[m].deleted = moment[m].deleted

\* A deleted moment is not pinned, unless it was pinned while being removed.
NoDeletedPin ==
  drift \cap {"row", "pin"} = {}
    => \A m \in Moment : ~(moment[m].deleted /\ moment[m].top)

\* The audit log of a moment ends in the status the moment has, unless it was
\* taken down (that writes no entry) or two handlers worked on it.
LogEndsInStatus ==
  drift \cap {"unlogged", "row"} = {}
    => \A m \in Moment : lastLog[m] = moment[m].status

\* repostCount against the forwards, with the exact causes of either error, and
\* what is stored of a moment in several places (publish, audit_approve,
\* audit_reject, hide and remove, two at a time).
MomentsHold ==
  /\ RepostsCounted /\ RepostsNeverMissing /\ UnauditedNeverOvercounts
  /\ FeedAgrees /\ NoDeletedPin /\ LogEndsInStatus

=============================================================================
