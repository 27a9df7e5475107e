----------------------------- MODULE AuditQueue -----------------------------
(***************************************************************************)
(* What a user publishes only after an administrator has looked at it: the *)
(* avatar, the cover of a folder, and a topic.  A new submission of a      *)
(* picture takes the place of the one that waits; an approved cover is     *)
(* published with its decision, an approved avatar afterwards, in another  *)
(* database; a topic is its own request and is shown once it is approved.  *)
(* Other services write an avatar as well, without a ticket.               *)
(*                                                                         *)
(* Every decision is read, check and write back.                           *)
(***************************************************************************)
EXTENDS Integers, FiniteSets

CONSTANTS LastTicket,    \* bound: the keys are 1 .. LastTicket
          TopicLimit,    \* topic_daily_create_limit; 0 is no limit
          AuditWorker,   \* requests served at the same time
          AuditRequests  \* bound: the requests of a behaviour

ASSUME AuditAssumption == LastTicket \in Nat /\ TopicLimit \in Nat /\ AuditRequests \in Nat

VARIABLES
  ticket,      \* TUserAvatarAudit, TFolderCoverAudit, TMomentTopic
  public,      \* the ticket whose picture is public, 0 at first, or Foreign
  folderGone,  \* the folder of the cover was deleted
  told,        \* history: the decisions the user was told of each ticket
  mixups,      \* history: the known ways to go wrong that were met
  auditJob,    \* what each worker has read and is to write
  audits       \* the requests so far

auditVars == <<ticket, public, folderGone, told, mixups, auditJob, audits>>

TicketId == 1 .. LastTicket
Picture == {"avatar", "cover"}
Foreign == -1  \* a picture that another service wrote
AuditKind == Picture \cup {"topic"}
Ticket == [kind : AuditKind, status : {"none", "auditing", "normal", "rejected"}]
NoTicket == [kind |-> "topic", status |-> "none"]
NoAuditJob == [op |-> "idle"]

\* overlap: a decision or a resubmission found the ticket decided when it
\* wrote.  two: two submissions met.  late: an avatar was written after that
\* of a newer ticket.  failed: an approved avatar was not written.  replaced:
\* another service wrote one in its place.  limit: two topics were created
\* together.
Mixup == [kind : {"overlap", "late", "failed", "replaced"}, of : TicketId]
           \cup [kind : {"two", "limit"}, of : AuditKind]

AuditTypeOK ==
  /\ ticket \in [TicketId -> Ticket]
  /\ public \in [Picture -> {0, Foreign} \cup TicketId]
  /\ folderGone \in BOOLEAN
  /\ told \in [TicketId -> SUBSET {"approved", "rejected"}]
  /\ mixups \subseteq Mixup
  /\ DOMAIN auditJob = AuditWorker
  /\ audits \in 0 .. AuditRequests

AuditInit ==
  /\ ticket = [n \in TicketId |-> NoTicket]
  /\ public = [k \in Picture |-> 0]
  /\ folderGone = FALSE
  /\ told = [n \in TicketId |-> {}]
  /\ mixups = {}
  /\ auditJob = [w \in AuditWorker |-> NoAuditJob]
  /\ audits = 0

-----------------------------------------------------------------------------

Of(kind, status) ==
  {n \in TicketId : ticket[n] = [kind |-> kind, status |-> status]}
Filed(kind) == {n \in TicketId : ticket[n].kind = kind /\ ticket[n].status # "none"}

Begins(w, job) ==
  /\ auditJob[w] = NoAuditJob
  /\ audits < AuditRequests /\ audits' = audits + 1
  /\ auditJob' = [auditJob EXCEPT ![w] = job]
  /\ UNCHANGED <<ticket, public, folderGone, told, mixups>>
Continues(w, job) == auditJob' = [auditJob EXCEPT ![w] = job] /\ UNCHANGED audits
Decided(n) == ticket[n].status # "auditing"

Mixed(kind, S) == mixups' = mixups \cup {[kind |-> kind, of |-> x] : x \in S}

NextTicket(n) == /\ ticket[n] = NoTicket
                 /\ \A x \in TicketId : x < n => ticket[x] # NoTicket

-----------------------------------------------------------------------------
(* submit of a picture, create_topic                                       *)

\* Seeded bug: a new submission leaves the old one waiting.
PendingKept(kind) == {}

Pending(kind) == Of(kind, "auditing")

SubmitReads(w, kind) ==
  /\ kind = "cover" => ~folderGone
  /\ Begins(w, [op |-> "submit", kind |-> kind, pending |-> Pending(kind),
                filed |-> Filed(kind)])

\* What waited is rejected, as it was read, and the new ticket inserted.
SubmitCommits(w, n) ==
  LET j == auditJob[w]
  IN /\ j.op = "submit"
     /\ NextTicket(n)
     /\ ticket' = [x \in TicketId |->
          IF x = n THEN [kind |-> j.kind, status |-> "auditing"]
          ELSE IF x \in j.pending THEN [ticket[x] EXCEPT !.status = "rejected"]
          ELSE ticket[x]]
     /\ mixups' = mixups
          \cup {[kind |-> "overlap", of |-> x] : x \in {y \in j.pending : Decided(y)}}
          \cup IF Filed(j.kind) = j.filed THEN {} ELSE {[kind |-> "two", of |-> j.kind]}
     /\ Continues(w, NoAuditJob)
     /\ UNCHANGED <<public, folderGone, told>>

\* The daily limit is a count before the insert; topics are never deleted.
TopicChecks(w) ==
  /\ TopicLimit > 0 => Cardinality(Filed("topic")) < TopicLimit
  /\ Begins(w, [op |-> "create"])

TopicInserts(w, n) ==
  /\ auditJob[w].op = "create"
  /\ NextTicket(n)
  /\ ticket' = [ticket EXCEPT ![n] = [kind |-> "topic", status |-> "auditing"]]
  /\ Mixed("limit", IF TopicLimit > 0 /\ Cardinality(Filed("topic")) >= TopicLimit
                    THEN {"topic"} ELSE {})
  /\ Continues(w, NoAuditJob)
  /\ UNCHANGED <<public, folderGone, told>>

-----------------------------------------------------------------------------
(* approve and reject                                                      *)

DecideReads(w, n) ==
  /\ ticket[n].status = "auditing"
  /\ Begins(w, [op |-> "decide", n |-> n])

Approves(w) ==
  LET n == auditJob[w].n
  IN /\ auditJob[w].op = "decide"
     /\ ticket' = [ticket EXCEPT ![n].status = "normal"]
     /\ Mixed("overlap", IF Decided(n) THEN {n} ELSE {})

ApproveAvatar(w) ==
  /\ auditJob[w].op = "decide" /\ ticket[auditJob[w].n].kind = "avatar"
  /\ Approves(w)
  /\ Continues(w, [op |-> "publish", n |-> auditJob[w].n])
  /\ UNCHANGED <<public, folderGone, told>>

\* set_user_detail in the database of the profiles; a failure is logged.
PublishAvatar(w, ok) ==
  LET n == auditJob[w].n
  IN /\ auditJob[w].op = "publish"
     /\ public' = IF ok THEN [public EXCEPT !["avatar"] = n] ELSE public
     /\ Mixed(IF ok THEN "late" ELSE "failed",
              IF ok /\ public["avatar"] <= n THEN {} ELSE {n})
     /\ Continues(w, [op |-> "tell", n |-> n, what |-> "approved"])
     /\ UNCHANGED <<ticket, folderGone, told>>

\* rpc_set_user_detail, and rpc_create_user of an account that exists: another
\* service writes a picture that nobody has looked at.
WritesAvatar ==
  /\ audits < AuditRequests /\ audits' = audits + 1
  /\ public' = [public EXCEPT !["avatar"] = Foreign]
  /\ Mixed("replaced", {public["avatar"]} \cap TicketId)
  /\ UNCHANGED <<ticket, folderGone, told, auditJob>>

\* Decision and picture in one transaction, which is rolled back when the
\* folder is gone.
ApproveCover(w) ==
  LET n == auditJob[w].n
  IN /\ auditJob[w].op = "decide" /\ ticket[n].kind = "cover"
     /\ ~folderGone
     /\ Approves(w)
     /\ public' = [public EXCEPT !["cover"] = n]
     /\ Continues(w, [op |-> "tell", n |-> n, what |-> "approved"])
     /\ UNCHANGED <<folderGone, told>>

ApproveCoverFails(w) ==
  /\ auditJob[w].op = "decide" /\ ticket[auditJob[w].n].kind = "cover"
  /\ folderGone
  /\ Continues(w, NoAuditJob)
  /\ UNCHANGED <<ticket, public, folderGone, told, mixups>>

\* The creator of a topic is not told of an approval.
ApproveTopic(w) ==
  /\ auditJob[w].op = "decide" /\ ticket[auditJob[w].n].kind = "topic"
  /\ Approves(w)
  /\ Continues(w, NoAuditJob)
  /\ UNCHANGED <<public, folderGone, told>>

\* The same for the three.
Rejects(w) ==
  LET n == auditJob[w].n
  IN /\ auditJob[w].op = "decide"
     /\ ticket' = [ticket EXCEPT ![n].status = "rejected"]
     /\ Mixed("overlap", IF Decided(n) THEN {n} ELSE {})
     /\ Continues(w, [op |-> "tell", n |-> n, what |-> "rejected"])
     /\ UNCHANGED <<public, folderGone, told>>

\* A notice that fails is ignored.
TellsUser(w, ok) ==
  LET j == auditJob[w]
  IN /\ j.op = "tell"
     /\ told' = IF ok THEN [told EXCEPT ![j.n] = @ \cup {j.what}] ELSE told
     /\ Continues(w, NoAuditJob)
     /\ UNCHANGED <<ticket, public, folderGone, mixups>>

FolderGoes ==
  /\ ~folderGone
  /\ folderGone' = TRUE
  /\ public' = [public EXCEPT !["cover"] = 0]
  /\ UNCHANGED <<ticket, told, mixups, auditJob, audits>>

AuditNext ==
  \/ \E w \in AuditWorker :
       \/ \E kind \in Picture : SubmitReads(w, kind)
       \/ TopicChecks(w)
       \/ \E n \in TicketId :
            SubmitCommits(w, n) \/ TopicInserts(w, n) \/ DecideReads(w, n)
       \/ ApproveAvatar(w) \/ ApproveCover(w) \/ ApproveCoverFails(w)
       \/ ApproveTopic(w) \/ Rejects(w)
       \/ \E ok \in BOOLEAN : PublishAvatar(w, ok) \/ TellsUser(w, ok)
  \/ WritesAvatar \/ FolderGoes

AuditSpec == AuditInit /\ [][AuditNext]_auditVars

-----------------------------------------------------------------------------
(* Properties.                                                             *)

Met(kind, of) == [kind |-> kind, of |-> of] \in mixups

\* A user has one picture of a kind waiting (the docstrings of both services),
\* unless two submissions met.
OneWaits ==
  \A k \in Picture : ~Met("two", k) => Cardinality(Of(k, "auditing")) <= 1

\* What is public was approved and is not rejected, unless two decisions on
\* it, or a decision and a resubmission, overlapped; but an avatar may be one
\* that another service wrote.
PublicIsApproved ==
  /\ \A k \in Picture : LET n == public[k] IN
       n \in TicketId => ticket[n] = [kind |-> k, status |-> "normal"] \/ Met("overlap", n)
  /\ public["cover"] # Foreign

\* When no approval is between its two databases, the public avatar is the
\* newest approved one, unless a write failed, came late, decisions
\* overlapped, or another service took the place of this one or a newer one.
AvatarIsNewest ==
  (\A w \in AuditWorker : auditJob[w].op # "publish") /\ ~Met("two", "avatar")
    => \A n \in Of("avatar", "normal") :
         \/ public["avatar"] >= n \/ Met("failed", n)
         \/ \E x \in TicketId :
              Met("overlap", x) \/ Met("late", x) \/ (x >= n /\ Met("replaced", x))

\* A user hears one decision on a ticket, the one it has, unless decisions
\* overlapped.
ToldTheTruth ==
  \A n \in TicketId : told[n] # {} /\ ~Met("overlap", n) =>
    told[n] = {IF ticket[n].status = "normal" THEN "approved" ELSE "rejected"}

\* The limit of topics is exceeded only by two creations at the same time.
TopicsLimited ==
  TopicLimit > 0 /\ ~Met("limit", "topic") => Cardinality(Filed("topic")) <= TopicLimit

\* Pictures and topics that wait for an administrator, with two requests at
\* a time and the avatars that other services write (submit, approve and reject
\* of the three services, create_topic, set_user_detail).
AuditsHold == /\ OneWaits /\ PublicIsApproved /\ AvatarIsNewest
              /\ ToldTheTruth /\ TopicsLimited

=============================================================================
