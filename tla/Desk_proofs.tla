----------------------------- MODULE Desk_proofs -----------------------------
(***************************************************************************)
(* Proofs about accounts and what is decided about them: pictures and      *)
(* topics, reports, experience, level and role, signing in, and the desks  *)
(* of the administrators; for any number of users, tickets, things,        *)
(* accounts, pieces and requests at a time.                                *)
(***************************************************************************)
EXTENDS MCDesk, SumTheorems, FiniteSetTheorems, TLAPS

-----------------------------------------------------------------------------
(* Pictures and topics.                                                    *)

Word == {"approved", "rejected"}
AuditJob ==
  {NoAuditJob}
    \cup [op : {"submit"}, kind : Picture, pending : SUBSET TicketId,
          filed : SUBSET TicketId]
    \cup [op : {"create"}]
    \cup [op : {"decide", "publish"}, n : TicketId]
    \cup [op : {"tell"}, n : TicketId, what : Word]
OnATicket == {"decide", "publish", "tell"}

AuditTypes ==
  /\ ticket \in [TicketId -> Ticket]
  /\ public \in [Picture -> {0, Foreign} \cup TicketId]
  /\ told \in [TicketId -> SUBSET Word]
  /\ mixups \subseteq Mixup
  /\ auditJob \in [AuditWorker -> AuditJob]

Overlap(n, m) == [kind |-> "overlap", of |-> n] \in m
Late(n, m) == [kind |-> "late", of |-> n] \in m
Failed(n, m) == [kind |-> "failed", of |-> n] \in m
Replaced(n, m) == [kind |-> "replaced", of |-> n] \in m

\* The sets of tickets a submission reads, in the tickets t.
FiledAs(t, k) == {n \in TicketId : t[n].kind = k /\ t[n].status # "none"}
WaitingIn(t, k) == {n \in TicketId : t[n].kind = k /\ t[n].status = "auditing"}

StatusOf(word) == IF word = "approved" THEN "normal" ELSE "rejected"

\* What a submission read still covers all that waits, of what was filed then;
\* what was decided is still so, unless decisions overlapped.
SubmitFits(t, j) ==
  /\ j.pending \subseteq j.filed
  /\ j.filed \subseteq FiledAs(t, j.kind)
  /\ j.filed \cap WaitingIn(t, j.kind) \subseteq j.pending
JobFits(t, m, j) ==
  /\ j.op = "submit" => SubmitFits(t, j)
  /\ j.op \in OnATicket => t[j.n].status # "none"
  /\ j.op = "publish" =>
       t[j.n].kind = "avatar" /\ (t[j.n].status = "normal" \/ Overlap(j.n, m))
  /\ j.op = "tell" => t[j.n].status = StatusOf(j.what) \/ Overlap(j.n, m)
JobsFit == \A w \in AuditWorker : JobFits(ticket, mixups, auditJob[w])

OneOf(t, m, k) ==
  [kind |-> "two", of |-> k] \notin m =>
    \A x, y \in WaitingIn(t, k) : x = y
PublicFits(t, m, k, n) ==
  n \in TicketId => (t[n].kind = k /\ t[n].status = "normal") \/ Overlap(n, m)
ToldFits(t, m, n, words) ==
  words # {} => \/ Overlap(n, m)
                \/ t[n].status = "normal" /\ words = {"approved"}
                \/ t[n].status = "rejected" /\ words = {"rejected"}

\* An approved avatar is public or surpassed, or about to be, or its write
\* failed, or another service has taken the place of this one or a newer one.
AvatarFits(n) ==
  \/ public["avatar"] >= n
  \/ Failed(n, mixups)
  \/ \E x \in TicketId : Overlap(x, mixups) \/ Late(x, mixups)
  \/ \E x \in TicketId : x >= n /\ Replaced(x, mixups)
  \/ \E w \in AuditWorker : auditJob[w].op = "publish" /\ auditJob[w].n = n
AvatarsFit ==
  \A n \in TicketId :
    ticket[n].kind = "avatar" /\ ticket[n].status = "normal" => AvatarFits(n)

AuditInv ==
  /\ AuditTypes /\ JobsFit
  /\ \A k \in Picture : OneOf(ticket, mixups, k)
  /\ \A k \in Picture : PublicFits(ticket, mixups, k, public[k])
  /\ \A n \in TicketId : ToldFits(ticket, mixups, n, told[n])
  /\ AvatarsFit /\ TopicsLimited

LEMMA AuditJobParts ==
  \A j \in AuditJob :
    /\ j.op \in OnATicket => j.n \in TicketId
    /\ j.op = "tell" => j.what \in Word
    /\ j.op = "submit" => /\ j.kind \in Picture
                          /\ j.pending \subseteq TicketId /\ j.filed \subseteq TicketId
BY DEF AuditJob, OnATicket, NoAuditJob

\* What a step may do to one ticket: file it, or decide it; if it had been
\* decided before, that is recorded.
Moves(n) ==
  \/ ticket'[n] = ticket[n]
  \/ ticket[n] = NoTicket /\ ticket'[n].status = "auditing"
  \/ /\ ticket[n].status # "none" /\ ticket'[n].kind = ticket[n].kind
     /\ ticket'[n].status \in {"normal", "rejected"}
     /\ Decided(n) => Overlap(n, mixups')

LEMMA WhatStays ==
  ASSUME AuditTypes, AuditTypes', mixups \subseteq mixups', \A n \in TicketId : Moves(n)
  PROVE  /\ \A j \in AuditJob :
              JobFits(ticket, mixups, j) => JobFits(ticket', mixups', j)
         /\ \A k \in Picture, n \in {0, Foreign} \cup TicketId :
              PublicFits(ticket, mixups, k, n) => PublicFits(ticket', mixups', k, n)
         /\ \A n \in TicketId, words \in SUBSET Word :
              ToldFits(ticket, mixups, n, words) => ToldFits(ticket', mixups', n, words)
         /\ \A k \in AuditKind : FiledAs(ticket, k) \subseteq FiledAs(ticket', k)
<1>1. \A n \in TicketId :
        /\ ticket[n] \in Ticket /\ ticket'[n] \in Ticket
        /\ Overlap(n, mixups) => Overlap(n, mixups')
        /\ ticket[n].status # "none" =>
             ticket'[n].kind = ticket[n].kind /\ ticket'[n].status # "none"
        /\ ticket[n].status # "none" /\ ticket'[n].status = "auditing" =>
             ticket[n].status = "auditing"
        /\ ticket[n].status \in {"normal", "rejected"} =>
             ticket'[n] = ticket[n] \/ Overlap(n, mixups')
  <2> TAKE n \in TicketId
  <2>1. /\ ticket[n] \in Ticket /\ ticket'[n] \in Ticket
        /\ Overlap(n, mixups) => Overlap(n, mixups')
    BY DEF AuditTypes, Overlap
  <2>2. Moves(n) /\ NoTicket.status = "none"
    BY DEF NoTicket
  <2> QED BY <2>1, <2>2 DEF Moves, Decided
<1>2. \A k \in AuditKind : FiledAs(ticket, k) \subseteq FiledAs(ticket', k)
  BY <1>1 DEF FiledAs
<1>3. ASSUME NEW j \in AuditJob, JobFits(ticket, mixups, j)
      PROVE  JobFits(ticket', mixups', j)
  <2>1. CASE j.op = "submit"
    <3>1. SubmitFits(ticket, j) /\ j.kind \in AuditKind /\ j.filed \subseteq TicketId
      BY <1>3, <2>1, AuditJobParts DEF JobFits, AuditKind
    <3>2. SubmitFits(ticket', j)
      BY <1>1, <1>2, <3>1 DEF SubmitFits, WaitingIn, FiledAs
    <3> QED BY <2>1, <3>2 DEF JobFits, OnATicket
  <2>2. CASE j.op \in OnATicket
    <3>1. j.n \in TicketId
      BY <2>2, AuditJobParts
    <3>2. j.op = "tell" => j.what \in Word
      BY AuditJobParts
    <3> QED BY <1>1, <1>3, <2>2, <3>1, <3>2 DEF JobFits, OnATicket, StatusOf, Word
  <2>3. CASE j.op \notin OnATicket /\ j.op # "submit"
    BY <2>3 DEF JobFits, OnATicket
  <2> QED BY <2>1, <2>2, <2>3
<1>4. \A k \in Picture, n \in {0, Foreign} \cup TicketId :
        PublicFits(ticket, mixups, k, n) => PublicFits(ticket', mixups', k, n)
  BY <1>1 DEF PublicFits
<1>5. \A n \in TicketId, words \in SUBSET Word :
        ToldFits(ticket, mixups, n, words) => ToldFits(ticket', mixups', n, words)
  BY <1>1 DEF ToldFits
<1> QED BY <1>2, <1>3, <1>4, <1>5

\* No ticket is filed: what waits is among what waited.
LEMMA NoneFiled ==
  ASSUME AuditTypes, AuditTypes', mixups \subseteq mixups',
         \A n \in TicketId : Moves(n) /\ (ticket[n] = NoTicket => ticket'[n] = ticket[n]),
         \A k \in Picture : OneOf(ticket, mixups, k), TopicsLimited
  PROVE  /\ \A k \in Picture : OneOf(ticket', mixups', k)
         /\ TopicsLimited'
<1>1. \A n \in TicketId :
        /\ ticket[n] \in Ticket /\ ticket'[n] \in Ticket
        /\ ticket'[n].status = "auditing" => ticket'[n] = ticket[n]
        /\ ticket'[n].status # "none" <=> ticket[n].status # "none"
        /\ ticket'[n].status # "none" => ticket'[n].kind = ticket[n].kind
  BY DEF AuditTypes, Moves, Ticket, NoTicket
<1>2. \A k \in Picture : OneOf(ticket', mixups', k)
  BY <1>1 DEF OneOf, WaitingIn
<1>3. FiledAs(ticket', "topic") = FiledAs(ticket, "topic")
  BY <1>1 DEF FiledAs
<1>4. TopicsLimited'
  BY <1>3 DEF TopicsLimited, FiledAs, Filed, Met
<1> QED BY <1>2, <1>4

-----------------------------------------------------------------------------

\* The job of a worker changes and nothing else that matters.
LEMMA JobStep ==
  ASSUME AuditInv, NEW w \in AuditWorker, NEW j \in AuditJob,
         auditJob' = [auditJob EXCEPT ![w] = j],
         UNCHANGED <<ticket, public, told, mixups>>,
         JobFits(ticket, mixups, j),
         auditJob[w].op # "publish"
  PROVE  AuditInv'
<1>1. \A v \in AuditWorker : auditJob'[v] = IF v = w THEN j ELSE auditJob[v]
  BY DEF AuditInv, AuditTypes
<1>2. AuditTypes'
  BY DEF AuditInv, AuditTypes
<1>3. JobsFit'
  BY <1>1 DEF AuditInv, JobsFit
<1>4. AvatarsFit'
  BY <1>1 DEF AuditInv, AvatarsFit, AvatarFits
<1> QED BY <1>2, <1>3, <1>4 DEF AuditInv, TopicsLimited, Filed, Met

LEMMA BeginsStep ==
  ASSUME AuditInv, NEW w \in AuditWorker,
         \/ \E kind \in Picture : SubmitReads(w, kind)
         \/ TopicChecks(w)
         \/ \E n \in TicketId : DecideReads(w, n)
  PROVE  AuditInv'
<1>1. NoAuditJob.op = "idle"
  BY DEF NoAuditJob
<1>2. ASSUME NEW j \in AuditJob, Begins(w, j), JobFits(ticket, mixups, j)
      PROVE  AuditInv'
  BY <1>1, <1>2, JobStep DEF Begins
<1>3. ASSUME NEW kind \in Picture, SubmitReads(w, kind) PROVE AuditInv'
  <2>1. PICK j : j = [op |-> "submit", kind |-> kind, pending |-> Pending(kind),
                      filed |-> Filed(kind)]
    OBVIOUS
  <2>2. /\ Pending(kind) \subseteq TicketId /\ Filed(kind) \subseteq TicketId
        /\ Pending(kind) = WaitingIn(ticket, kind) /\ Filed(kind) = FiledAs(ticket, kind)
    BY DEF Pending, Of, Filed, WaitingIn, FiledAs, AuditInv, AuditTypes, Ticket
  <2>3. j \in AuditJob /\ Begins(w, j)
    BY <1>3, <2>1, <2>2 DEF AuditJob, SubmitReads
  <2>4. JobFits(ticket, mixups, j)
    BY <2>1, <2>2 DEF JobFits, SubmitFits, WaitingIn, FiledAs, OnATicket
  <2> QED BY <1>2, <2>3, <2>4
<1>4. CASE TopicChecks(w)
  <2>1. PICK j : j = [op |-> "create"]
    OBVIOUS
  <2>2. j \in AuditJob /\ Begins(w, j) /\ JobFits(ticket, mixups, j)
    BY <1>4, <2>1 DEF AuditJob, TopicChecks, JobFits, OnATicket
  <2> QED BY <1>2, <2>2
<1>5. ASSUME NEW n \in TicketId, DecideReads(w, n) PROVE AuditInv'
  <2>1. PICK j : j = [op |-> "decide", n |-> n]
    OBVIOUS
  <2>2. j \in AuditJob /\ Begins(w, j) /\ JobFits(ticket, mixups, j)
    BY <1>5, <2>1 DEF AuditJob, DecideReads, JobFits, OnATicket
  <2> QED BY <1>2, <2>2
<1> QED BY <1>3, <1>4, <1>5

-----------------------------------------------------------------------------
(* What files a ticket.                                                    *)

\* The new ticket fits everything but the limits.
LEMMA FiledStep ==
  ASSUME AuditInv, NEW w \in AuditWorker, auditJob[w].op \in {"submit", "create"},
         ticket' \in [TicketId -> Ticket], mixups' \subseteq Mixup,
         \A n \in TicketId : Moves(n), mixups \subseteq mixups',
         \A n \in TicketId : ticket'[n].status = "normal" => ticket[n].status = "normal",
         \A n \in TicketId : ticket[n].status # "none" => ticket'[n].kind = ticket[n].kind,
         auditJob' = [auditJob EXCEPT ![w] = NoAuditJob],
         UNCHANGED <<public, folderGone, told>>,
         \A k \in Picture : OneOf(ticket', mixups', k), TopicsLimited'
  PROVE  AuditInv'
<1>1. AuditTypes /\ AuditTypes'
  BY DEF AuditInv, AuditTypes, AuditJob
<1>2. \A v \in AuditWorker :
        /\ auditJob[v] \in AuditJob
        /\ auditJob'[v] = IF v = w THEN NoAuditJob ELSE auditJob[v]
  BY <1>1 DEF AuditTypes
<1>3. JobFits(ticket', mixups', NoAuditJob)
  BY DEF JobFits, NoAuditJob, OnATicket
<1>4. JobsFit'
  <2>1. \A v \in AuditWorker : JobFits(ticket', mixups', auditJob[v])
    BY <1>1, <1>2, WhatStays DEF AuditInv, JobsFit
  <2> QED BY <1>2, <1>3, <2>1 DEF JobsFit
<1>5. /\ \A k \in Picture : public[k] \in {0, Foreign} \cup TicketId
      /\ \A n \in TicketId : told[n] \in SUBSET Word
  BY <1>1 DEF AuditTypes
<1>6. /\ \A k \in Picture : PublicFits(ticket', mixups', k, public[k])
      /\ \A n \in TicketId : ToldFits(ticket', mixups', n, told[n])
  BY <1>1, <1>5, WhatStays DEF AuditInv
<1>7. AvatarsFit'
  <2>1. SUFFICES ASSUME NEW n \in TicketId,
                        ticket'[n].kind = "avatar", ticket'[n].status = "normal"
                 PROVE  AvatarFits(n)'
    BY DEF AvatarsFit
  <2>2. AvatarFits(n)
    BY <2>1 DEF AuditInv, AvatarsFit
  <2> QED BY <1>2, <2>2 DEF AvatarFits, Overlap, Late, Failed, Replaced
<1> QED BY <1>1, <1>4, <1>6, <1>7 DEF AuditInv

LEMMA SubmitCommitsStep ==
  ASSUME AuditInv, NEW w \in AuditWorker, NEW n \in TicketId, SubmitCommits(w, n)
  PROVE  AuditInv'
<1>1. PICK j : j = auditJob[w]
  OBVIOUS
<1>2. AuditTypes
  BY DEF AuditInv
<1>3. /\ j.op = "submit" /\ j.kind \in Picture /\ SubmitFits(ticket, j)
      /\ j.pending \subseteq TicketId /\ j.filed \subseteq TicketId
  BY <1>1, <1>2, AuditJobParts DEF AuditInv, AuditTypes, JobsFit, JobFits, SubmitCommits
<1>4. PICK new : new = [kind |-> j.kind, status |-> "auditing"]
  OBVIOUS
<1>5. new \in Ticket /\ new.kind = j.kind /\ new.status = "auditing"
  BY <1>3, <1>4 DEF Ticket, AuditKind
<1>6. /\ ticket[n] = NoTicket
      /\ ticket' = [x \in TicketId |->
           IF x = n THEN new
           ELSE IF x \in j.pending THEN [ticket[x] EXCEPT !.status = "rejected"]
           ELSE ticket[x]]
      /\ mixups' = mixups
           \cup {[kind |-> "overlap", of |-> x] : x \in {y \in j.pending : Decided(y)}}
           \cup IF Filed(j.kind) = j.filed THEN {} ELSE {[kind |-> "two", of |-> j.kind]}
      /\ auditJob' = [auditJob EXCEPT ![w] = NoAuditJob]
      /\ UNCHANGED <<public, folderGone, told>>
  BY <1>1, <1>4, Zenon DEF SubmitCommits, NextTicket, Continues
<1>7. \A x \in j.pending :
        /\ ticket[x].kind = j.kind /\ ticket[x].status # "none" /\ x # n
  BY <1>3, <1>6 DEF SubmitFits, FiledAs, NoTicket
<1>8. \A x \in TicketId :
        /\ ticket[x] \in Ticket
        /\ x = n => ticket'[x] = new
        /\ x \in j.pending => /\ ticket'[x].status = "rejected"
                              /\ ticket'[x].kind = ticket[x].kind
                              /\ ticket'[x] \in Ticket
        /\ x # n /\ x \notin j.pending => ticket'[x] = ticket[x]
  BY <1>2, <1>3, <1>6, <1>7 DEF AuditTypes, Ticket
<1>9. ticket' \in [TicketId -> Ticket]
  <2>1. \A x \in TicketId : ticket'[x] \in Ticket
    BY <1>5, <1>8
  <2>2. ticket' = [x \in TicketId |-> ticket'[x]]
    BY <1>6
  <2> QED BY <2>1, <2>2
<1>10. mixups \subseteq mixups' /\ mixups' \subseteq Mixup
  BY <1>2, <1>3, <1>6 DEF AuditTypes, Mixup, AuditKind
<1>11. \A x \in TicketId : Moves(x)
  <2> TAKE x \in TicketId
  <2>1. x \in j.pending /\ Decided(x) => Overlap(x, mixups')
    BY <1>6 DEF Overlap
  <2> QED BY <1>5, <1>6, <1>7, <1>8, <2>1 DEF Moves
<1>12. \A x \in TicketId :
         /\ ticket'[x].status = "normal" => ticket[x].status = "normal"
         /\ ticket[x].status # "none" => ticket'[x].kind = ticket[x].kind
  BY <1>5, <1>6, <1>8 DEF NoTicket
<1>13. \A k \in Picture : OneOf(ticket', mixups', k)
  <2>1. SUFFICES ASSUME NEW k \in Picture, [kind |-> "two", of |-> k] \notin mixups'
                 PROVE  \A x, y \in WaitingIn(ticket', k) : x = y
    BY DEF OneOf
  <2>2. CASE k = j.kind
    <3>1. Filed(k) = j.filed
      BY <1>6, <2>1, <2>2
    <3>2. \A x \in WaitingIn(ticket, k) : x \in j.pending
      BY <1>3, <2>2, <3>1 DEF SubmitFits, Filed, WaitingIn
    <3>3. WaitingIn(ticket', k) \subseteq {n}
      BY <1>8, <3>2 DEF WaitingIn
    <3> QED BY <3>3
  <2>3. CASE k # j.kind
    <3>1. WaitingIn(ticket', k) \subseteq WaitingIn(ticket, k)
      BY <1>5, <1>8, <2>3 DEF WaitingIn
    <3> QED BY <1>10, <2>1, <3>1 DEF AuditInv, OneOf
  <2> QED BY <2>2, <2>3
<1>14. TopicsLimited'
  <2>1. FiledAs(ticket', "topic") = FiledAs(ticket, "topic")
    BY <1>3, <1>5, <1>6, <1>7, <1>8 DEF FiledAs, Picture, NoTicket
  <2> QED BY <1>10, <2>1 DEF AuditInv, TopicsLimited, FiledAs, Filed, Met
<1> QED BY <1>1, <1>3, <1>6, <1>9, <1>10, <1>11, <1>12, <1>13, <1>14, FiledStep

LEMMA TopicInsertsStep ==
  ASSUME AuditInv, NEW w \in AuditWorker, NEW n \in TicketId, TopicInserts(w, n)
  PROVE  AuditInv'
<1>1. AuditTypes
  BY DEF AuditInv
<1>2. PICK new : new = [kind |-> "topic", status |-> "auditing"]
  OBVIOUS
<1>3. new \in Ticket /\ new.kind = "topic" /\ new.status = "auditing"
  BY <1>2 DEF Ticket, AuditKind
<1>4. /\ ticket[n] = NoTicket /\ ticket' = [ticket EXCEPT ![n] = new]
      /\ mixups' = mixups \cup
           {[kind |-> "limit", of |-> x] :
              x \in IF TopicLimit > 0 /\ Cardinality(Filed("topic")) >= TopicLimit
                    THEN {"topic"} ELSE {}}
      /\ auditJob' = [auditJob EXCEPT ![w] = NoAuditJob]
      /\ UNCHANGED <<public, folderGone, told>>
      /\ auditJob[w].op = "create"
  BY <1>2, Zenon DEF TopicInserts, NextTicket, Continues, Mixed
<1>5. \A x \in TicketId : ticket'[x] = IF x = n THEN new ELSE ticket[x]
  BY <1>1, <1>4 DEF AuditTypes
<1>6. /\ ticket' \in [TicketId -> Ticket] /\ mixups \subseteq mixups'
      /\ mixups' \subseteq Mixup
  BY <1>1, <1>3, <1>4 DEF AuditTypes, Mixup, AuditKind
<1>7. \A x \in TicketId :
        /\ Moves(x)
        /\ ticket'[x].status = "normal" => ticket[x].status = "normal"
        /\ ticket[x].status # "none" => ticket'[x].kind = ticket[x].kind
  BY <1>3, <1>4, <1>5 DEF Moves, NoTicket
<1>8. \A k \in Picture : OneOf(ticket', mixups', k)
  BY <1>3, <1>4, <1>5 DEF OneOf, WaitingIn, Picture, AuditInv
<1>9. TopicsLimited'
  <2>1. SUFFICES ASSUME TopicLimit > 0, ~Met("limit", "topic")'
                 PROVE  Cardinality(FiledAs(ticket', "topic")) <= TopicLimit
    BY DEF TopicsLimited, Filed, FiledAs
  <2>2. IsFiniteSet(FiledAs(ticket, "topic"))
    <3>1. IsFiniteSet(TicketId)
      BY AuditAssumption, FS_Interval DEF TicketId
    <3> QED BY <3>1, FS_Subset DEF FiledAs
  <2>3. Cardinality(FiledAs(ticket, "topic")) < TopicLimit
    <3>1. Cardinality(FiledAs(ticket, "topic")) \in Nat
      BY <2>2, FS_CardinalityType
    <3>2. ~(Cardinality(Filed("topic")) >= TopicLimit)
      BY <1>4, <2>1 DEF Met
    <3> QED BY <3>1, <3>2, AuditAssumption DEF Filed, FiledAs
  <2>4. FiledAs(ticket', "topic") = FiledAs(ticket, "topic") \cup {n}
    BY <1>3, <1>5 DEF FiledAs
  <2>5. n \notin FiledAs(ticket, "topic")
    BY <1>4 DEF FiledAs, NoTicket
  <2>6. Cardinality(FiledAs(ticket', "topic")) = Cardinality(FiledAs(ticket, "topic")) + 1
    BY <2>2, <2>4, <2>5, FS_AddElement
  <2>7. Cardinality(FiledAs(ticket, "topic")) \in Nat
    BY <2>2, FS_CardinalityType
  <2> QED BY <2>3, <2>6, <2>7, AuditAssumption
<1> QED BY <1>4, <1>6, <1>7, <1>8, <1>9, FiledStep

-----------------------------------------------------------------------------
(* What decides one.                                                       *)

LEMMA DecidedStep ==
  ASSUME AuditInv, NEW w \in AuditWorker, NEW n \in TicketId,
         auditJob[w].op = "decide", auditJob[w].n = n,
         NEW s \in {"normal", "rejected"},
         ticket' = [ticket EXCEPT ![n].status = s],
         mixups' = mixups \cup IF Decided(n) THEN {[kind |-> "overlap", of |-> n]} ELSE {},
         NEW j \in AuditJob, auditJob' = [auditJob EXCEPT ![w] = j], UNCHANGED told,
         j.op # "submit",
         j.op \in OnATicket => j.n = n,
         j.op = "publish" => ticket[n].kind = "avatar" /\ s = "normal",
         j.op = "tell" => s = StatusOf(j.what),
         s = "normal" /\ ticket[n].kind = "avatar" => j.op = "publish",
         public' \in [Picture -> {0, Foreign} \cup TicketId],
         public'["avatar"] = public["avatar"],
         \A k \in Picture : public'[k] = public[k]
            \/ (public'[k] = n /\ s = "normal" /\ ticket[n].kind = k)
  PROVE  AuditInv'
<1>1. AuditTypes /\ ticket[n].status # "none"
  BY DEF AuditInv, JobsFit, JobFits, OnATicket
<1>2. PICK row : row = [ticket[n] EXCEPT !.status = s]
  OBVIOUS
<1>3. /\ row \in Ticket /\ row.status = s /\ row.kind = ticket[n].kind
      /\ ticket' = [ticket EXCEPT ![n] = row]
  BY <1>1, <1>2 DEF AuditTypes, Ticket
<1>4. \A x \in TicketId : ticket'[x] = IF x = n THEN row ELSE ticket[x]
  BY <1>1, <1>3 DEF AuditTypes
<1>5. /\ mixups \subseteq mixups' /\ mixups' \subseteq Mixup
      /\ Decided(n) => Overlap(n, mixups')
  BY <1>1 DEF AuditTypes, Mixup, Overlap
<1>6. AuditTypes'
  BY <1>1, <1>3, <1>5 DEF AuditTypes
<1>7. \A x \in TicketId :
        Moves(x) /\ (ticket[x] = NoTicket => ticket'[x] = ticket[x])
  BY <1>1, <1>3, <1>4, <1>5 DEF Moves, NoTicket
<1>8. /\ \A k \in Picture : OneOf(ticket', mixups', k)
      /\ TopicsLimited'
  BY <1>1, <1>5, <1>6, <1>7, NoneFiled DEF AuditInv
<1>9. \A v \in AuditWorker :
        /\ auditJob[v] \in AuditJob
        /\ auditJob'[v] = IF v = w THEN j ELSE auditJob[v]
  BY <1>1 DEF AuditTypes
<1>10. JobFits(ticket', mixups', j)
  BY <1>3, <1>4 DEF JobFits, OnATicket
<1>11. JobsFit'
  <2>1. \A v \in AuditWorker : JobFits(ticket', mixups', auditJob[v])
    BY <1>1, <1>5, <1>6, <1>7, <1>9, WhatStays DEF AuditInv, JobsFit
  <2> QED BY <1>9, <1>10, <2>1 DEF JobsFit
<1>12. \A k \in Picture : PublicFits(ticket', mixups', k, public'[k])
  <2> TAKE k \in Picture
  <2>1. CASE public'[k] = public[k]
    <3>1. public[k] \in {0, Foreign} \cup TicketId
      BY <1>1 DEF AuditTypes
    <3> QED BY <1>1, <1>5, <1>6, <1>7, <2>1, <3>1, WhatStays DEF AuditInv
  <2>2. CASE public'[k] = n /\ s = "normal" /\ ticket[n].kind = k
    BY <1>3, <1>4, <2>2 DEF PublicFits
  <2> QED BY <2>1, <2>2
<1>13. \A x \in TicketId : ToldFits(ticket', mixups', x, told'[x])
  <2>1. \A x \in TicketId : told[x] \in SUBSET Word
    BY <1>1 DEF AuditTypes
  <2> QED BY <1>1, <1>5, <1>6, <1>7, <2>1, WhatStays DEF AuditInv
<1>14. AvatarsFit'
  <2>1. SUFFICES ASSUME NEW x \in TicketId,
                        ticket'[x].kind = "avatar", ticket'[x].status = "normal"
                 PROVE  AvatarFits(x)'
    BY DEF AvatarsFit
  <2>2. CASE x = n
    <3>1. j.op = "publish" /\ j.n = n
      BY <1>3, <1>4, <2>1, <2>2 DEF OnATicket
    <3> QED BY <1>9, <2>2, <3>1 DEF AvatarFits
  <2>3. CASE x # n
    <3>1. AvatarFits(x)
      BY <1>4, <2>1, <2>3 DEF AuditInv, AvatarsFit
    <3> QED BY <1>5, <1>9, <3>1 DEF AvatarFits, Overlap, Late, Failed, Replaced
  <2> QED BY <2>2, <2>3
<1> QED BY <1>6, <1>8, <1>11, <1>12, <1>13, <1>14 DEF AuditInv

LEMMA DecisionsStep ==
  ASSUME AuditInv, NEW w \in AuditWorker,
         ApproveAvatar(w) \/ ApproveCover(w) \/ ApproveTopic(w) \/ Rejects(w)
  PROVE  AuditInv'
<1>1. PICK n : n = auditJob[w].n
  OBVIOUS
<1>2. /\ auditJob[w].op = "decide" /\ n \in TicketId /\ ticket[n].status # "none"
      /\ public \in [Picture -> {0, Foreign} \cup TicketId]
  BY <1>1, AuditJobParts DEF ApproveAvatar, ApproveCover, ApproveTopic, Rejects,
     AuditInv, AuditTypes, JobsFit, JobFits, OnATicket
<1>3. /\ NoAuditJob \in AuditJob /\ NoAuditJob.op = "idle" /\ "idle" \notin OnATicket
      /\ "idle" # "submit" /\ "idle" # "publish" /\ "idle" # "tell"
  BY DEF NoAuditJob, AuditJob, OnATicket
<1>a. UNCHANGED public =>
        /\ public' \in [Picture -> {0, Foreign} \cup TicketId]
        /\ public'["avatar"] = public["avatar"]
        /\ \A k \in Picture : public'[k] = public[k]
  BY <1>2
<1>b. ASSUME Mixed("overlap", IF Decided(n) THEN {n} ELSE {})
      PROVE  mixups' = mixups \cup
               IF Decided(n) THEN {[kind |-> "overlap", of |-> n]} ELSE {}
  BY <1>b DEF Mixed
<1>4. CASE ApproveAvatar(w)
  <2>1. PICK j : j = [op |-> "publish", n |-> n]
    OBVIOUS
  <2>2. j \in AuditJob /\ j.op = "publish" /\ j.n = n
    BY <1>2, <2>1 DEF AuditJob
  <2>3. /\ ticket' = [ticket EXCEPT ![n].status = "normal"]
        /\ Mixed("overlap", IF Decided(n) THEN {n} ELSE {})
        /\ auditJob' = [auditJob EXCEPT ![w] = j]
        /\ ticket[n].kind = "avatar" /\ UNCHANGED <<public, told>>
    BY <1>1, <1>4, <2>1, Zenon DEF ApproveAvatar, Approves, Continues
  <2> QED BY <1>1, <1>2, <1>a, <1>b, <2>2, <2>3, DecidedStep
<1>5. CASE ApproveCover(w)
  <2>1. PICK j : j = [op |-> "tell", n |-> n, what |-> "approved"]
    OBVIOUS
  <2>2. j \in AuditJob /\ j.op = "tell" /\ j.n = n /\ StatusOf(j.what) = "normal"
    BY <1>2, <2>1 DEF AuditJob, Word, StatusOf
  <2>3. /\ ticket' = [ticket EXCEPT ![n].status = "normal"]
        /\ Mixed("overlap", IF Decided(n) THEN {n} ELSE {})
        /\ auditJob' = [auditJob EXCEPT ![w] = j]
        /\ ticket[n].kind = "cover" /\ UNCHANGED told
        /\ public' = [public EXCEPT !["cover"] = n]
    BY <1>1, <1>5, <2>1, Zenon DEF ApproveCover, Approves, Continues
  <2>4. /\ public' \in [Picture -> {0, Foreign} \cup TicketId]
        /\ public'["avatar"] = public["avatar"] /\ public'["cover"] = n
        /\ \A k \in Picture : public'[k] = public[k] \/ (public'[k] = n /\ k = "cover")
    <3>1. \A k \in Picture : public'[k] = IF k = "cover" THEN n ELSE public[k]
      BY <1>2, <2>3
    <3>2. public' \in [Picture -> {0, Foreign} \cup TicketId]
      BY <1>2, <2>3
    <3>3. "avatar" \in Picture /\ "cover" \in Picture
      BY DEF Picture
    <3> QED BY <3>1, <3>2, <3>3
  <2> QED BY <1>1, <1>2, <1>b, <2>2, <2>3, <2>4, DecidedStep
<1>6. CASE ApproveTopic(w)
  <2>1. /\ ticket' = [ticket EXCEPT ![n].status = "normal"]
        /\ Mixed("overlap", IF Decided(n) THEN {n} ELSE {})
        /\ auditJob' = [auditJob EXCEPT ![w] = NoAuditJob]
        /\ ticket[n].kind = "topic" /\ UNCHANGED <<public, told>>
    BY <1>1, <1>6, Zenon DEF ApproveTopic, Approves, Continues
  <2> QED BY <1>1, <1>2, <1>3, <1>a, <1>b, <2>1, DecidedStep
<1>7. CASE Rejects(w)
  <2>1. PICK j : j = [op |-> "tell", n |-> n, what |-> "rejected"]
    OBVIOUS
  <2>2. j \in AuditJob /\ j.op = "tell" /\ j.n = n /\ StatusOf(j.what) = "rejected"
    BY <1>2, <2>1 DEF AuditJob, Word, StatusOf
  <2>3. /\ ticket' = [ticket EXCEPT ![n].status = "rejected"]
        /\ Mixed("overlap", IF Decided(n) THEN {n} ELSE {})
        /\ auditJob' = [auditJob EXCEPT ![w] = j]
        /\ UNCHANGED <<public, told>>
    BY <1>1, <1>7, <2>1, Zenon DEF Rejects, Continues
  <2> QED BY <1>1, <1>2, <1>a, <1>b, <2>2, <2>3, DecidedStep
<1> QED BY <1>4, <1>5, <1>6, <1>7

-----------------------------------------------------------------------------
(* What follows a decision.                                                *)

LEMMA ApproveCoverFailsStep ==
  ASSUME AuditInv, NEW w \in AuditWorker, ApproveCoverFails(w)
  PROVE  AuditInv'
<1>1. NoAuditJob \in AuditJob /\ JobFits(ticket, mixups, NoAuditJob)
  BY DEF NoAuditJob, AuditJob, JobFits, OnATicket
<1> QED BY <1>1, JobStep DEF ApproveCoverFails, Continues

LEMMA PublishAvatarStep ==
  ASSUME AuditInv, NEW w \in AuditWorker, NEW ok \in BOOLEAN, PublishAvatar(w, ok)
  PROVE  AuditInv'
<1>1. PICK n : n = auditJob[w].n
  OBVIOUS
<1>2. AuditTypes
  BY DEF AuditInv
<1>3. /\ auditJob[w].op = "publish" /\ n \in TicketId /\ ticket[n].status # "none"
      /\ ticket[n].kind = "avatar" /\ (ticket[n].status = "normal" \/ Overlap(n, mixups))
  BY <1>1, <1>2, AuditJobParts DEF PublishAvatar, AuditInv, AuditTypes, JobsFit, JobFits,
     OnATicket
<1>4. PICK j : j = [op |-> "tell", n |-> n, what |-> "approved"]
  OBVIOUS
<1>5. j \in AuditJob /\ j.op = "tell" /\ j.n = n /\ StatusOf(j.what) = "normal"
  BY <1>3, <1>4 DEF AuditJob, Word, StatusOf
<1>6. /\ public' = IF ok THEN [public EXCEPT !["avatar"] = n] ELSE public
      /\ Mixed(IF ok THEN "late" ELSE "failed",
               IF ok /\ public["avatar"] <= n THEN {} ELSE {n})
      /\ auditJob' = [auditJob EXCEPT ![w] = j]
      /\ UNCHANGED <<ticket, folderGone, told>>
  BY <1>1, <1>4, Zenon DEF PublishAvatar, Continues
<1>7. /\ mixups \subseteq mixups' /\ mixups' \subseteq Mixup
      /\ ok /\ ~(public["avatar"] <= n) => Late(n, mixups')
      /\ ~ok => Failed(n, mixups')
      /\ \A x : [kind |-> "two", of |-> x] \in mixups' => [kind |-> "two", of |-> x] \in mixups
      /\ [kind |-> "limit", of |-> "topic"] \in mixups'
           => [kind |-> "limit", of |-> "topic"] \in mixups
  <2>1. PICK e \in {"late", "failed"} : e = IF ok THEN "late" ELSE "failed"
    OBVIOUS
  <2>2. PICK S \in SUBSET {n} : S = IF ok /\ public["avatar"] <= n THEN {} ELSE {n}
    OBVIOUS
  <2>3. mixups' = mixups \cup {[kind |-> e, of |-> x] : x \in S}
    BY <1>6, <2>1, <2>2, Zenon DEF Mixed
  <2>4. \A x \in S : [kind |-> e, of |-> x] \in Mixup
    BY <1>3, <2>1, <2>2 DEF Mixup
  <2>5. mixups \subseteq mixups' /\ mixups' \subseteq Mixup
    BY <1>2, <2>3, <2>4 DEF AuditTypes
  <2>6. /\ ok /\ ~(public["avatar"] <= n) => Late(n, mixups')
        /\ ~ok => Failed(n, mixups')
    BY <2>1, <2>2, <2>3 DEF Late, Failed
  <2>7. \A x \in S : \A y :
                        /\ [kind |-> e, of |-> x] # [kind |-> "two", of |-> y]
                        /\ [kind |-> e, of |-> x] # [kind |-> "limit", of |-> y]
    BY <2>1
  <2> QED BY <2>3, <2>5, <2>6, <2>7
<1>8. /\ public' \in [Picture -> {0, Foreign} \cup TicketId]
      /\ public'["cover"] = public["cover"]
      /\ public'["avatar"] = IF ok THEN n ELSE public["avatar"]
  BY <1>2, <1>3, <1>6 DEF AuditTypes, Picture
<1>9. AuditTypes'
  BY <1>2, <1>5, <1>6, <1>7, <1>8 DEF AuditTypes
<1>10. \A v \in AuditWorker : auditJob'[v] = IF v = w THEN j ELSE auditJob[v]
  BY <1>2, <1>6 DEF AuditTypes
<1>11. \A x \in TicketId :
         Moves(x) /\ (ticket[x] = NoTicket => ticket'[x] = ticket[x])
  BY <1>6 DEF Moves
<1>12. /\ \A k \in Picture : OneOf(ticket', mixups', k)
       /\ TopicsLimited'
  BY <1>2, <1>7, <1>9, <1>11, NoneFiled DEF AuditInv
<1>13. JobsFit'
  <2>1. \A v \in AuditWorker : JobFits(ticket', mixups', auditJob[v])
    BY <1>2, <1>7, <1>9, <1>11, WhatStays DEF AuditInv, AuditTypes, JobsFit
  <2>2. JobFits(ticket', mixups', j)
    BY <1>3, <1>5, <1>6, <1>7 DEF JobFits, OnATicket, Overlap
  <2> QED BY <1>10, <2>1, <2>2 DEF JobsFit
<1>14. \A k \in Picture : PublicFits(ticket', mixups', k, public'[k])
  <2>1. PublicFits(ticket', mixups', "cover", public'["cover"])
    BY <1>6, <1>7, <1>8 DEF AuditInv, PublicFits, Picture, Overlap
  <2>2. PublicFits(ticket', mixups', "avatar", public'["avatar"])
    BY <1>3, <1>6, <1>7, <1>8 DEF AuditInv, PublicFits, Picture, Overlap
  <2> QED BY <2>1, <2>2 DEF Picture
<1>15. \A x \in TicketId : ToldFits(ticket', mixups', x, told'[x])
  BY <1>6, <1>7 DEF AuditInv, ToldFits, Overlap
<1>16. AvatarsFit'
  <2>1. SUFFICES ASSUME NEW x \in TicketId,
                        ticket'[x].kind = "avatar", ticket'[x].status = "normal"
                 PROVE  AvatarFits(x)'
    BY DEF AvatarsFit
  <2>2. AvatarFits(x)
    BY <1>6, <2>1 DEF AuditInv, AvatarsFit
  <2>3. /\ x \in Int /\ n \in Int /\ public["avatar"] \in Int
    BY <1>2, <1>3, AuditAssumption DEF AuditTypes, TicketId, Picture, Foreign
  <2>4. CASE public["avatar"] >= x
    <3>1. public'["avatar"] >= x \/ Late(n, mixups')
      BY <1>7, <1>8, <2>3, <2>4
    <3> QED BY <1>3, <3>1 DEF AvatarFits
  <2>5. CASE \/ Failed(x, mixups)
             \/ \E y \in TicketId : Overlap(y, mixups) \/ Late(y, mixups)
             \/ \E y \in TicketId : y >= x /\ Replaced(y, mixups)
    BY <1>7, <2>5 DEF AvatarFits, Failed, Overlap, Late, Replaced
  <2>6. ASSUME NEW v \in AuditWorker, auditJob[v].op = "publish", auditJob[v].n = x
        PROVE  AvatarFits(x)'
    <3>1. CASE v = w
      <4>1. x = n
        BY <1>1, <2>6, <3>1
      <4>2. public'["avatar"] >= x \/ Failed(x, mixups')
        BY <1>7, <1>8, <2>3, <4>1
      <4> QED BY <4>2 DEF AvatarFits
    <3>2. CASE v # w
      BY <1>10, <2>6, <3>2 DEF AvatarFits
    <3> QED BY <3>1, <3>2
  <2> QED BY <2>2, <2>4, <2>5, <2>6 DEF AvatarFits
<1> QED BY <1>9, <1>12, <1>13, <1>14, <1>15, <1>16 DEF AuditInv

LEMMA TellsUserStep ==
  ASSUME AuditInv, NEW w \in AuditWorker, NEW ok \in BOOLEAN, TellsUser(w, ok)
  PROVE  AuditInv'
<1>1. PICK j : j = auditJob[w]
  OBVIOUS
<1>2. AuditTypes
  BY DEF AuditInv
<1>3. /\ j.op = "tell" /\ j.n \in TicketId /\ j.what \in Word
      /\ ticket[j.n].status = StatusOf(j.what) \/ Overlap(j.n, mixups)
  BY <1>1, <1>2, AuditJobParts DEF TellsUser, AuditInv, AuditTypes, JobsFit, JobFits,
     OnATicket
<1>4. /\ told' = IF ok THEN [told EXCEPT ![j.n] = @ \cup {j.what}] ELSE told
      /\ auditJob' = [auditJob EXCEPT ![w] = NoAuditJob]
      /\ UNCHANGED <<ticket, public, folderGone, mixups>>
  BY <1>1, Zenon DEF TellsUser, Continues
<1>5. /\ NoAuditJob \in AuditJob /\ JobFits(ticket, mixups, NoAuditJob)
      /\ NoAuditJob.op = "idle"
  BY DEF NoAuditJob, AuditJob, JobFits, OnATicket
<1>6. \A v \in AuditWorker : auditJob'[v] = IF v = w THEN NoAuditJob ELSE auditJob[v]
  BY <1>2, <1>4 DEF AuditTypes
<1>7. \A x \in TicketId :
        told'[x] = IF ok /\ x = j.n THEN told[x] \cup {j.what} ELSE told[x]
  BY <1>2, <1>3, <1>4 DEF AuditTypes
<1>8. told' \in [TicketId -> SUBSET Word]
  BY <1>2, <1>3, <1>4 DEF AuditTypes
<1>9. AuditTypes' /\ JobsFit'
  BY <1>2, <1>4, <1>5, <1>6, <1>8 DEF AuditInv, AuditTypes, JobsFit
<1>10. \A x \in TicketId : ToldFits(ticket', mixups', x, told'[x])
  <2> TAKE x \in TicketId
  <2>1. ToldFits(ticket, mixups, x, told[x])
    BY DEF AuditInv
  <2>2. CASE ok /\ x = j.n
    BY <1>3, <1>4, <1>7, <2>1, <2>2 DEF ToldFits, StatusOf, Word
  <2>3. CASE ~(ok /\ x = j.n)
    BY <1>4, <1>7, <2>1, <2>3
  <2> QED BY <2>2, <2>3
<1>11. AvatarsFit'
  BY <1>1, <1>3, <1>4, <1>6 DEF AuditInv, AvatarsFit, AvatarFits
<1> QED BY <1>4, <1>9, <1>10, <1>11 DEF AuditInv, TopicsLimited, Filed, Met

LEMMA FolderGoesStep ==
  ASSUME AuditInv, FolderGoes
  PROVE  AuditInv'
<1>1. /\ public' = [public EXCEPT !["cover"] = 0]
      /\ UNCHANGED <<ticket, told, mixups, auditJob>>
  BY DEF FolderGoes
<1>2. /\ public' \in [Picture -> {0, Foreign} \cup TicketId]
      /\ public'["avatar"] = public["avatar"] /\ public'["cover"] = 0
  BY <1>1 DEF AuditInv, AuditTypes, Picture
<1>3. 0 \notin TicketId
  BY AuditAssumption DEF TicketId
<1>4. \A k \in Picture : PublicFits(ticket', mixups', k, public'[k])
  BY <1>1, <1>2, <1>3 DEF AuditInv, PublicFits, Picture
<1> QED BY <1>1, <1>2, <1>4 DEF AuditInv, AuditTypes, JobsFit, AvatarsFit, AvatarFits,
           TopicsLimited, Filed, Met

-----------------------------------------------------------------------------

LEMMA WritesAvatarStep ==
  ASSUME AuditInv, WritesAvatar
  PROVE  AuditInv'
<1>1. PICK S \in SUBSET TicketId : S = {public["avatar"]} \cap TicketId
  OBVIOUS
<1>2. /\ public' = [public EXCEPT !["avatar"] = Foreign]
      /\ mixups' = mixups \cup {[kind |-> "replaced", of |-> x] : x \in S}
      /\ UNCHANGED <<ticket, told, auditJob>>
  BY <1>1, Zenon DEF WritesAvatar, Mixed
<1>3. AuditTypes /\ Foreign \notin TicketId
  BY AuditAssumption DEF AuditInv, TicketId, Foreign
<1>4. \A x \in S : [kind |-> "replaced", of |-> x] \in Mixup
  BY DEF Mixup
<1>5. mixups \subseteq mixups' /\ mixups' \subseteq Mixup
  BY <1>2, <1>3, <1>4 DEF AuditTypes
<1>6. /\ public' \in [Picture -> {0, Foreign} \cup TicketId]
      /\ public'["avatar"] = Foreign
      /\ \A k \in Picture : public'[k] \in {public[k], Foreign}
  BY <1>2, <1>3 DEF AuditTypes, Picture
<1>7. AuditTypes'
  BY <1>2, <1>3, <1>5, <1>6 DEF AuditTypes
<1>8. \A x \in TicketId : Moves(x) /\ (ticket[x] = NoTicket => ticket'[x] = ticket[x])
  BY <1>2 DEF Moves
<1>9. (\A k \in Picture : OneOf(ticket', mixups', k)) /\ TopicsLimited'
  BY <1>3, <1>5, <1>7, <1>8, NoneFiled DEF AuditInv
<1>10. JobsFit'
  BY <1>2, <1>3, <1>5, <1>7, <1>8, WhatStays DEF AuditInv, AuditTypes, JobsFit
<1>11. /\ \A k \in Picture : PublicFits(ticket', mixups', k, public'[k])
       /\ \A n \in TicketId : ToldFits(ticket', mixups', n, told'[n])
  BY <1>2, <1>3, <1>5, <1>6 DEF AuditInv, PublicFits, ToldFits, Overlap
<1>12. AvatarsFit'
  <2>1. SUFFICES ASSUME NEW n \in TicketId,
                        ticket[n].kind = "avatar", ticket[n].status = "normal"
                 PROVE  AvatarFits(n)'
    BY <1>2 DEF AvatarsFit
  <2>2. AvatarFits(n)
    BY <2>1 DEF AuditInv, AvatarsFit
  <2>3. CASE public["avatar"] >= n
    <3>1. public["avatar"] \in {0, Foreign} \cup TicketId /\ n \in Int /\ n > 0
      BY <1>3, AuditAssumption DEF AuditTypes, Picture, TicketId
    <3>2. public["avatar"] \in S
      BY <1>1, <2>3, <3>1 DEF Foreign
    <3>3. Replaced(public["avatar"], mixups')
      BY <1>2, <3>2 DEF Replaced
    <3> QED BY <2>3, <3>2, <3>3 DEF AvatarFits
  <2>4. CASE ~(public["avatar"] >= n)
    BY <1>2, <1>5, <2>2, <2>4 DEF AvatarFits, Failed, Overlap, Late, Replaced
  <2> QED BY <2>3, <2>4
<1> QED BY <1>7, <1>9, <1>10, <1>11, <1>12 DEF AuditInv

\* No other service writes a cover.
CoverOfTicket == public["cover"] \in {0} \cup TicketId

LEMMA CoverNext ==
  AuditInv /\ CoverOfTicket /\ [AuditNext]_auditVars => CoverOfTicket'
<1> SUFFICES ASSUME AuditInv, CoverOfTicket, [AuditNext]_auditVars PROVE CoverOfTicket'
  OBVIOUS
<1>1. public \in [Picture -> {0, Foreign} \cup TicketId] /\ "cover" # "avatar" /\ "cover" \in Picture
  BY DEF AuditInv, AuditTypes, Picture
<1>2. ASSUME NEW w \in AuditWorker, ApproveCover(w) PROVE CoverOfTicket'
  <2>1. auditJob[w].n \in TicketId
    BY <1>2, AuditJobParts DEF AuditInv, AuditTypes, ApproveCover, OnATicket
  <2>2. public' = [public EXCEPT !["cover"] = auditJob[w].n]
    BY <1>2, Zenon DEF ApproveCover
  <2> QED BY <1>1, <2>1, <2>2 DEF CoverOfTicket
<1>3. CASE FolderGoes
  BY <1>1, <1>3 DEF FolderGoes, CoverOfTicket
<1>4. CASE public' = public \/ \E n : public' = [public EXCEPT !["avatar"] = n]
  BY <1>1, <1>4 DEF CoverOfTicket
<1>5. \/ public' = public \/ \E n : public' = [public EXCEPT !["avatar"] = n]
      \/ FolderGoes \/ \E w \in AuditWorker : ApproveCover(w)
  BY Zenon DEF AuditNext, auditVars, SubmitReads, TopicChecks, SubmitCommits, TopicInserts,
     DecideReads, Begins, ApproveAvatar, ApproveCoverFails, ApproveTopic, Rejects,
     PublishAvatar, TellsUser, WritesAvatar
<1> QED BY <1>2, <1>3, <1>4, <1>5

LEMMA AuditInvInit == AuditInit => AuditInv
<1> SUFFICES ASSUME AuditInit PROVE AuditInv
  OBVIOUS
<1>1. \A n \in TicketId : ticket[n] = NoTicket /\ ticket[n].status = "none"
  BY DEF AuditInit, NoTicket
<1>2. AuditTypes
  BY <1>1 DEF AuditInit, AuditTypes, AuditJob, Ticket, NoTicket, AuditKind
<1>3. JobsFit
  BY DEF AuditInit, JobsFit, JobFits, NoAuditJob, OnATicket
<1>4. \A k \in Picture : OneOf(ticket, mixups, k) /\ PublicFits(ticket, mixups, k, public[k])
  <2>1. \A k \in Picture : OneOf(ticket, mixups, k)
    BY <1>1 DEF OneOf, WaitingIn
  <2>2. \A k \in Picture : public[k] = 0 /\ public[k] \notin TicketId
    BY DEF AuditInit, TicketId
  <2> QED BY <2>1, <2>2 DEF PublicFits
<1>5. (\A n \in TicketId : ToldFits(ticket, mixups, n, told[n])) /\ AvatarsFit
  BY <1>1 DEF AuditInit, ToldFits, AvatarsFit
<1>6. TopicsLimited
  <2>1. Filed("topic") = {}
    BY <1>1 DEF Filed
  <2> QED BY <2>1, FS_EmptySet, AuditAssumption DEF TopicsLimited
<1> QED BY <1>2, <1>3, <1>4, <1>5, <1>6 DEF AuditInv

LEMMA AuditInvNext == AuditInv /\ [AuditNext]_auditVars => AuditInv'
<1> SUFFICES ASSUME AuditInv, [AuditNext]_auditVars PROVE AuditInv'
  OBVIOUS
<1>1. CASE UNCHANGED auditVars
  BY <1>1 DEF auditVars, AuditInv, AuditTypes, JobsFit, AvatarsFit, AvatarFits,
     TopicsLimited, Filed, Met
<1>2. ASSUME NEW w \in AuditWorker,
             \/ \E kind \in Picture : SubmitReads(w, kind)
             \/ TopicChecks(w)
             \/ \E n \in TicketId :
                  SubmitCommits(w, n) \/ TopicInserts(w, n) \/ DecideReads(w, n)
             \/ ApproveAvatar(w) \/ ApproveCover(w) \/ ApproveCoverFails(w)
             \/ ApproveTopic(w) \/ Rejects(w)
             \/ \E ok \in BOOLEAN : PublishAvatar(w, ok) \/ TellsUser(w, ok)
      PROVE  AuditInv'
  BY <1>2, BeginsStep, SubmitCommitsStep, TopicInsertsStep, DecisionsStep,
     ApproveCoverFailsStep, PublishAvatarStep, TellsUserStep
<1>3. CASE FolderGoes \/ WritesAvatar
  BY <1>3, FolderGoesStep, WritesAvatarStep
<1> QED BY <1>1, <1>2, <1>3 DEF AuditNext

\* However many submissions and administrators are at work: one picture of a
\* kind waits, what is public was approved, the newest approved avatar is the
\* public one, users hear the decision their ticket has, and topics keep to
\* their limit, but for the mishaps the properties name.
THEOREM AuditsAreDecided == AuditSpec => []AuditsHold
<1>1. AuditInv /\ CoverOfTicket => AuditsHold
  <2> SUFFICES ASSUME AuditInv, CoverOfTicket PROVE AuditsHold
    OBVIOUS
  <2>1. \A n \in TicketId : ticket[n] \in Ticket
    BY DEF AuditInv, AuditTypes
  <2>2. OneWaits
    <3>1. SUFFICES ASSUME NEW k \in Picture, ~Met("two", k)
                   PROVE  Cardinality(WaitingIn(ticket, k)) <= 1
      BY <2>1 DEF OneWaits, Of, WaitingIn, Ticket
    <3>2. \A x, y \in WaitingIn(ticket, k) : x = y
      BY <3>1 DEF AuditInv, OneOf, Met
    <3>3. CASE WaitingIn(ticket, k) = {}
      BY <3>3, FS_EmptySet
    <3>4. CASE WaitingIn(ticket, k) # {}
      <4>1. PICK x \in WaitingIn(ticket, k) : WaitingIn(ticket, k) = {x}
        BY <3>2, <3>4
      <4> QED BY <4>1, FS_Singleton
    <3> QED BY <3>3, <3>4
  <2>3. PublicIsApproved
    <3>1. public["cover"] # Foreign
      BY AuditAssumption DEF CoverOfTicket, TicketId, Foreign
    <3> QED BY <2>1, <3>1 DEF AuditInv, PublicFits, PublicIsApproved, Met, Overlap, Ticket
  <2>4. AvatarIsNewest
    <3>1. SUFFICES ASSUME \A w \in AuditWorker : auditJob[w].op # "publish",
                          NEW n \in TicketId,
                          ticket[n] = [kind |-> "avatar", status |-> "normal"]
                   PROVE  \/ public["avatar"] >= n \/ Failed(n, mixups)
                          \/ \E x \in TicketId :
                               \/ Overlap(x, mixups) \/ Late(x, mixups)
                               \/ (x >= n /\ Replaced(x, mixups))
      BY Zenon DEF AvatarIsNewest, Of, Met, Overlap, Late, Failed, Replaced
    <3>2. AvatarFits(n)
      BY <3>1 DEF AuditInv, AvatarsFit
    <3> QED BY <3>1, <3>2 DEF AvatarFits
  <2>5. ToldTheTruth
    BY DEF AuditInv, ToldFits, ToldTheTruth, Met, Overlap
  <2> QED BY <2>2, <2>3, <2>4, <2>5 DEF AuditsHold, AuditInv
<1>2. AuditInit => CoverOfTicket
  BY DEF AuditInit, CoverOfTicket, Picture
<1> QED BY <1>1, <1>2, AuditInvInit, AuditInvNext, CoverNext, PTL DEF AuditSpec

-----------------------------------------------------------------------------
(* Reports and their review.                                               *)

OnAReport == {"file", "judge", "tell"}
OnAThing == {"count", "hide", "remote"}
ReportJob ==
  {NoReportJob}
    \cup [op : {"file"}, r : Report]
    \cup [op : OnAThing, t : Thing]
    \cup [op : {"judge", "tell"}, r : Report, decision : Decision, hide : BOOLEAN]

ReportTypes ==
  /\ kindOf \in [Thing -> Kind] /\ oneCount \in BOOLEAN
  /\ report \in [Report -> ReportStatus]
  /\ key \in [Report -> Nat]
  /\ shown \in [Thing -> {"shown", "hidden", "gone"}]
  /\ remote \subseteq Thing /\ flagged \subseteq Thing /\ ordered \subseteq Thing
  /\ asked \in [Report -> SUBSET Decision] /\ heard \in [Report -> SUBSET Decision]
  /\ mishaps \subseteq Mishap
  /\ reportJob \in [ReportWorker -> ReportJob]

\* The rows and keys of the tables that number together with that of r.
RowsIn(rep) == {r \in Report : rep[r] # "none"}
Together(r, x) == oneCount \/ TableOf(x) = TableOf(r)
\* Keys are distinct within what is numbered together, and run up to its size.
KeysFit(rep, keys) ==
  /\ IsFiniteSet(RowsIn(rep))
  /\ \A r \in RowsIn(rep) :
       /\ keys[r] <= Cardinality({x \in RowsIn(rep) : Together(r, x)})
       /\ \A x \in RowsIn(rep) : Together(r, x) /\ keys[x] = keys[r] => x = r

Strayed(r, m) == [kind |-> "stray", of |-> r] \in m
Overlaps(r, m) == [kind |-> "overlap", of |-> r] \in m
CutOff(t, m) == [kind |-> "cut", of |-> t] \in m
AstrayIn(t, rep, m) == \E r \in RowsIn(rep) : r[1] = t /\ Strayed(r, m)

\* What a review under way relies on.
ReviewFits(j, rep, sh, as, ord, m) ==
  /\ j.op \in {"judge", "tell"} => j.r \in RowsIn(rep)
  /\ j.op = "judge" => j.decision \in as[j.r] \/ Strayed(j.r, m)
  /\ j.op \in {"judge", "tell"} /\ j.hide = TRUE =>
       j.r[1] \in ord \/ AstrayIn(j.r[1], rep, m)
  /\ j.op = "tell" => rep[j.r] = j.decision \/ Overlaps(j.r, m)
  /\ j.op \in {"hide", "remote"} => j.t \in ord \/ AstrayIn(j.t, rep, m)
  /\ j.op = "remote" => kindOf[j.t] = "rpa" /\ sh[j.t] # "shown"
ReviewsFit ==
  \A w \in ReportWorker :
    ReviewFits(reportJob[w], report, shown, asked, ordered, mishaps)

StraysFit ==
  \A r \in Report : Strayed(r, mishaps) =>
    /\ r \in RowsIn(report) /\ ~oneCount
    /\ TableOf(r) = 1 => \E x \in RowsIn(report) : TableOf(x) > 1
DecidedAsAsked ==
  \A r \in RowsIn(report) :
    report[r] # "pending" => report[r] \in asked[r] \/ Strayed(r, mishaps)

\* Somebody is about to hide the thing, or to count its reports.
HidesNext(j, t) ==
  \/ j.op \in {"judge", "tell"} /\ j.hide = TRUE /\ j.r[1] = t
  \/ j.op = "hide" /\ j.t = t
CountsNext(j, t) == j.op = "count" /\ j.t = t
WillHide(t, jobs) == \E w \in ReportWorker : HidesNext(jobs[w], t)
WillCount(t, jobs) == \E w \in ReportWorker : CountsNext(jobs[w], t)

OrdersFit ==
  \A t \in Thing :
    /\ t \in ordered /\ Hideable(kindOf[t]) /\ shown[t] = "shown"
         => WillHide(t, reportJob) \/ AstrayIn(t, report, mishaps) \/ CutOff(t, mishaps)
    /\ shown[t] = "hidden" => Hideable(kindOf[t])
    /\ shown[t] = "hidden" \/ t \in remote
         => t \in ordered \/ AstrayIn(t, report, mishaps)
    /\ t \in remote => shown[t] # "shown" /\ Hideable(kindOf[t])
ReportsOn(rep, t) == {r \in RowsIn(rep) : r[1] = t}
ThresholdFits ==
  \A t \in Thing :
    Cardinality(ReportsOn(report, t)) >= Threshold /\ t \notin flagged
      => WillCount(t, reportJob) \/ CutOff(t, mishaps)
HeardFits ==
  \A r \in Report : heard[r] # {} =>
    \/ Overlaps(r, mishaps)
    \/ report[r] \in Decision /\ heard[r] = {report[r]}

ReportInv ==
  /\ ReportTypes /\ KeysFit(report, key) /\ ReviewsFit
  /\ StraysFit /\ DecidedAsAsked /\ OrdersFit /\ ThresholdFits /\ HeardFits

LEMMA ReportJobParts ==
  \A j \in ReportJob :
    /\ j.op \in OnAReport => j.r \in Report
    /\ j.op \in OnAThing => j.t \in Thing
    /\ j.op \in {"judge", "tell"} => j.decision \in Decision /\ j.hide \in BOOLEAN
BY DEF ReportJob, OnAReport, OnAThing, NoReportJob

LEMMA ThingOfReport == \A r \in Report : r[1] \in Thing
BY DEF Report

LEMMA TablesAreThree ==
  ASSUME ReportTypes
  PROVE  \A r \in Report : TableOf(r) \in 1 .. 3
BY ThingOfReport DEF ReportTypes, TableOf, Rank, Kind

\* A report filed: its key is one more than all it is numbered with.
LEMMA KeysAfterFiling ==
  ASSUME ReportTypes, KeysFit(report, key), NEW r \in Report, report[r] = "none",
         report' = [report EXCEPT ![r] = "pending"],
         key' = [key EXCEPT ![r] = NextKey(r)],
         UNCHANGED <<kindOf, oneCount>>
  PROVE  /\ KeysFit(report, key)' /\ key' \in [Report -> Nat]
         /\ RowsIn(report') = RowsIn(report) \cup {r}
         /\ r \notin RowsIn(report)
<1>1. RowsIn(report') = RowsIn(report) \cup {r} /\ r \notin RowsIn(report)
  BY DEF RowsIn, ReportTypes
<1>2. PICK R : R = RowsIn(report)
  OBVIOUS
<1>3. IsFiniteSet(R) /\ IsFiniteSet(R \cup {r}) /\ R \subseteq Report /\ r \notin R
  BY <1>1, <1>2, FS_AddElement DEF KeysFit, RowsIn
<1>4. \A x, y \in Report : Together(x, y) \in BOOLEAN /\ Together(x, y)' = Together(x, y)
  BY DEF Together, TableOf, ReportTypes
<1>5. PICK k : k = NextKey(r)
  OBVIOUS
<1>6. k = 1 + Cardinality({x \in R : Together(r, x)})
  BY <1>2, <1>5, Zenon DEF NextKey, Rows, RowsIn, Together
<1>7. \A x \in Report : key'[x] = IF x = r THEN k ELSE key[x]
  BY <1>5 DEF ReportTypes
<1>8. \A x \in Report :
        /\ IsFiniteSet({y \in R : Together(x, y)})
        /\ IsFiniteSet({y \in R \cup {r} : Together(x, y)})
        /\ Cardinality({y \in R : Together(x, y)}) \in Nat
        /\ Cardinality({y \in R \cup {r} : Together(x, y)}) \in Nat
        /\ Cardinality({y \in R : Together(x, y)})
             <= Cardinality({y \in R \cup {r} : Together(x, y)})
  <2> TAKE x \in Report
  <2>1. /\ {y \in R : Together(x, y)} \subseteq {y \in R \cup {r} : Together(x, y)}
        /\ {y \in R \cup {r} : Together(x, y)} \subseteq R \cup {r}
    OBVIOUS
  <2>2. IsFiniteSet({y \in R \cup {r} : Together(x, y)})
    BY <1>3, <2>1, FS_Subset
  <2>3. /\ IsFiniteSet({y \in R : Together(x, y)})
        /\ Cardinality({y \in R : Together(x, y)})
             <= Cardinality({y \in R \cup {r} : Together(x, y)})
    BY <2>1, <2>2, FS_Subset
  <2> QED BY <2>2, <2>3, FS_CardinalityType
<1>9. /\ {y \in R \cup {r} : Together(r, y)} = {y \in R : Together(r, y)} \cup {r}
      /\ r \notin {y \in R : Together(r, y)}
  BY <1>3 DEF Together
<1>10. Cardinality({y \in R \cup {r} : Together(r, y)}) = k
  <2>1. Cardinality({y \in R : Together(r, y)} \cup {r})
          = Cardinality({y \in R : Together(r, y)}) + 1
    BY <1>8, <1>9, FS_AddElement
  <2>2. k = 1 + Cardinality({y \in R : Together(r, y)})
    BY <1>6
  <2>3. PICK c \in Nat : c = Cardinality({y \in R : Together(r, y)})
    BY <1>8
  <2>4. Cardinality({y \in R \cup {r} : Together(r, y)})
          = Cardinality({y \in R : Together(r, y)} \cup {r})
    BY <1>9
  <2>5. Cardinality({y \in R \cup {r} : Together(r, y)}) = c + 1
    BY <2>1, <2>3, <2>4, Zenon
  <2>6. k = 1 + c
    BY <2>2, <2>3, Zenon
  <2> QED BY <2>5, <2>6
<1>11. k \in Nat
  <2>1. PICK c \in Nat : c = Cardinality({y \in R : Together(r, y)})
    BY <1>8
  <2> QED BY <1>6, <2>1
<1>12. \A x \in R : Together(x, r) =>
         {y \in R : Together(x, y)} = {y \in R : Together(r, y)}
  BY <1>3 DEF Together
<1>13. \A x \in R : key[x] \in Nat /\ key[x] <= Cardinality({y \in R : Together(x, y)})
  BY <1>2, <1>3 DEF KeysFit, ReportTypes
<1>14. \A x \in R : Together(x, r) \/ Together(r, x) => key[x] < k
  <2> TAKE x \in R
  <2> HAVE Together(x, r) \/ Together(r, x)
  <2>1. Together(x, r)
    BY DEF Together
  <2>2. {y \in R : Together(x, y)} = {y \in R : Together(r, y)}
    BY <1>12, <2>1
  <2>3. PICK c \in Nat : c = Cardinality({y \in R : Together(r, y)})
    BY <1>8
  <2> QED BY <1>6, <1>13, <2>2, <2>3
<1>15. ASSUME NEW x \in R \cup {r}
       PROVE  /\ key'[x] <= Cardinality({y \in R \cup {r} : Together(x, y)})
              /\ \A y \in R \cup {r} : Together(x, y) /\ key'[y] = key'[x] => y = x
  <2>1. key'[x] <= Cardinality({y \in R \cup {r} : Together(x, y)})
    <3>1. CASE x = r
      BY <1>7, <1>10, <1>11, <3>1
    <3>2. CASE x # r
      <4>1. PICK a, b \in Nat : /\ a = Cardinality({y \in R : Together(x, y)})
                                /\ b = Cardinality({y \in R \cup {r} : Together(x, y)})
                                /\ a <= b
        BY <1>3, <1>8, <3>2
      <4> QED BY <1>3, <1>7, <1>13, <3>2, <4>1
    <3> QED BY <3>1, <3>2
  <2>2. ASSUME NEW y \in R \cup {r}, Together(x, y), key'[y] = key'[x]
        PROVE  y = x
    <3>1. CASE x \in R /\ y \in R
      BY <1>2, <1>3, <1>7, <2>2, <3>1 DEF KeysFit
    <3>2. CASE x = r /\ y \in R
      BY <1>3, <1>7, <1>11, <1>13, <1>14, <2>2, <3>2
    <3>3. CASE x \in R /\ y = r
      BY <1>3, <1>7, <1>11, <1>13, <1>14, <2>2, <3>3
    <3> QED BY <3>1, <3>2, <3>3
  <2> QED BY <2>1, <2>2
<1>16. KeysFit(report, key)'
  <2>1. \A x \in R \cup {r} :
          {y \in R \cup {r} : Together(x, y)'} = {y \in R \cup {r} : Together(x, y)}
    BY <1>3, <1>4
  <2>2. R \cup {r} = RowsIn(report') /\ R \cup {r} \subseteq Report
    BY <1>1, <1>2, <1>3
  <2> QED BY <1>3, <1>4, <1>15, <2>1, <2>2, Zenon DEF KeysFit
<1>17. key' \in [Report -> Nat]
  BY <1>5, <1>11 DEF ReportTypes
<1> QED BY <1>1, <1>16, <1>17

\* The review finds a row with the key it looks for, and the one asked for
\* unless rows are numbered apart.
LEMMA FirstIsARow ==
  ASSUME ReportTypes, KeysFit(report, key), NEW r \in Rows
  PROVE  /\ FirstWith(key[r]) \in Rows
         /\ FirstWith(key[r]) # r =>
              /\ ~oneCount
              /\ \E x \in Rows : TableOf(x) > 1
<1>1. Rows = RowsIn(report) /\ Rows \subseteq Report
  BY DEF Rows, RowsIn
<1>2. \A x \in Rows : TableOf(x) \in 1 .. 3
  BY <1>1, TablesAreThree
<1>3. PICK k : k = key[r]
  OBVIOUS
<1>4. PICK f : f = FirstWith(k)
  OBVIOUS
<1>5. \E x \in Rows : /\ key[x] = k
                      /\ \A y \in Rows : key[y] = k => TableOf(x) <= TableOf(y)
  <2>1. CASE \E x \in Rows : key[x] = k /\ TableOf(x) = 1
    BY <1>2, <2>1
  <2>2. CASE /\ ~\E x \in Rows : key[x] = k /\ TableOf(x) = 1
             /\ \E x \in Rows : key[x] = k /\ TableOf(x) = 2
    BY <1>2, <2>2
  <2>3. CASE ~\E x \in Rows : key[x] = k /\ TableOf(x) \in {1, 2}
    BY <1>2, <1>3, <2>3
  <2> QED BY <2>1, <2>2, <2>3
<1>6. f \in Rows /\ key[f] = k
  BY <1>4, <1>5, Zenon DEF FirstWith
<1>7. f # r => ~Together(r, f)
  BY <1>1, <1>3, <1>6 DEF KeysFit
<1>8. f # r => ~oneCount /\ TableOf(f) # TableOf(r)
  BY <1>7 DEF Together
<1> QED BY <1>2, <1>3, <1>4, <1>6, <1>8

\* A step of one request: the others still fit, if nothing they rely on was
\* taken back.
LEMMA ReviewsStay ==
  ASSUME ReportTypes, ReviewsFit, NEW w \in ReportWorker, NEW job \in ReportJob,
         reportJob' = [reportJob EXCEPT ![w] = job], UNCHANGED kindOf,
         RowsIn(report) \subseteq RowsIn(report'),
         ordered \subseteq ordered', mishaps \subseteq mishaps',
         \A r \in Report : asked[r] \subseteq asked'[r],
         \A t \in Thing : shown[t] # "shown" => shown'[t] # "shown",
         \A r \in Report : report[r] \in Decision =>
           report'[r] = report[r] \/ Overlaps(r, mishaps'),
         ReviewFits(job, report', shown', asked', ordered', mishaps')
  PROVE  /\ ReviewsFit' /\ reportJob' \in [ReportWorker -> ReportJob]
         /\ \A v \in ReportWorker :
              reportJob'[v] = IF v = w THEN job ELSE reportJob[v]
<1>1. /\ reportJob' \in [ReportWorker -> ReportJob]
      /\ \A v \in ReportWorker : reportJob'[v] = IF v = w THEN job ELSE reportJob[v]
  BY DEF ReportTypes
<1>2. \A r \in Report :
        /\ Strayed(r, mishaps) => Strayed(r, mishaps')
        /\ Overlaps(r, mishaps) => Overlaps(r, mishaps')
  BY DEF Strayed, Overlaps
<1>3. \A t \in Thing :
        AstrayIn(t, report, mishaps) => AstrayIn(t, report', mishaps')
  BY <1>2 DEF AstrayIn, RowsIn
<1>4. ASSUME NEW v \in ReportWorker, v # w
      PROVE  ReviewFits(reportJob'[v], report', shown', asked', ordered', mishaps')
  <2>1. PICK j \in ReportJob : j = reportJob[v] /\ j = reportJob'[v]
    BY <1>1, <1>4 DEF ReportTypes
  <2>2. ReviewFits(j, report, shown, asked, ordered, mishaps)
    BY <2>1 DEF ReviewsFit
  <2>3. /\ j.op \in {"judge", "tell"} =>
             j.r \in Report /\ j.r[1] \in Thing /\ j.decision \in Decision
        /\ j.op \in {"hide", "remote"} => j.t \in Thing
    BY ReportJobParts, ThingOfReport DEF OnAReport, OnAThing
  <2>4. /\ j.op \in {"judge", "tell"} => j.r \in RowsIn(report')
        /\ j.op = "judge" => j.decision \in asked'[j.r] \/ Strayed(j.r, mishaps')
    BY <1>2, <2>2, <2>3 DEF ReviewFits
  <2>5. /\ j.op \in {"judge", "tell"} /\ j.hide = TRUE =>
             j.r[1] \in ordered' \/ AstrayIn(j.r[1], report', mishaps')
        /\ j.op \in {"hide", "remote"} =>
             j.t \in ordered' \/ AstrayIn(j.t, report', mishaps')
    BY <1>3, <2>2, <2>3 DEF ReviewFits
  <2>6. j.op = "tell" => report'[j.r] = j.decision \/ Overlaps(j.r, mishaps')
    BY <1>2, <2>2, <2>3 DEF ReviewFits
  <2>7. j.op = "remote" => kindOf[j.t] = "rpa" /\ shown'[j.t] # "shown"
    BY <2>2, <2>3 DEF ReviewFits
  <2> QED BY <2>1, <2>4, <2>5, <2>6, <2>7, Zenon DEF ReviewFits
<1> QED BY <1>1, <1>4, Zenon DEF ReviewsFit, ReviewFits

\* What the other requests will do, they still will.
LEMMA WillsStay ==
  ASSUME NEW w \in ReportWorker, NEW job,
         \A v \in ReportWorker : reportJob'[v] = IF v = w THEN job ELSE reportJob[v]
  PROVE  \A t \in Thing :
           /\ WillHide(t, reportJob) =>
                WillHide(t, reportJob') \/ HidesNext(reportJob[w], t)
           /\ WillCount(t, reportJob) =>
                WillCount(t, reportJob') \/ CountsNext(reportJob[w], t)
           /\ HidesNext(job, t) => WillHide(t, reportJob')
           /\ CountsNext(job, t) => WillCount(t, reportJob')
BY Zenon DEF WillHide, WillCount

\* A step that files nothing leaves the keys as they fit.
LEMMA KeysStay ==
  ASSUME KeysFit(report, key), RowsIn(report') = RowsIn(report),
         UNCHANGED <<key, kindOf, oneCount>>
  PROVE  KeysFit(report, key)'
<1>1. \A x, y \in Report : Together(x, y)' = Together(x, y)
  BY DEF Together, TableOf
<1>2. PICK R : R = RowsIn(report) /\ R = RowsIn(report')
  OBVIOUS
<1>3. R \subseteq Report
  BY <1>2 DEF RowsIn
<1>4. \A x \in R : {y \in R : Together(x, y)'} = {y \in R : Together(x, y)}
  BY <1>1, <1>3
<1> QED BY <1>1, <1>2, <1>3, <1>4, Zenon DEF KeysFit

LEMMA ReportArrivesKeeps ==
  ASSUME ReportInv, NEW w \in ReportWorker, NEW r \in Report, ReportArrives(w, r)
  PROVE  ReportInv'
<1> USE DEF ReportInv
<1>1. PICK job : job = [op |-> "file", r |-> r]
  OBVIOUS
<1>2. /\ reportJob' = [reportJob EXCEPT ![w] = job] /\ reportJob[w] = NoReportJob
      /\ UNCHANGED <<kindOf, oneCount, report, key, shown, remote, flagged, asked,
                     heard, ordered, mishaps>>
  BY <1>1, Zenon DEF ReportArrives, Received
<1>3. job \in ReportJob /\ job.op = "file"
  BY <1>1 DEF ReportJob
<1>4. ReviewFits(job, report', shown', asked', ordered', mishaps')
  BY <1>3 DEF ReviewFits
<1>5. /\ ReviewsFit' /\ reportJob' \in [ReportWorker -> ReportJob]
      /\ \A v \in ReportWorker : reportJob'[v] = IF v = w THEN job ELSE reportJob[v]
  <2>1. RowsIn(report') = RowsIn(report)
    BY <1>2
  <2> QED BY <1>2, <1>3, <1>4, <2>1, ReviewsStay
<1>6. \A t \in Thing : ~HidesNext(reportJob[w], t) /\ ~CountsNext(reportJob[w], t)
  BY <1>2 DEF HidesNext, CountsNext, NoReportJob
<1>7. \A t \in Thing : /\ WillHide(t, reportJob) => WillHide(t, reportJob')
                       /\ WillCount(t, reportJob) => WillCount(t, reportJob')
  BY <1>5, <1>6, WillsStay
<1>8. ReportTypes'
  BY <1>2, <1>5, Zenon DEF ReportTypes
<1>9. KeysFit(report, key)'
  BY <1>2, KeysStay
<1>10. StraysFit' /\ DecidedAsAsked' /\ HeardFits'
  BY <1>2, Zenon DEF StraysFit, DecidedAsAsked, HeardFits, TableOf
<1>11. OrdersFit'
  BY <1>2, <1>7 DEF OrdersFit
<1>12. ThresholdFits'
  BY <1>2, <1>7 DEF ThresholdFits
<1> QED BY <1>5, <1>8, <1>9, <1>10, <1>11, <1>12

LEMMA FiledInKeeps ==
  ASSUME ReportInv, NEW w \in ReportWorker, FiledIn(w)
  PROVE  ReportInv'
<1> USE DEF ReportInv
<1>1. PICK j : j = reportJob[w]
  OBVIOUS
<1>2. PICK r : r = j.r
  OBVIOUS
<1>3. j \in ReportJob /\ j.op = "file" /\ r \in Report
  BY <1>1, <1>2, ReportJobParts DEF FiledIn, ReportTypes, OnAReport
<1>4. UNCHANGED <<kindOf, oneCount, shown, remote, flagged, asked, heard, ordered,
                  mishaps>>
  BY Zenon DEF FiledIn, Goes
<1>5. \A t \in Thing : ~HidesNext(reportJob[w], t) /\ ~CountsNext(reportJob[w], t)
  BY <1>1, <1>3 DEF HidesNext, CountsNext
<1>6. CASE report[r] = "none"
  <2>1. PICK job : job = [op |-> "count", t |-> r[1]]
    OBVIOUS
  <2>2. /\ report' = [report EXCEPT ![r] = "pending"]
        /\ key' = [key EXCEPT ![r] = NextKey(r)]
        /\ reportJob' = [reportJob EXCEPT ![w] = job]
    BY <1>1, <1>2, <1>6, <2>1, Zenon DEF FiledIn, Goes
  <2>3. /\ KeysFit(report, key)' /\ key' \in [Report -> Nat]
        /\ RowsIn(report') = RowsIn(report) \cup {r} /\ r \notin RowsIn(report)
    BY <1>3, <1>4, <1>6, <2>2, KeysAfterFiling
  <2>4. job \in ReportJob /\ job.op = "count" /\ job.t = r[1] /\ r[1] \in Thing
    BY <1>3, <2>1, ThingOfReport DEF ReportJob, OnAThing
  <2>5. ReviewFits(job, report', shown', asked', ordered', mishaps')
    BY <2>4 DEF ReviewFits
  <2>6. \A x \in Report : report'[x] = IF x = r THEN "pending" ELSE report[x]
    BY <1>3, <2>2 DEF ReportTypes
  <2>7. /\ ReviewsFit' /\ reportJob' \in [ReportWorker -> ReportJob]
        /\ \A v \in ReportWorker : reportJob'[v] = IF v = w THEN job ELSE reportJob[v]
    <3>1. \A x \in Report : report[x] \in Decision => report'[x] = report[x]
      BY <1>6, <2>6 DEF Decision
    <3> QED BY <1>4, <2>2, <2>3, <2>4, <2>5, <3>1, ReviewsStay
  <2>8. \A t \in Thing : /\ WillHide(t, reportJob) => WillHide(t, reportJob')
                         /\ WillCount(t, reportJob) => WillCount(t, reportJob')
    BY <1>5, <2>7, WillsStay
  <2>9. WillCount(r[1], reportJob')
    <3>1. CountsNext(job, r[1])
      BY <2>4 DEF CountsNext
    <3> QED BY <2>4, <2>7, <3>1, WillsStay
  <2>10. ReportTypes'
    <3>1. report' \in [Report -> ReportStatus]
      BY <2>2 DEF ReportTypes, ReportStatus
    <3> QED BY <1>4, <2>3, <2>7, <3>1, Zenon DEF ReportTypes
  <2>11. StraysFit'
    BY <1>4, <2>3 DEF StraysFit, TableOf
  <2>12. DecidedAsAsked'
    <3>1. \A x \in RowsIn(report') : report'[x] # "pending" =>
            x \in RowsIn(report) /\ report'[x] = report[x]
      BY <1>3, <2>3, <2>6 DEF RowsIn
    <3> QED BY <1>4, <3>1 DEF DecidedAsAsked
  <2>13. OrdersFit'
    <3>1. \A t \in Thing :
            AstrayIn(t, report, mishaps) => AstrayIn(t, report', mishaps')
      BY <1>4, <2>3 DEF AstrayIn
    <3> QED BY <1>4, <2>8, <3>1 DEF OrdersFit
  <2>14. ThresholdFits'
    <3>1. \A t \in Thing : t # r[1] => ReportsOn(report', t) = ReportsOn(report, t)
      BY <2>3 DEF ReportsOn
    <3> QED BY <1>4, <2>8, <2>9, <3>1 DEF ThresholdFits
  <2>15. HeardFits'
    BY <1>4, <1>6, <2>6 DEF HeardFits, Decision
  <2> QED BY <2>3, <2>7, <2>10, <2>11, <2>12, <2>13, <2>14, <2>15
<1>7. CASE report[r] # "none"
  <2>1. /\ UNCHANGED <<report, key>>
        /\ reportJob' = [reportJob EXCEPT ![w] = NoReportJob]
    BY <1>1, <1>2, <1>7, Zenon DEF FiledIn, Goes
  <2>2. NoReportJob \in ReportJob /\ NoReportJob.op = "idle"
    BY DEF ReportJob, NoReportJob
  <2>3. ReviewFits(NoReportJob, report', shown', asked', ordered', mishaps')
    BY <2>2 DEF ReviewFits
  <2>4. RowsIn(report') = RowsIn(report)
    BY <2>1
  <2>5. /\ ReviewsFit' /\ reportJob' \in [ReportWorker -> ReportJob]
        /\ \A v \in ReportWorker :
             reportJob'[v] = IF v = w THEN NoReportJob ELSE reportJob[v]
    BY <1>4, <2>1, <2>2, <2>3, <2>4, ReviewsStay
  <2>6. \A t \in Thing : /\ WillHide(t, reportJob) => WillHide(t, reportJob')
                         /\ WillCount(t, reportJob) => WillCount(t, reportJob')
    BY <1>5, <2>5, WillsStay
  <2>7. ReportTypes'
    BY <1>4, <2>1, <2>5, Zenon DEF ReportTypes
  <2>8. KeysFit(report, key)'
    BY <1>4, <2>1, KeysStay
  <2>9. StraysFit' /\ DecidedAsAsked' /\ HeardFits'
    BY <1>4, <2>1, Zenon DEF StraysFit, DecidedAsAsked, HeardFits, TableOf
  <2>10. OrdersFit'
    BY <1>4, <2>1, <2>6 DEF OrdersFit
  <2>11. ThresholdFits'
    BY <1>4, <2>1, <2>6 DEF ThresholdFits
  <2> QED BY <2>5, <2>7, <2>8, <2>9, <2>10, <2>11
<1> QED BY <1>6, <1>7

LEMMA CountedKeeps ==
  ASSUME ReportInv, NEW w \in ReportWorker, Counted(w)
  PROVE  ReportInv'
<1> USE DEF ReportInv
<1>1. PICK j : j = reportJob[w]
  OBVIOUS
<1>2. PICK t : t = j.t
  OBVIOUS
<1>3. j \in ReportJob /\ j.op = "count" /\ t \in Thing
  BY <1>1, <1>2, ReportJobParts DEF Counted, ReportTypes, OnAThing
<1>4. /\ UNCHANGED <<kindOf, oneCount, report, key, shown, remote, asked, heard,
                     ordered, mishaps>>
      /\ reportJob' = [reportJob EXCEPT ![w] = NoReportJob]
      /\ flagged' = IF Reached(Cardinality(Reports(t))) THEN flagged \cup {t}
                    ELSE flagged
  BY <1>1, <1>2, Zenon DEF Counted, Goes
<1>5. NoReportJob \in ReportJob /\ NoReportJob.op = "idle"
  BY DEF ReportJob, NoReportJob
<1>6. ReviewFits(NoReportJob, report', shown', asked', ordered', mishaps')
  BY <1>5 DEF ReviewFits
<1>7. /\ ReviewsFit' /\ reportJob' \in [ReportWorker -> ReportJob]
      /\ \A v \in ReportWorker :
           reportJob'[v] = IF v = w THEN NoReportJob ELSE reportJob[v]
  <2>1. RowsIn(report') = RowsIn(report)
    BY <1>4
  <2> QED BY <1>4, <1>5, <1>6, <2>1, ReviewsStay
<1>8. \A x \in Thing : ~HidesNext(reportJob[w], x)
                       /\ (CountsNext(reportJob[w], x) => x = t)
  BY <1>1, <1>2, <1>3 DEF HidesNext, CountsNext
<1>9. \A x \in Thing :
        /\ WillHide(x, reportJob) => WillHide(x, reportJob')
        /\ WillCount(x, reportJob) /\ x # t => WillCount(x, reportJob')
  BY <1>7, <1>8, WillsStay
<1>10. ReportTypes'
  <2>1. flagged' \subseteq Thing
    BY <1>3, <1>4 DEF ReportTypes
  <2> QED BY <1>4, <1>7, <2>1, Zenon DEF ReportTypes
<1>11. KeysFit(report, key)'
  BY <1>4, KeysStay
<1>12. StraysFit' /\ DecidedAsAsked' /\ HeardFits'
  BY <1>4, Zenon DEF StraysFit, DecidedAsAsked, HeardFits, TableOf
<1>13. OrdersFit'
  BY <1>4, <1>9 DEF OrdersFit
<1>14. ThresholdFits'
  <2>1. Cardinality(ReportsOn(report, t)) >= Threshold => t \in flagged'
    <3>1. ReportsOn(report, t) = Reports(t)
      BY Zenon DEF ReportsOn, RowsIn, Reports, Rows
    <3> QED BY <1>4, <3>1 DEF Reached
  <2>2. flagged \subseteq flagged'
    BY <1>4
  <2> QED BY <1>4, <1>9, <2>1, <2>2 DEF ThresholdFits
<1> QED BY <1>7, <1>10, <1>11, <1>12, <1>13, <1>14

LEMMA ReviewArrivesKeeps ==
  ASSUME ReportInv, NEW w \in ReportWorker, NEW r \in Report,
         NEW d \in Decision, NEW h \in BOOLEAN, ReviewArrives(w, r, d, h)
  PROVE  ReportInv'
<1> USE DEF ReportInv
<1>1. PICK f : f = FirstWith(key[r])
  OBVIOUS
<1>2. PICK job : job = [op |-> "judge", r |-> f, decision |-> d, hide |-> h]
  OBVIOUS
<1>3. /\ f \in RowsIn(report) /\ f \in Report /\ r \in RowsIn(report)
      /\ f # r => ~oneCount /\ \E x \in RowsIn(report) : TableOf(x) > 1
  BY <1>1, FirstIsARow DEF ReviewArrives, Rows, RowsIn
<1>4. /\ UNCHANGED <<kindOf, oneCount, report, key, shown, remote, flagged, heard>>
      /\ reportJob' = [reportJob EXCEPT ![w] = job] /\ reportJob[w] = NoReportJob
      /\ asked' = [asked EXCEPT ![r] = @ \cup {d}]
      /\ ordered' = IF h THEN ordered \cup {r[1]} ELSE ordered
      /\ mishaps' = mishaps \cup
           {[kind |-> "stray", of |-> x] : x \in IF f = r THEN {} ELSE {r, f}}
  BY <1>1, <1>2, Zenon DEF ReviewArrives, Received, Happens
<1>5. /\ job \in ReportJob /\ job.op = "judge" /\ job.r = f /\ job.decision = d
      /\ job.hide = h
  BY <1>2, <1>3 DEF ReportJob
<1>6. /\ asked' \in [Report -> SUBSET Decision]
      /\ \A x \in Report : asked[x] \subseteq asked'[x]
      /\ d \in asked'[r]
  BY <1>4 DEF ReportTypes
<1>7. /\ ordered \subseteq ordered' /\ ordered' \subseteq Thing
      /\ h = TRUE => r[1] \in ordered'
      /\ \A t \in ordered' : t \notin ordered => t = r[1] /\ h = TRUE
  BY <1>4, ThingOfReport DEF ReportTypes
<1>8. /\ mishaps \subseteq mishaps' /\ mishaps' \subseteq Mishap
      /\ f # r => Strayed(r, mishaps') /\ Strayed(f, mishaps')
      /\ \A x \in Report : /\ Strayed(x, mishaps') /\ ~Strayed(x, mishaps)
                                => f # r /\ x \in {r, f}
                           /\ Overlaps(x, mishaps') => Overlaps(x, mishaps)
      /\ \A t \in Thing : CutOff(t, mishaps) => CutOff(t, mishaps')
  <2>1. CASE f = r
    <3>1. mishaps' = mishaps
      BY <1>4, <2>1
    <3> QED BY <2>1, <3>1 DEF ReportTypes
  <2>2. CASE f # r
    <3>1. mishaps' = mishaps \cup {[kind |-> "stray", of |-> r],
                                   [kind |-> "stray", of |-> f]}
      BY <1>4, <2>2
    <3>2. \A x \in Report : [kind |-> "stray", of |-> x] \in Mishap
      BY DEF Mishap
    <3> QED BY <1>3, <2>2, <3>1, <3>2 DEF ReportTypes, Strayed, Overlaps, CutOff
  <2> QED BY <2>1, <2>2
<1>9. \A t \in Thing : AstrayIn(t, report, mishaps) => AstrayIn(t, report', mishaps')
  BY <1>4, <1>8 DEF AstrayIn, Strayed
<1>10. ReviewFits(job, report', shown', asked', ordered', mishaps')
  <2>1. d \in asked'[f] \/ Strayed(f, mishaps')
    BY <1>6, <1>8
  <2>2. h = TRUE => f[1] \in ordered' \/ AstrayIn(f[1], report', mishaps')
    BY <1>3, <1>4, <1>7, <1>8 DEF AstrayIn
  <2> QED BY <1>3, <1>4, <1>5, <2>1, <2>2 DEF ReviewFits
<1>11. /\ ReviewsFit' /\ reportJob' \in [ReportWorker -> ReportJob]
       /\ \A v \in ReportWorker : reportJob'[v] = IF v = w THEN job ELSE reportJob[v]
  <2>1. RowsIn(report') = RowsIn(report)
    BY <1>4
  <2> QED BY <1>4, <1>5, <1>6, <1>7, <1>8, <1>10, <2>1, ReviewsStay
<1>12. \A t \in Thing : ~HidesNext(reportJob[w], t) /\ ~CountsNext(reportJob[w], t)
  BY <1>4 DEF HidesNext, CountsNext, NoReportJob
<1>13. \A t \in Thing : /\ WillHide(t, reportJob) => WillHide(t, reportJob')
                        /\ WillCount(t, reportJob) => WillCount(t, reportJob')
  BY <1>11, <1>12, WillsStay
<1>14. ReportTypes'
  BY <1>4, <1>6, <1>7, <1>8, <1>11, Zenon DEF ReportTypes
<1>15. KeysFit(report, key)'
  BY <1>4, KeysStay
<1>16. StraysFit'
  <2>1. \A x \in Report : TableOf(x)' = TableOf(x)
    BY <1>4 DEF TableOf
  <2>2. RowsIn(report') = RowsIn(report) /\ oneCount' = oneCount
    BY <1>4
  <2>3. \A x \in RowsIn(report) : x \in Report
    BY DEF RowsIn
  <2> QED BY <1>3, <1>8, <2>1, <2>2, <2>3 DEF StraysFit
<1>17. DecidedAsAsked'
  <2>1. \A x \in Report : Strayed(x, mishaps) => Strayed(x, mishaps')
    BY <1>8 DEF Strayed
  <2> QED BY <1>4, <1>6, <2>1 DEF DecidedAsAsked, RowsIn
<1>18. HeardFits'
  <2>1. \A x \in Report : Overlaps(x, mishaps) => Overlaps(x, mishaps')
    BY <1>8 DEF Overlaps
  <2> QED BY <1>4, <2>1 DEF HeardFits
<1>19. OrdersFit'
  <2>1. h = TRUE => WillHide(r[1], reportJob') \/ AstrayIn(r[1], report', mishaps')
    <3>1. CASE f = r
      <4>1. h = TRUE => HidesNext(job, r[1])
        BY <1>5, <3>1 DEF HidesNext
      <4> QED BY <1>11, <4>1, ThingOfReport, WillsStay
    <3>2. CASE f # r
      BY <1>3, <1>4, <1>8, <3>2 DEF AstrayIn
    <3> QED BY <3>1, <3>2
  <2> QED BY <1>4, <1>7, <1>8, <1>9, <1>13, <2>1 DEF OrdersFit
<1>20. ThresholdFits'
  BY <1>4, <1>8, <1>13 DEF ThresholdFits
<1> QED BY <1>11, <1>14, <1>15, <1>16, <1>17, <1>18, <1>19, <1>20

LEMMA JudgesKeeps ==
  ASSUME ReportInv, NEW w \in ReportWorker, Judges(w)
  PROVE  ReportInv'
<1> USE DEF ReportInv
<1>1. PICK j : j = reportJob[w]
  OBVIOUS
<1>2. PICK r, d, h : r = j.r /\ d = j.decision /\ h = j.hide
  OBVIOUS
<1>3. j \in ReportJob /\ j.op = "judge"
  BY <1>1 DEF Judges, ReportTypes
<1>4. r \in Report /\ d \in Decision /\ h \in BOOLEAN /\ r[1] \in Thing
  BY <1>2, <1>3, ReportJobParts, ThingOfReport DEF OnAReport
<1>5. PICK job : job = [j EXCEPT !.op = "tell"]
  OBVIOUS
<1>6. /\ UNCHANGED <<kindOf, oneCount, key, shown, remote, flagged, asked, heard,
                     ordered>>
      /\ reportJob' = [reportJob EXCEPT ![w] = job]
      /\ report' = [report EXCEPT ![r] = d]
      /\ mishaps' = mishaps \cup
           {[kind |-> "overlap", of |-> x] :
              x \in IF report[r] = "pending" THEN {} ELSE {r}}
  BY <1>1, <1>2, <1>5, Zenon DEF Judges, Goes, Happens
<1>7. j \in [op : {"judge", "tell"}, r : Report, decision : Decision, hide : BOOLEAN]
  BY <1>3 DEF ReportJob, OnAThing, NoReportJob
<1>8. /\ job \in ReportJob /\ job.op = "tell" /\ job.r = r /\ job.decision = d
      /\ job.hide = h
  BY <1>2, <1>5, <1>7 DEF ReportJob
<1>9. /\ r \in RowsIn(report)
      /\ d \in asked[r] \/ Strayed(r, mishaps)
      /\ h = TRUE => r[1] \in ordered \/ AstrayIn(r[1], report, mishaps)
  BY <1>1, <1>2, <1>3, <1>4 DEF ReviewsFit, ReviewFits
<1>10. \A x \in Report : report'[x] = IF x = r THEN d ELSE report[x]
  BY <1>4, <1>6 DEF ReportTypes
<1>11. /\ mishaps \subseteq mishaps' /\ mishaps' \subseteq Mishap
       /\ report[r] # "pending" => Overlaps(r, mishaps')
       /\ \A x \in Report :
            /\ Strayed(x, mishaps') <=> Strayed(x, mishaps)
            /\ Overlaps(x, mishaps) => Overlaps(x, mishaps')
       /\ \A t \in Thing : CutOff(t, mishaps) => CutOff(t, mishaps')
  <2>1. CASE report[r] = "pending"
    <3>1. mishaps' = mishaps
      BY <1>6, <2>1
    <3> QED BY <2>1, <3>1 DEF ReportTypes
  <2>2. CASE report[r] # "pending"
    <3>1. mishaps' = mishaps \cup {[kind |-> "overlap", of |-> r]}
      BY <1>6, <2>2
    <3>2. [kind |-> "overlap", of |-> r] \in Mishap
      BY <1>4 DEF Mishap
    <3> QED BY <2>2, <3>1, <3>2 DEF ReportTypes, Strayed, Overlaps, CutOff
  <2> QED BY <2>1, <2>2
<1>12. RowsIn(report') = RowsIn(report)
  <2>1. d # "none" /\ report[r] # "none"
    BY <1>4, <1>9 DEF RowsIn, Decision
  <2>2. \A x \in Report : report'[x] # "none" <=> report[x] # "none"
    BY <1>10, <2>1
  <2> QED BY <2>2 DEF RowsIn
<1>13. \A t \in Thing : AstrayIn(t, report', mishaps') <=> AstrayIn(t, report, mishaps)
  BY <1>11, <1>12 DEF AstrayIn, RowsIn
<1>14. ReviewFits(job, report', shown', asked', ordered', mishaps')
  <2>1. job.r \in RowsIn(report') /\ report'[job.r] = job.decision
    BY <1>4, <1>8, <1>9, <1>10, <1>12
  <2>2. job.hide = TRUE =>
          job.r[1] \in ordered' \/ AstrayIn(job.r[1], report', mishaps')
    BY <1>4, <1>6, <1>8, <1>9, <1>13
  <2> QED BY <1>8, <2>1, <2>2, Zenon DEF ReviewFits
<1>15. /\ ReviewsFit' /\ reportJob' \in [ReportWorker -> ReportJob]
       /\ \A v \in ReportWorker : reportJob'[v] = IF v = w THEN job ELSE reportJob[v]
  <2>1. \A x \in Report : report[x] \in Decision =>
          report'[x] = report[x] \/ Overlaps(x, mishaps')
    BY <1>10, <1>11 DEF Decision
  <2> QED BY <1>6, <1>8, <1>11, <1>12, <1>14, <2>1, ReviewsStay
<1>16. \A t \in Thing :
         /\ ~CountsNext(reportJob[w], t)
         /\ HidesNext(reportJob[w], t) => HidesNext(job, t)
  BY <1>1, <1>2, <1>3, <1>8 DEF HidesNext, CountsNext
<1>17. \A t \in Thing : /\ WillHide(t, reportJob) => WillHide(t, reportJob')
                        /\ WillCount(t, reportJob) => WillCount(t, reportJob')
  BY <1>15, <1>16, WillsStay
<1>18. ReportTypes'
  <2>1. report' \in [Report -> ReportStatus]
    BY <1>4, <1>6 DEF ReportTypes, ReportStatus, Decision
  <2> QED BY <1>6, <1>11, <1>15, <2>1, Zenon DEF ReportTypes
<1>19. KeysFit(report, key)'
  BY <1>6, <1>12, KeysStay
<1>20. StraysFit'
  <2>1. \A x \in Report : TableOf(x)' = TableOf(x)
    BY <1>6 DEF TableOf
  <2> QED BY <1>6, <1>11, <1>12, <2>1 DEF StraysFit, RowsIn
<1>21. DecidedAsAsked'
  BY <1>6, <1>9, <1>10, <1>11, <1>12 DEF DecidedAsAsked, RowsIn
<1>22. HeardFits'
  <2>1. \A x \in Report : x # r => report'[x] = report[x]
    BY <1>10
  <2>2. heard[r] # {} => Overlaps(r, mishaps')
    BY <1>4, <1>11 DEF HeardFits, Decision
  <2> QED BY <1>6, <1>11, <2>1, <2>2 DEF HeardFits
<1>23. OrdersFit'
  BY <1>6, <1>11, <1>13, <1>17 DEF OrdersFit
<1>24. ThresholdFits'
  <2>1. \A t \in Thing : ReportsOn(report', t) = ReportsOn(report, t)
    BY <1>12 DEF ReportsOn
  <2> QED BY <1>6, <1>11, <1>17, <2>1 DEF ThresholdFits
<1> QED BY <1>15, <1>18, <1>19, <1>20, <1>21, <1>22, <1>23, <1>24

LEMMA TellsReporterKeeps ==
  ASSUME ReportInv, NEW w \in ReportWorker, TellsReporter(w)
  PROVE  ReportInv'
<1> USE DEF ReportInv
<1>1. PICK j : j = reportJob[w]
  OBVIOUS
<1>2. PICK r, d, h : r = j.r /\ d = j.decision /\ h = j.hide
  OBVIOUS
<1>3. j \in ReportJob /\ j.op = "tell"
  BY <1>1 DEF TellsReporter, ReportTypes
<1>4. r \in Report /\ d \in Decision /\ h \in BOOLEAN /\ r[1] \in Thing
  BY <1>2, <1>3, ReportJobParts, ThingOfReport DEF OnAReport
<1>5. PICK job : job = IF h THEN [op |-> "hide", t |-> r[1]] ELSE NoReportJob
  OBVIOUS
<1>6. /\ UNCHANGED <<kindOf, oneCount, report, key, shown, remote, flagged, asked,
                     ordered, mishaps>>
      /\ reportJob' = [reportJob EXCEPT ![w] = job]
      /\ heard' \in {heard, [heard EXCEPT ![r] = @ \cup {d}]}
  BY <1>1, <1>2, <1>5, Zenon DEF TellsReporter, Goes
<1>7. /\ job \in ReportJob
      /\ h = TRUE => job.op = "hide" /\ job.t = r[1]
      /\ h = FALSE => job.op = "idle"
  <2>1. CASE h = TRUE
    BY <1>4, <1>5, <2>1 DEF ReportJob, OnAThing
  <2>2. CASE h = FALSE
    BY <1>5, <2>2 DEF ReportJob, NoReportJob
  <2> QED BY <1>4, <2>1, <2>2
<1>8. /\ report[r] = d \/ Overlaps(r, mishaps)
      /\ h = TRUE => r[1] \in ordered \/ AstrayIn(r[1], report, mishaps)
  BY <1>1, <1>2, <1>3, <1>4 DEF ReviewsFit, ReviewFits
<1>9. ReviewFits(job, report', shown', asked', ordered', mishaps')
  BY <1>4, <1>6, <1>7, <1>8 DEF ReviewFits
<1>10. /\ ReviewsFit' /\ reportJob' \in [ReportWorker -> ReportJob]
       /\ \A v \in ReportWorker : reportJob'[v] = IF v = w THEN job ELSE reportJob[v]
  <2>1. RowsIn(report') = RowsIn(report)
    BY <1>6
  <2> QED BY <1>6, <1>7, <1>9, <2>1, ReviewsStay
<1>11. \A t \in Thing :
         /\ ~CountsNext(reportJob[w], t)
         /\ HidesNext(reportJob[w], t) => HidesNext(job, t)
  BY <1>1, <1>2, <1>3, <1>7 DEF HidesNext, CountsNext
<1>12. \A t \in Thing : /\ WillHide(t, reportJob) => WillHide(t, reportJob')
                        /\ WillCount(t, reportJob) => WillCount(t, reportJob')
  BY <1>10, <1>11, WillsStay
<1>13. \A x \in Report : heard'[x] = heard[x] \/ (x = r /\ heard'[x] = heard[x] \cup {d})
  BY <1>4, <1>6 DEF ReportTypes
<1>14. ReportTypes'
  <2>1. heard' \in [Report -> SUBSET Decision]
    BY <1>4, <1>6 DEF ReportTypes
  <2> QED BY <1>6, <1>10, <2>1, Zenon DEF ReportTypes
<1>15. KeysFit(report, key)'
  BY <1>6, KeysStay
<1>16. StraysFit' /\ DecidedAsAsked'
  BY <1>6, Zenon DEF StraysFit, DecidedAsAsked, TableOf
<1>17. HeardFits'
  <2>1. ASSUME NEW x \in Report, heard'[x] # {}
        PROVE  Overlaps(x, mishaps) \/ (report[x] \in Decision /\ heard'[x] = {report[x]})
    <3>1. CASE heard'[x] = heard[x]
      BY <2>1, <3>1 DEF HeardFits
    <3>2. CASE x = r /\ heard'[x] = heard[x] \cup {d}
      BY <1>4, <1>8, <3>2 DEF HeardFits
    <3> QED BY <1>13, <3>1, <3>2
  <2> QED BY <1>6, <2>1 DEF HeardFits
<1>18. OrdersFit'
  BY <1>6, <1>12 DEF OrdersFit
<1>19. ThresholdFits'
  BY <1>6, <1>12 DEF ThresholdFits
<1> QED BY <1>10, <1>14, <1>15, <1>16, <1>17, <1>18, <1>19

LEMMA HidesKeeps ==
  ASSUME ReportInv, NEW w \in ReportWorker, Hides(w)
  PROVE  ReportInv'
<1> USE DEF ReportInv
<1>1. PICK j : j = reportJob[w]
  OBVIOUS
<1>2. PICK t : t = j.t
  OBVIOUS
<1>3. j \in ReportJob /\ j.op = "hide" /\ t \in Thing
  BY <1>1, <1>2, ReportJobParts DEF Hides, ReportTypes, OnAThing
<1>4. PICK job : job = IF kindOf[t] = "rpa" THEN [op |-> "remote", t |-> t]
                       ELSE NoReportJob
  OBVIOUS
<1>5. /\ UNCHANGED <<kindOf, oneCount, report, key, remote, flagged, asked, heard,
                     ordered, mishaps>>
      /\ reportJob' = [reportJob EXCEPT ![w] = job]
      /\ shown' = IF Hideable(kindOf[t]) /\ shown[t] = "shown"
                  THEN [shown EXCEPT ![t] = "hidden"] ELSE shown
  BY <1>1, <1>2, <1>4, Zenon DEF Hides, Goes
<1>6. /\ job \in ReportJob
      /\ kindOf[t] = "rpa" => job.op = "remote" /\ job.t = t
      /\ kindOf[t] # "rpa" => job.op = "idle"
  BY <1>3, <1>4 DEF ReportJob, OnAThing, NoReportJob
<1>7. t \in ordered \/ AstrayIn(t, report, mishaps)
  BY <1>1, <1>2, <1>3 DEF ReviewsFit, ReviewFits
<1>8. /\ shown' \in [Thing -> {"shown", "hidden", "gone"}]
      /\ \A x \in Thing : x # t => shown'[x] = shown[x]
      /\ Hideable(kindOf[t]) => shown'[t] # "shown"
      /\ shown'[t] = shown[t] \/ (shown'[t] = "hidden" /\ Hideable(kindOf[t]))
  BY <1>3, <1>5 DEF ReportTypes
<1>9. ReviewFits(job, report', shown', asked', ordered', mishaps')
  BY <1>3, <1>5, <1>6, <1>7, <1>8 DEF ReviewFits, Hideable
<1>10. /\ ReviewsFit' /\ reportJob' \in [ReportWorker -> ReportJob]
       /\ \A v \in ReportWorker : reportJob'[v] = IF v = w THEN job ELSE reportJob[v]
  <2>1. RowsIn(report') = RowsIn(report)
    BY <1>5
  <2>2. \A x \in Thing : shown[x] # "shown" => shown'[x] # "shown"
    BY <1>8
  <2> QED BY <1>5, <1>6, <1>9, <2>1, <2>2, ReviewsStay
<1>11. \A x \in Thing : ~CountsNext(reportJob[w], x)
                        /\ (HidesNext(reportJob[w], x) => x = t)
  BY <1>1, <1>2, <1>3 DEF HidesNext, CountsNext
<1>12. \A x \in Thing :
         /\ WillHide(x, reportJob) /\ x # t => WillHide(x, reportJob')
         /\ WillCount(x, reportJob) => WillCount(x, reportJob')
  BY <1>10, <1>11, WillsStay
<1>13. ReportTypes'
  BY <1>5, <1>8, <1>10, Zenon DEF ReportTypes
<1>14. KeysFit(report, key)'
  BY <1>5, KeysStay
<1>15. StraysFit' /\ DecidedAsAsked' /\ HeardFits'
  BY <1>5, Zenon DEF StraysFit, DecidedAsAsked, HeardFits, TableOf
<1>16. OrdersFit'
  BY <1>5, <1>7, <1>8, <1>12 DEF OrdersFit
<1>17. ThresholdFits'
  BY <1>5, <1>12 DEF ThresholdFits
<1> QED BY <1>10, <1>13, <1>14, <1>15, <1>16, <1>17

LEMMA HidesRemotelyKeeps ==
  ASSUME ReportInv, NEW w \in ReportWorker, HidesRemotely(w)
  PROVE  ReportInv'
<1> USE DEF ReportInv
<1>1. PICK j : j = reportJob[w]
  OBVIOUS
<1>2. PICK t : t = j.t
  OBVIOUS
<1>3. j \in ReportJob /\ j.op = "remote" /\ t \in Thing
  BY <1>1, <1>2, ReportJobParts DEF HidesRemotely, ReportTypes, OnAThing
<1>4. /\ UNCHANGED <<kindOf, oneCount, report, key, shown, flagged, asked, heard,
                     ordered, mishaps>>
      /\ reportJob' = [reportJob EXCEPT ![w] = NoReportJob]
      /\ remote' \in {remote, remote \cup {t}}
  BY <1>1, <1>2, Zenon DEF HidesRemotely, Goes
<1>5. NoReportJob \in ReportJob /\ NoReportJob.op = "idle"
  BY DEF ReportJob, NoReportJob
<1>6. ReviewFits(NoReportJob, report', shown', asked', ordered', mishaps')
  BY <1>5 DEF ReviewFits
<1>7. /\ ReviewsFit' /\ reportJob' \in [ReportWorker -> ReportJob]
      /\ \A v \in ReportWorker :
           reportJob'[v] = IF v = w THEN NoReportJob ELSE reportJob[v]
  <2>1. RowsIn(report') = RowsIn(report)
    BY <1>4
  <2> QED BY <1>4, <1>5, <1>6, <2>1, ReviewsStay
<1>8. \A x \in Thing : ~HidesNext(reportJob[w], x) /\ ~CountsNext(reportJob[w], x)
  BY <1>1, <1>3 DEF HidesNext, CountsNext
<1>9. \A x \in Thing : /\ WillHide(x, reportJob) => WillHide(x, reportJob')
                       /\ WillCount(x, reportJob) => WillCount(x, reportJob')
  BY <1>7, <1>8, WillsStay
<1>10. ReportTypes'
  <2>1. remote' \subseteq Thing
    BY <1>3, <1>4 DEF ReportTypes
  <2> QED BY <1>4, <1>7, <2>1, Zenon DEF ReportTypes
<1>11. KeysFit(report, key)'
  BY <1>4, KeysStay
<1>12. StraysFit' /\ DecidedAsAsked' /\ HeardFits'
  BY <1>4, Zenon DEF StraysFit, DecidedAsAsked, HeardFits, TableOf
<1>13. OrdersFit'
  <2>1. /\ t \in ordered \/ AstrayIn(t, report, mishaps)
        /\ kindOf[t] = "rpa" /\ shown[t] # "shown"
    BY <1>1, <1>2, <1>3 DEF ReviewsFit, ReviewFits
  <2>2. \A x \in remote' : x \in remote \/ x = t
    BY <1>4
  <2> QED BY <1>4, <1>9, <2>1, <2>2 DEF OrdersFit, Hideable
<1>14. ThresholdFits'
  BY <1>4, <1>9 DEF ThresholdFits
<1> QED BY <1>7, <1>10, <1>11, <1>12, <1>13, <1>14

LEMMA RequestEndsKeeps ==
  ASSUME ReportInv, NEW w \in ReportWorker, RequestEnds(w)
  PROVE  ReportInv'
<1> USE DEF ReportInv
<1>1. PICK j : j = reportJob[w]
  OBVIOUS
<1>2. PICK t : t = IF j.op \in {"judge", "tell"} THEN j.r[1] ELSE j.t
  OBVIOUS
<1>3. j \in ReportJob /\ j.op \in {"count", "judge", "tell", "hide"} /\ t \in Thing
  BY <1>1, <1>2, ReportJobParts, ThingOfReport
  DEF RequestEnds, ReportTypes, OnAThing, OnAReport
<1>4. /\ UNCHANGED <<kindOf, oneCount, report, key, shown, remote, flagged, asked,
                     heard, ordered>>
      /\ reportJob' = [reportJob EXCEPT ![w] = NoReportJob]
      /\ mishaps' = mishaps \cup {[kind |-> "cut", of |-> x] : x \in {t}}
  BY <1>1, <1>2, Zenon DEF RequestEnds, Goes, Happens
<1>5. NoReportJob \in ReportJob /\ NoReportJob.op = "idle"
  BY DEF ReportJob, NoReportJob
<1>6. ReviewFits(NoReportJob, report', shown', asked', ordered', mishaps')
  BY <1>5 DEF ReviewFits
<1>7. /\ mishaps \subseteq mishaps' /\ mishaps' \subseteq Mishap
      /\ CutOff(t, mishaps')
      /\ \A x \in Report :
           /\ Strayed(x, mishaps') <=> Strayed(x, mishaps)
           /\ Overlaps(x, mishaps) => Overlaps(x, mishaps')
      /\ \A x \in Thing : CutOff(x, mishaps) => CutOff(x, mishaps')
  <2>1. mishaps' = mishaps \cup {[kind |-> "cut", of |-> t]}
    BY <1>4
  <2>2. [kind |-> "cut", of |-> t] \in Mishap
    BY <1>3 DEF Mishap
  <2> QED BY <2>1, <2>2 DEF ReportTypes, Strayed, Overlaps, CutOff
<1>8. /\ ReviewsFit' /\ reportJob' \in [ReportWorker -> ReportJob]
      /\ \A v \in ReportWorker :
           reportJob'[v] = IF v = w THEN NoReportJob ELSE reportJob[v]
  <2>1. RowsIn(report') = RowsIn(report)
    BY <1>4
  <2> QED BY <1>4, <1>5, <1>6, <1>7, <2>1, ReviewsStay
<1>9. \A x \in Thing : HidesNext(reportJob[w], x) \/ CountsNext(reportJob[w], x) => x = t
  BY <1>1, <1>2, <1>3 DEF HidesNext, CountsNext
<1>10. \A x \in Thing :
         /\ WillHide(x, reportJob) /\ x # t => WillHide(x, reportJob')
         /\ WillCount(x, reportJob) /\ x # t => WillCount(x, reportJob')
  BY <1>8, <1>9, WillsStay
<1>11. \A x \in Thing : AstrayIn(x, report', mishaps') <=> AstrayIn(x, report, mishaps)
  BY <1>4, <1>7 DEF AstrayIn, RowsIn
<1>12. ReportTypes'
  BY <1>4, <1>7, <1>8, Zenon DEF ReportTypes
<1>13. KeysFit(report, key)'
  BY <1>4, KeysStay
<1>14. StraysFit'
  <2>1. \A x \in Report : TableOf(x)' = TableOf(x)
    BY <1>4 DEF TableOf
  <2> QED BY <1>4, <1>7, <2>1 DEF StraysFit, RowsIn
<1>15. DecidedAsAsked' /\ HeardFits'
  BY <1>4, <1>7 DEF DecidedAsAsked, HeardFits, RowsIn
<1>16. OrdersFit'
  BY <1>4, <1>7, <1>10, <1>11 DEF OrdersFit
<1>17. ThresholdFits'
  BY <1>4, <1>7, <1>10 DEF ThresholdFits
<1> QED BY <1>8, <1>12, <1>13, <1>14, <1>15, <1>16, <1>17

LEMMA ThingGoesKeeps ==
  ASSUME ReportInv, NEW t \in Thing, ThingGoes(t)
  PROVE  ReportInv'
<1> USE DEF ReportInv
<1>1. /\ UNCHANGED <<kindOf, oneCount, report, key, remote, flagged, asked, heard,
                     ordered, mishaps, reportJob>>
      /\ shown' = [shown EXCEPT ![t] = "gone"]
  BY Zenon DEF ThingGoes
<1>2. /\ shown' \in [Thing -> {"shown", "hidden", "gone"}]
      /\ \A x \in Thing : shown'[x] = IF x = t THEN "gone" ELSE shown[x]
  BY <1>1 DEF ReportTypes
<1>3. ReportTypes'
  BY <1>1, <1>2, Zenon DEF ReportTypes
<1>4. KeysFit(report, key)'
  BY <1>1, KeysStay
<1>5. StraysFit' /\ DecidedAsAsked' /\ HeardFits' /\ ThresholdFits'
  BY <1>1, Zenon DEF StraysFit, DecidedAsAsked, HeardFits, ThresholdFits, TableOf
<1>6. ReviewsFit'
  <2>1. ASSUME NEW w \in ReportWorker
        PROVE  ReviewFits(reportJob[w], report, shown', asked, ordered, mishaps)
    <3>1. PICK j \in ReportJob : j = reportJob[w]
      BY DEF ReportTypes
    <3>2. ReviewFits(j, report, shown, asked, ordered, mishaps)
      BY <3>1 DEF ReviewsFit
    <3>3. j.op = "remote" => j.t \in Thing
      BY ReportJobParts DEF OnAThing
    <3>4. j.op = "remote" => shown'[j.t] # "shown"
      BY <1>2, <3>2, <3>3 DEF ReviewFits
    <3> QED BY <3>1, <3>2, <3>4, Zenon DEF ReviewFits
  <2> QED BY <1>1, <2>1, Zenon DEF ReviewsFit, ReviewFits
<1>7. OrdersFit'
  BY <1>1, <1>2 DEF OrdersFit
<1> QED BY <1>3, <1>4, <1>5, <1>6, <1>7

LEMMA ReportInvInit == ReportsInit => ReportInv
<1> SUFFICES ASSUME ReportsInit PROVE ReportInv
  OBVIOUS
<1>1. RowsIn(report) = {}
  BY DEF RowsIn, ReportsInit
<1>2. ReportTypes
  BY DEF ReportsInit, ReportTypes, ReportStatus, ReportJob
<1>3. KeysFit(report, key)
  BY <1>1, FS_EmptySet DEF KeysFit
<1>4. mishaps = {} /\ ordered = {} /\ remote = {}
  BY DEF ReportsInit
<1>5. ReviewsFit
  <2>1. \A w \in ReportWorker : reportJob[w] = NoReportJob
    BY DEF ReportsInit
  <2> QED BY <2>1 DEF ReviewsFit, ReviewFits, NoReportJob
<1>6. StraysFit
  BY <1>4 DEF StraysFit, Strayed
<1>7. DecidedAsAsked
  BY <1>1 DEF DecidedAsAsked
<1>8. HeardFits
  BY DEF ReportsInit, HeardFits
<1>9. OrdersFit
  <2>1. \A t \in Thing : shown[t] = "shown"
    BY DEF ReportsInit
  <2> QED BY <1>4, <2>1 DEF OrdersFit
<1>10. ThresholdFits
  <2>1. \A t \in Thing : Cardinality(ReportsOn(report, t)) = 0
    <3>1. \A t \in Thing : ReportsOn(report, t) = {}
      BY <1>1 DEF ReportsOn
    <3> QED BY <3>1, FS_EmptySet
  <2> QED BY <2>1, ReportAssumption DEF ThresholdFits
<1> QED BY <1>2, <1>3, <1>5, <1>6, <1>7, <1>8, <1>9, <1>10 DEF ReportInv

LEMMA ReportInvNext == ReportInv /\ [ReportsNext]_reportVars => ReportInv'
<1> SUFFICES ASSUME ReportInv, [ReportsNext]_reportVars PROVE ReportInv'
  OBVIOUS
<1>1. ASSUME NEW w \in ReportWorker, NEW r \in Report, ReportArrives(w, r)
      PROVE  ReportInv'
  BY <1>1, ReportArrivesKeeps
<1>2. ASSUME NEW w \in ReportWorker, NEW r \in Report, NEW d \in Decision,
             NEW h \in BOOLEAN, ReviewArrives(w, r, d, h)
      PROVE  ReportInv'
  BY <1>2, ReviewArrivesKeeps
<1>3. ASSUME NEW w \in ReportWorker,
             FiledIn(w) \/ Counted(w) \/ Judges(w) \/ TellsReporter(w)
      PROVE  ReportInv'
  BY <1>3, FiledInKeeps, CountedKeeps, JudgesKeeps, TellsReporterKeeps
<1>4. ASSUME NEW w \in ReportWorker, Hides(w) \/ HidesRemotely(w) \/ RequestEnds(w)
      PROVE  ReportInv'
  BY <1>4, HidesKeeps, HidesRemotelyKeeps, RequestEndsKeeps
<1>5. ASSUME NEW t \in Thing, ThingGoes(t)
      PROVE  ReportInv'
  BY <1>5, ThingGoesKeeps
<1>6. CASE UNCHANGED reportVars
  <2>1. UNCHANGED <<kindOf, oneCount, report, key, shown, remote, flagged, asked,
                    heard, ordered, mishaps, reportJob>>
    BY <1>6 DEF reportVars
  <2>2. ReportTypes'
    BY <2>1, Zenon DEF ReportInv, ReportTypes
  <2>3. KeysFit(report, key)'
    BY <2>1, KeysStay DEF ReportInv
  <2>4. ReviewsFit'
    BY <2>1, Zenon DEF ReportInv, ReviewsFit, ReviewFits
  <2>5. StraysFit' /\ DecidedAsAsked' /\ HeardFits'
    BY <2>1, Zenon DEF ReportInv, StraysFit, DecidedAsAsked, HeardFits, TableOf
  <2>6. OrdersFit' /\ ThresholdFits'
    BY <2>1, Zenon DEF ReportInv, OrdersFit, ThresholdFits
  <2> QED BY <2>2, <2>3, <2>4, <2>5, <2>6, Zenon DEF ReportInv
<1> QED BY <1>1, <1>2, <1>3, <1>4, <1>5, <1>6, Zenon DEF ReportsNext

LEMMA ReportInvImplies == ReportInv => ReportsHold
<1> SUFFICES ASSUME ReportInv PROVE ReportsHold
  OBVIOUS
<1> USE DEF ReportInv
<1>1. /\ Rows = RowsIn(report)
      /\ \A x : Befell("stray", x) <=> Strayed(x, mishaps)
      /\ \A x : Befell("overlap", x) <=> Overlaps(x, mishaps)
      /\ \A x : Befell("cut", x) <=> CutOff(x, mishaps)
      /\ \A t \in Thing : /\ Reports(t) = ReportsOn(report, t)
                          /\ Astray(t) <=> AstrayIn(t, report, mishaps)
  BY DEF Rows, RowsIn, Befell, Strayed, Overlaps, CutOff, Reports, ReportsOn,
         Astray, AstrayIn
<1>2. \A t \in Thing : WillHide(t, reportJob) \/ WillCount(t, reportJob) => Underway(t)
  BY DEF WillHide, WillCount, HidesNext, CountsNext, Underway
<1>3. JudgedAsAsked
  BY <1>1 DEF JudgedAsAsked, StraysFit, DecidedAsAsked, RowsIn
<1>4. HiddenByOrder
  BY <1>1 DEF HiddenByOrder, OrdersFit
<1>5. OrderCarriedOut
  BY <1>1, <1>2 DEF OrderCarriedOut, OrdersFit
<1>6. ThresholdTold
  BY <1>1, <1>2 DEF ThresholdTold, ThresholdFits
<1>7. ReporterHearsDecision
  BY <1>1 DEF ReporterHearsDecision, HeardFits
<1> QED BY <1>3, <1>4, <1>5, <1>6, <1>7 DEF ReportsHold

\* Reports and their review (ReportService.report and review, report_reject,
\* report_resolved and hide): a report is decided as asked unless its key
\* finds another table's, nothing is hidden without an order and every order
\* is carried out unless a call failed, the threshold is told of, and a
\* reporter hears the decision the report has.
THEOREM ReportsAreDecided == ReportsSpec => []ReportsHold
<1>1. ReportsInit => ReportInv
  BY ReportInvInit
<1>2. ReportInv /\ [ReportsNext]_reportVars => ReportInv'
  BY ReportInvNext
<1>3. ReportInv => ReportsHold
  BY ReportInvImplies
<1> QED BY <1>1, <1>2, <1>3, PTL DEF ReportsSpec

-----------------------------------------------------------------------------
(* Experience, level and role.                                             *)

\* The experience a worker has written and is about to record.
AboutToRecord(gr) ==
  [w \in GrowthWorker |-> IF gr[w].at = "record" THEN gr[w].amount ELSE 0]

\* BeforeRecord and the sum in Booked, of given functions.
BeforeOf(gr) ==
  MapThenSumSet(LAMBDA w : IF gr[w].at = "record" THEN gr[w].amount ELSE 0,
                GrowthWorker)
BeforeBody(gr, g, s) ==
  IF s = {} THEN 0
  ELSE (IF gr[Chosen(s)].at = "record" THEN gr[Chosen(s)].amount ELSE 0)
         + g[s \ {Chosen(s)}]

LEMMA BeforeIsSum ==
  ASSUME NEW gr,
         AboutToRecord(gr) \in [GrowthWorker -> Nat]
  PROVE  BeforeOf(gr) = SumOf(AboutToRecord(gr), GrowthWorker)
<1> DEFINE Folds(g) == g = [s \in SUBSET GrowthWorker |-> BeforeBody(gr, g, s)]
<1>1. BeforeOf(gr) = (CHOOSE g : Folds(g))[GrowthWorker]
  BY Zenon DEF BeforeOf, MapThenSumSet, MapThenFoldSet, BeforeBody, Chosen
<1>2. \A g : Folds(g) <=> Sums(AboutToRecord(gr), g, GrowthWorker)
  <2>1. \A g : \A s \in SUBSET GrowthWorker :
          BeforeBody(gr, g, s) = SumBody(AboutToRecord(gr), g, s)
    BY ChosenIsIn DEF BeforeBody, SumBody, AboutToRecord
  <2> QED BY <2>1 DEF Sums
<1>3. \E g : Folds(g)
  BY <1>2, SumsExist, GrowthAssumption
<1>4. PICK g : g = CHOOSE x : Folds(x)
  OBVIOUS
<1>5. Folds(g) /\ BeforeOf(gr) = g[GrowthWorker]
  <2> HIDE DEF Folds
  <2> QED BY <1>1, <1>3, <1>4, Zenon
<1>6. Sums(AboutToRecord(gr), g, GrowthWorker)
  BY <1>2, <1>5
<1> QED BY <1>5, <1>6, SumIs, GrowthAssumption

\* The books, before and after a step, as sums.
LEMMA BooksAreSums ==
  /\ BeforeRecord = BeforeOf(grower) /\ BeforeRecord' = BeforeOf(grower')
  /\ Booked = DailyExp * SumOf(daily, LoginDay) + granted
  /\ Booked' = DailyExp * SumOf(daily', LoginDay) + granted'
<1>1. BeforeRecord = BeforeOf(grower)
  BY Zenon DEF BeforeRecord, BeforeOf
<1>2. BeforeRecord' = BeforeOf(grower')
  BY Zenon DEF BeforeRecord, BeforeOf, MapThenSumSet, MapThenFoldSet
<1>3. Booked = DailyExp * SumOf(daily, LoginDay) + granted
  BY Zenon DEF Booked, SumOf
<1>4. Booked' = DailyExp * SumOf(daily', LoginDay) + granted'
  BY Zenon DEF Booked, SumOf, MapThenSumSet, MapThenFoldSet, LoginDay
<1> QED BY <1>1, <1>2, <1>3, <1>4

GrowerRec ==
  [op : {"none", "daily", "grant", "unrecorded", "role"},
   at : {"check", "read", "write", "record", "role", "save", "done"},
   day : LoginDay, amount : Nat, exp : Nat, level : Level, role : Role]

GrowthTypes ==
  /\ exp \in Nat /\ granted \in Nat /\ offBooks \in Nat /\ highestSet \in Nat
  /\ level \in Level /\ role \in Role /\ apart \in BOOLEAN
  /\ daily \in [LoginDay -> Nat] /\ loginDay \in LoginDay
  /\ grower \in [GrowthWorker -> GrowerRec]
  /\ unsure \subseteq {"overlap", "stop", "set"}

\* What a request is at each point of its way.
GrowersFit ==
  \A w \in GrowthWorker :
    /\ grower[w].at \in {"check", "read", "write"}
         => grower[w].op \in {"daily", "grant", "unrecorded"}
    /\ grower[w].at = "record" => grower[w].op \in {"daily", "grant"}
    /\ grower[w].op = "daily" => grower[w].amount = DailyExp

\* The experience of the account, and what a request has read of it.
Total == highestSet + Booked + BeforeRecord + offBooks
ExpFits ==
  /\ exp <= Total
  /\ \A w \in GrowthWorker : grower[w].at = "write" => grower[w].exp <= Total
  /\ unsure = {} => exp = Booked + BeforeRecord + offBooks

\* One request at a time: what it has looked at is still so.
SerialFits ==
  "overlap" \notin unsure =>
    /\ \A v, w \in GrowthWorker :
         grower[v].at # "done" /\ grower[w].at # "done" => v = w
    /\ \A w \in GrowthWorker :
         /\ grower[w].op = "daily" /\ grower[w].at \in {"read", "write", "record"}
              => daily[grower[w].day] = 0
         /\ grower[w].at = "write" => grower[w].exp = exp /\ grower[w].level = level
         /\ grower[w].at = "save" => role # Root
    /\ \A d \in LoginDay : daily[d] <= 1

\* From the write of a level on, its role is on the way; and as long as nobody
\* sets one of the two alone, they belong together.
Serial == "overlap" \notin unsure /\ "stop" \notin unsure
Mends(g) == g.at = "record" \/ (g.at \in {"role", "save"} /\ g.op # "role")
RolesFit ==
  Serial =>
    /\ \A w \in GrowthWorker :
         /\ Mends(grower[w]) => grower[w].role = LevelRole(level) /\ level = LevelOf(exp)
         /\ grower[w].at = "record" =>
              /\ level = LevelOf(grower[w].exp + grower[w].amount)
              /\ ~apart => grower[w].level <= level /\ role = LevelRole(grower[w].level)
    /\ ~apart =>
         /\ level = LevelOf(exp) /\ role # Root
         /\ role = LevelRole(level) \/ \E w \in GrowthWorker : Mends(grower[w])

GrowthInv == GrowthTypes /\ GrowersFit /\ ExpFits /\ SerialFits /\ RolesFit

LEMMA RolesDiffer ==
  /\ Admin # Root /\ Admin \in Role /\ Root \in Role
  /\ \A l \in Level : LevelRole(l) \in Role /\ LevelRole(l) # Admin
                      /\ LevelRole(l) # Root
BY DEF Admin, Root, LevelRole, Role

LEMMA LevelsGrow ==
  /\ \A e \in Nat : LevelOf(e) \in Level
  /\ \A e, f \in Nat : e <= f => LevelOf(e) <= LevelOf(f)
  /\ LevelOf(0) = 0
<1> DEFINE Attained(e) == {l \in Level : \A k \in 1 .. l : e >= LevelNeeds[k]}
<1>1. ASSUME NEW e \in Nat
      PROVE  LevelOf(e) \in Attained(e) /\ \A l \in Attained(e) : l <= LevelOf(e)
  <2>1. PICK A : A = Attained(e)
    OBVIOUS
  <2>2. A \subseteq Level /\ 0 \in A
    BY <2>1, GrowthAssumption DEF Level
  <2>3. IsFiniteSet(Level)
    BY GrowthAssumption, FS_Interval DEF Level
  <2>4. \A l \in Level : l \in Nat
    BY DEF Level
  <2> DEFINE Above(n) == {x \in A : x > n}
             B == {Above(n) : n \in A}
  <2>5. B \subseteq SUBSET Level /\ B # {}
    BY <2>2
  <2>6. PICK T \in B : \A U \in B : ~(U \subseteq T /\ U # T)
    <3> HIDE DEF B
    <3> QED BY <2>3, <2>5, SmallestIsThere
  <2>7. PICK n \in A : T = Above(n)
    BY <2>6
  <2>8. ASSUME NEW x \in A, x > n
        PROVE  FALSE
    <3>1. Above(x) \subseteq Above(n) /\ x \in Above(n) /\ x \notin Above(x)
      <4>1. x \in Nat /\ n \in Nat /\ \A y \in A : y \in Nat
        BY <2>2, <2>4
      <4>2. \A y \in A : y > x => y > n
        BY <2>8, <4>1
      <4>3. ~(x > x)
        BY <4>1
      <4> QED BY <2>8, <4>2, <4>3
    <3>2. Above(x) \in B
      OBVIOUS
    <3> QED BY <2>6, <2>7, <3>1, <3>2
  <2>9. \A x \in A : n >= x
    BY <2>2, <2>4, <2>8
  <2>10. LevelOf(e) = Max(A)
    BY <2>1, Zenon DEF LevelOf
  <2>11. Max(A) \in A /\ \A x \in A : Max(A) >= x
    BY <2>9, Zenon DEF Max
  <2>12. \A x \in A : x <= Max(A)
    BY <2>2, <2>4, <2>11
  <2> QED BY <2>1, <2>10, <2>11, <2>12
<1>2. \A e \in Nat : LevelOf(e) \in Level
  BY <1>1
<1>3. ASSUME NEW e \in Nat, NEW f \in Nat, e <= f
      PROVE  LevelOf(e) <= LevelOf(f)
  <2>1. \A k \in 1 .. MaxLevel : LevelNeeds[k] \in Nat
    BY GrowthAssumption
  <2>2. \A l \in Level : \A k \in 1 .. l : k \in 1 .. MaxLevel
    BY GrowthAssumption DEF Level
  <2>3. \A l \in Attained(e) : \A k \in 1 .. l : f >= LevelNeeds[k]
    BY <1>3, <2>1, <2>2
  <2>4. LevelOf(e) \in Attained(f)
    BY <1>1, <2>3
  <2> QED BY <1>1, <2>4
<1>4. LevelOf(0) = 0
  <2>1. PICK l \in Level : l = LevelOf(0) /\ \A k \in 1 .. l : 0 >= LevelNeeds[k]
    BY <1>1
  <2>2. l \in Nat /\ l <= MaxLevel /\ MaxLevel \in Nat
    BY GrowthAssumption DEF Level
  <2>3. CASE l # 0
    <3>1. 1 \in 1 .. l /\ 1 \in 1 .. MaxLevel
      BY <2>2, <2>3
    <3>2. LevelNeeds[1] \in Nat \ {0}
      BY <3>1, GrowthAssumption
    <3> QED BY <2>1, <3>1, <3>2
  <2> QED BY <2>1, <2>3
<1> QED BY <1>2, <1>3, <1>4

Amount(g) == IF g.at = "record" THEN g.amount ELSE 0

LEMMA DaysEnd == IsFiniteSet(LoginDay)
<1>1. 0 \in Int /\ LastLoginDay \in Int
  BY GrowthAssumption
<1>2. IsFiniteSet(0 .. LastLoginDay)
  BY <1>1, FS_Interval
<1> QED BY <1>2 DEF LoginDay

\* The books change with the request that makes the step.
LEMMA BooksChange ==
  ASSUME GrowthTypes, GrowthTypes', NEW w \in GrowthWorker,
         \A v \in GrowthWorker : v # w => grower'[v] = grower[v]
  PROVE  /\ Booked \in Nat /\ Booked' \in Nat
         /\ BeforeRecord \in Nat /\ BeforeRecord' \in Nat
         /\ Amount(grower[w]) \in Nat /\ Amount(grower'[w]) \in Nat
         /\ BeforeRecord' + Amount(grower[w]) = BeforeRecord + Amount(grower'[w])
         /\ daily' = daily => Booked' + granted = Booked + granted'
         /\ \A d \in LoginDay : daily' = [daily EXCEPT ![d] = @ + 1]
              => Booked' + granted = Booked + granted' + DailyExp
<1>1. /\ \A v \in GrowthWorker : grower[v] \in GrowerRec /\ grower'[v] \in GrowerRec
      /\ \A g \in GrowerRec : Amount(g) \in Nat
  BY DEF GrowthTypes, GrowerRec, Amount
<1>2. PICK f, e : f = AboutToRecord(grower) /\ e = AboutToRecord(grower')
  OBVIOUS
<1>3. /\ f \in [GrowthWorker -> Nat] /\ e \in [GrowthWorker -> Nat]
      /\ \A v \in GrowthWorker : f[v] = Amount(grower[v]) /\ e[v] = Amount(grower'[v])
  BY <1>1, <1>2 DEF AboutToRecord, Amount
<1>4. BeforeRecord = SumOf(f, GrowthWorker) /\ BeforeRecord' = SumOf(e, GrowthWorker)
  BY <1>2, <1>3, BeforeIsSum, BooksAreSums
<1>5. \A v \in GrowthWorker \ {w} : e[v] = f[v]
  BY <1>3
<1>6. /\ SumOf(e, GrowthWorker) + f[w] = SumOf(f, GrowthWorker) + e[w]
      /\ SumOf(e, GrowthWorker) \in Nat /\ SumOf(f, GrowthWorker) \in Nat
  <2>1. IsFiniteSet(GrowthWorker) /\ GrowthWorker \in SUBSET GrowthWorker
    BY GrowthAssumption
  <2>2. SumOf(e, GrowthWorker) + f[w] = SumOf(f, GrowthWorker) + e[w]
    BY <1>3, <1>5, <2>1, SumChanges
  <2> QED BY <1>3, <2>1, <2>2, SumStep
<1>7. IsFiniteSet(LoginDay)
  BY DaysEnd
<1>8. daily \in [LoginDay -> Nat] /\ daily' \in [LoginDay -> Nat]
      /\ granted \in Nat /\ granted' \in Nat
  BY DEF GrowthTypes
<1>9. PICK s, t \in Nat : s = SumOf(daily, LoginDay) /\ t = SumOf(daily', LoginDay)
  BY <1>7, <1>8, SumStep
<1>10. DailyExp \in Nat
  BY GrowthAssumption
<1>11. Booked = DailyExp * s + granted /\ Booked' = DailyExp * t + granted'
  BY <1>9, BooksAreSums
<1>12. DailyExp * s \in Nat /\ DailyExp * t \in Nat
  BY <1>9, <1>10
<1>13. ASSUME NEW d \in LoginDay, daily' = [daily EXCEPT ![d] = @ + 1]
       PROVE  t = s + 1
  <2>1. daily'[d] = daily[d] + 1 /\ \A x \in LoginDay \ {d} : daily'[x] = daily[x]
    BY <1>8, <1>13
  <2>2. t + daily[d] = s + daily'[d]
    BY <1>7, <1>8, <1>9, <2>1, SumChanges
  <2> QED BY <1>8, <2>1, <2>2
<1>14. t = s + 1 => DailyExp * t = DailyExp * s + DailyExp
  BY <1>9, <1>10
<1>15. daily' = daily => t = s
  BY <1>9
<1>16. PICK a, b \in Nat : a = DailyExp * s /\ b = DailyExp * t
  BY <1>12
<1>17. Booked = a + granted /\ Booked' = b + granted'
  BY <1>11, <1>16
<1>18. daily' = daily => b = a
  BY <1>15, <1>16
<1>19. \A d \in LoginDay : daily' = [daily EXCEPT ![d] = @ + 1] => b = a + DailyExp
  BY <1>13, <1>14, <1>16
<1>20. Booked \in Nat /\ Booked' \in Nat
  BY <1>8, <1>16, <1>17
<1>21. /\ daily' = daily => Booked' + granted = Booked + granted'
       /\ \A d \in LoginDay : daily' = [daily EXCEPT ![d] = @ + 1]
            => Booked' + granted = Booked + granted' + DailyExp
  <2>1. PICK x, y \in Nat : x = granted /\ y = granted'
    BY <1>8
  <2>2. PICK z \in Nat : z = DailyExp
    BY <1>10
  <2>3. b = a => Booked' + granted = Booked + granted'
    BY <1>17, <2>1
  <2>4. b = a + DailyExp => Booked' + granted = Booked + granted' + DailyExp
    BY <1>17, <2>1, <2>2
  <2> QED BY <1>18, <1>19, <2>3, <2>4, Zenon
<1>22. /\ BeforeRecord \in Nat /\ BeforeRecord' \in Nat
       /\ BeforeRecord' + Amount(grower[w]) = BeforeRecord + Amount(grower'[w])
  BY <1>3, <1>4, <1>6
<1> QED BY <1>1, <1>20, <1>21, <1>22

\* A step of one request that moves no experience.
LEMMA QuietStep ==
  ASSUME GrowthInv, GrowthTypes', NEW w \in GrowthWorker,
         \A v \in GrowthWorker : v # w => grower'[v] = grower[v],
         grower[w].at # "record", grower'[w].at # "record",
         grower'[w].at = "write" => grower'[w].exp = exp /\ grower'[w].level = level,
         UNCHANGED <<daily, granted, offBooks, highestSet, exp, level>>,
         unsure \subseteq unsure'
  PROVE  ExpFits'
<1>1. Booked' = Booked /\ BeforeRecord' = BeforeRecord
  <2>1. Amount(grower[w]) = 0 /\ Amount(grower'[w]) = 0
    BY DEF Amount
  <2>2. /\ Booked \in Nat /\ Booked' \in Nat
        /\ BeforeRecord \in Nat /\ BeforeRecord' \in Nat
        /\ BeforeRecord' + 0 = BeforeRecord + 0
        /\ Booked' + granted = Booked + granted
    BY <2>1, BooksChange DEF GrowthInv
  <2>3. PICK a, b, c, d, n \in Nat :
          /\ a = Booked /\ b = Booked' /\ c = BeforeRecord /\ d = BeforeRecord'
          /\ n = granted
    BY <2>2 DEF GrowthInv, GrowthTypes
  <2>4. b + n = a + n /\ d + 0 = c + 0
    BY <2>2, <2>3, Zenon
  <2>5. b = a /\ d = c
    BY <2>4
  <2> QED BY <2>3, <2>5, Zenon
<1>2. Total' = Total
  BY <1>1 DEF Total
<1> QED BY <1>1, <1>2 DEF ExpFits, GrowthInv

LEMMA OpensKeeps ==
  ASSUME GrowthInv, NEW w \in GrowthWorker, NEW req \in GrowerRec, Opens(w, req),
         req.at \in {"check", "read", "role"}, req.at = "role" <=> req.op = "role",
         req.op # "none", req.op = "daily" => req.amount = DailyExp /\ req.at = "check"
  PROVE  GrowthInv'
<1> USE DEF GrowthInv
<1>0. /\ UNCHANGED <<exp, level, daily, granted, role, loginDay, offBooks, highestSet,
                     apart>>
      /\ grower' = [grower EXCEPT ![w] = req] /\ grower[w].at = "done"
      /\ unsure' = unsure \cup {} \cup {x \in {"overlap"} : \E v \in GrowthWorker : Busy(v)}
  BY Zenon DEF Opens, Arrives, Unbooked, Busy
<1>1. /\ UNCHANGED <<exp, level, daily, granted, role, loginDay, offBooks, highestSet,
                     apart>>
      /\ grower' = [grower EXCEPT ![w] = req] /\ grower[w].at = "done"
      /\ unsure' = unsure \cup {x \in {"overlap"} : \E v \in GrowthWorker : Busy(v)}
  BY <1>0
<1>2. \A v \in GrowthWorker : grower'[v] = IF v = w THEN req ELSE grower[v]
  BY <1>1 DEF GrowthTypes
<1>3. GrowthTypes'
  <2>1. unsure' \subseteq {"overlap", "stop", "set"}
    BY <1>1 DEF GrowthTypes
  <2>2. grower' \in [GrowthWorker -> GrowerRec]
    BY <1>1 DEF GrowthTypes
  <2> QED BY <1>1, <2>1, <2>2, Zenon DEF GrowthTypes
<1>4. unsure \subseteq unsure'
  BY <1>1
<1>5. GrowersFit'
  BY <1>2 DEF GrowersFit, GrowerRec
<1>6. ExpFits'
  BY <1>1, <1>2, <1>3, <1>4, QuietStep
<1>7. "overlap" \notin unsure' =>
        "overlap" \notin unsure /\ \A v \in GrowthWorker : grower[v].at = "done"
  BY <1>1 DEF Busy
<1>8. SerialFits'
  BY <1>1, <1>2, <1>7 DEF SerialFits
<1>9. RolesFit'
  <2> SUFFICES ASSUME Serial' PROVE RolesFit'
    BY DEF RolesFit
  <2>1. Serial /\ \A v \in GrowthWorker : grower[v].at = "done"
    BY <1>4, <1>7 DEF Serial
  <2>2. \A v \in GrowthWorker : ~Mends(grower[v]) /\ ~Mends(grower'[v])
                                /\ grower'[v].at # "record"
    BY <1>2, <2>1 DEF Mends
  <2>3. ~apart => level = LevelOf(exp) /\ role # Root /\ role = LevelRole(level)
    BY <2>1, <2>2 DEF RolesFit
  <2> QED BY <1>1, <2>2, <2>3 DEF RolesFit
<1> QED BY <1>3, <1>5, <1>6, <1>8, <1>9

LEMMA RestingFits ==
  /\ Resting \in GrowerRec /\ Resting.at = "done" /\ Resting.op = "none"
  /\ Resting.day = 0 /\ Resting.level = 0 /\ Resting.exp = 0 /\ Resting.amount = 0
<1>1. 0 \in LoginDay /\ 0 \in Level
  BY GrowthAssumption DEF LoginDay, Level
<1> QED BY <1>1, RolesDiffer DEF Resting, GrowerRec

LEMMA RequestsKeep ==
  ASSUME GrowthInv, NEW w \in GrowthWorker, Login(w) \/ Grant(w) \/ SetRole(w)
  PROVE  GrowthInv'
<1>1. PICK rest : rest = Resting
  OBVIOUS
<1>2. rest \in GrowerRec
  BY <1>1, RestingFits
<1>3. DailyExp \in Nat /\ GrantExp \in Nat /\ loginDay \in LoginDay
  BY GrowthAssumption DEF GrowthInv, GrowthTypes
<1>4. CASE Login(w)
  <2>1. PICK req : req = [rest EXCEPT !.op = "daily", !.at = "check",
                                      !.day = loginDay, !.amount = DailyExp]
    OBVIOUS
  <2>2. Opens(w, req)
    BY <1>1, <1>4, <2>1, Zenon DEF Login
  <2>3. req \in GrowerRec /\ req.op = "daily" /\ req.at = "check"
        /\ req.amount = DailyExp
    BY <1>2, <1>3, <2>1 DEF GrowerRec
  <2> QED BY <2>2, <2>3, OpensKeeps
<1>5. CASE Grant(w)
  <2>1. PICK op \in {"grant", "unrecorded"} :
          Opens(w, [Resting EXCEPT !.op = op, !.at = "read", !.amount = GrantExp])
    BY <1>5, Zenon DEF Grant
  <2>2. PICK req : req = [rest EXCEPT !.op = op, !.at = "read", !.amount = GrantExp]
    OBVIOUS
  <2>3. Opens(w, req)
    BY <1>1, <2>1, <2>2, Zenon
  <2>4. req \in GrowerRec /\ req.op = op /\ req.at = "read"
    BY <1>2, <1>3, <2>2 DEF GrowerRec
  <2> QED BY <2>3, <2>4, OpensKeeps
<1>6. CASE SetRole(w)
  <2>1. PICK r \in Role :
          Opens(w, [Resting EXCEPT !.op = "role", !.at = "role", !.role = r])
    BY <1>6, Zenon DEF SetRole
  <2>2. PICK req : req = [rest EXCEPT !.op = "role", !.at = "role", !.role = r]
    OBVIOUS
  <2>3. Opens(w, req)
    BY <1>1, <2>1, <2>2, Zenon
  <2>4. req \in GrowerRec /\ req.op = "role" /\ req.at = "role" /\ req.role = r
    BY <1>2, <2>2, RolesDiffer DEF GrowerRec
  <2> QED BY <2>3, <2>4, OpensKeeps
<1> QED BY <1>4, <1>5, <1>6

LEMMA CheckKeeps ==
  ASSUME GrowthInv, NEW w \in GrowthWorker, Check(w)
  PROVE  GrowthInv'
<1> USE DEF GrowthInv
<1>1. PICK g : g = grower[w]
  OBVIOUS
<1>2. PICK h : h = IF Rewarded(g.day) THEN Resting ELSE [g EXCEPT !.at = "read"]
  OBVIOUS
<1>3. /\ UNCHANGED <<exp, level, daily, granted, role, loginDay, offBooks, highestSet,
                     apart, unsure>>
      /\ g.at = "check"
      /\ grower' = [grower EXCEPT ![w] = h]
  <2>1. CASE Rewarded(g.day)
    BY <1>1, <1>2, <2>1, Zenon DEF Check, Unbooked, Ends
  <2>2. CASE ~Rewarded(g.day)
    <3>1. grower' = [grower EXCEPT ![w].at = "read"]
      BY <1>1, <2>2, Zenon DEF Check, Proceeds
    <3>2. grower' = [grower EXCEPT ![w] = h]
      BY <1>1, <1>2, <2>2, <3>1 DEF GrowthTypes
    <3> QED BY <1>1, <3>2, Zenon DEF Check, Unbooked
  <2> QED BY <2>1, <2>2
<1>4. g \in GrowerRec /\ h \in GrowerRec
  <2>1. g \in GrowerRec
    BY <1>1 DEF GrowthTypes
  <2> QED BY <1>2, <2>1, RestingFits DEF GrowerRec
<1>5. /\ \/ h.at = "done" /\ h.op = "none"
         \/ h.at = "read" /\ h.op = g.op /\ h.day = g.day /\ daily[g.day] = 0
      /\ h.op = g.op => h.amount = g.amount
      /\ g.op \in {"daily", "grant", "unrecorded"}
      /\ h.op # "role"
  <2>1. daily[g.day] \in Nat
    BY <1>4 DEF GrowerRec, GrowthTypes
  <2>2. g.op \in {"daily", "grant", "unrecorded"}
    BY <1>1, <1>3 DEF GrowersFit
  <2>3. CASE Rewarded(g.day)
    BY <1>2, <2>2, <2>3, RestingFits
  <2>4. CASE ~Rewarded(g.day)
    <3>1. daily[g.day] = 0
      BY <2>1, <2>4 DEF Rewarded
    <3> QED BY <1>2, <1>4, <2>2, <2>4, <3>1 DEF GrowerRec
  <2> QED BY <2>3, <2>4
<1>6. \A v \in GrowthWorker : grower'[v] = IF v = w THEN h ELSE grower[v]
  BY <1>3 DEF GrowthTypes
<1>7. GrowthTypes'
  <2>1. grower' \in [GrowthWorker -> GrowerRec]
    BY <1>3, <1>4 DEF GrowthTypes
  <2> QED BY <1>3, <2>1, Zenon DEF GrowthTypes
<1>8. GrowersFit'
  BY <1>1, <1>4, <1>5, <1>6 DEF GrowersFit, GrowerRec
<1>9. ExpFits'
  BY <1>1, <1>3, <1>5, <1>6, <1>7, QuietStep
<1>10. SerialFits'
  BY <1>1, <1>3, <1>5, <1>6 DEF SerialFits
<1>11. RolesFit'
  <2>1. ~Mends(g) /\ ~Mends(h) /\ h.at # "record"
    BY <1>3, <1>5 DEF Mends
  <2> QED BY <1>1, <1>3, <1>6, <2>1 DEF RolesFit, Serial
<1> QED BY <1>7, <1>8, <1>9, <1>10, <1>11

LEMMA ReadLevelKeeps ==
  ASSUME GrowthInv, NEW w \in GrowthWorker, ReadLevel(w)
  PROVE  GrowthInv'
<1> USE DEF GrowthInv
<1>1. PICK g : g = grower[w]
  OBVIOUS
<1>2. PICK h : h = [g EXCEPT !.exp = exp, !.level = level, !.at = "write"]
  OBVIOUS
<1>3. /\ UNCHANGED <<exp, level, daily, granted, role, loginDay, offBooks, highestSet,
                     apart, unsure>>
      /\ g.at = "read"
  BY <1>1, Zenon DEF ReadLevel, Unbooked
<1>4. g \in GrowerRec
  BY <1>1 DEF GrowthTypes
<1>5. /\ h \in GrowerRec /\ h.at = "write" /\ h.exp = exp /\ h.level = level
      /\ h.op = g.op /\ h.day = g.day /\ h.amount = g.amount /\ h.role = g.role
  BY <1>2, <1>4 DEF GrowerRec, GrowthTypes
<1>6. grower' = [grower EXCEPT ![w] = h]
  <2>1. grower' = [grower EXCEPT ![w].exp = exp, ![w].level = level, ![w].at = "write"]
    BY Zenon DEF ReadLevel
  <2> QED BY <1>1, <1>2, <1>4, <2>1 DEF GrowthTypes, GrowerRec
<1>7. \A v \in GrowthWorker : grower'[v] = IF v = w THEN h ELSE grower[v]
  BY <1>6 DEF GrowthTypes
<1>8. GrowthTypes'
  <2>1. grower' \in [GrowthWorker -> GrowerRec]
    BY <1>5, <1>6 DEF GrowthTypes
  <2> QED BY <1>3, <2>1, Zenon DEF GrowthTypes
<1>9. GrowersFit'
  BY <1>1, <1>3, <1>5, <1>7 DEF GrowersFit
<1>10. ExpFits'
  BY <1>1, <1>3, <1>5, <1>7, <1>8, QuietStep
<1>11. SerialFits'
  BY <1>1, <1>3, <1>5, <1>7 DEF SerialFits
<1>12. RolesFit'
  <2>1. ~Mends(g) /\ ~Mends(h)
    BY <1>3, <1>5 DEF Mends
  <2> QED BY <1>1, <1>3, <1>5, <1>7, <2>1 DEF RolesFit, Serial
<1> QED BY <1>8, <1>9, <1>10, <1>11, <1>12

LEMMA WriteLevelKeeps ==
  ASSUME GrowthInv, NEW w \in GrowthWorker, WriteLevel(w)
  PROVE  GrowthInv'
<1> USE DEF GrowthInv
<1>1. PICK g : g = grower[w]
  OBVIOUS
<1>2. PICK new, l : new = g.exp + g.amount /\ l = LevelOf(new)
  OBVIOUS
<1>3. PICK at : at = IF g.op = "unrecorded" THEN IF l > g.level THEN "role" ELSE "done"
                     ELSE "record"
  OBVIOUS
<1>4. PICK h : h = [g EXCEPT !.at = at, !.role = LevelRole(l)]
  OBVIOUS
<1>5. /\ UNCHANGED <<daily, granted, role, loginDay, highestSet, apart, unsure>>
      /\ g.at = "write" /\ exp' = new /\ level' = l
      /\ offBooks' = offBooks + IF g.op = "unrecorded" THEN g.amount ELSE 0
  BY <1>1, <1>2, Zenon DEF WriteLevel
<1>6. g \in GrowerRec /\ g.exp \in Nat /\ g.amount \in Nat /\ g.level \in Level
      /\ g.op \in {"daily", "grant", "unrecorded"}
  BY <1>1, <1>5 DEF GrowthTypes, GrowersFit, GrowerRec
<1>7. new \in Nat /\ l \in Level /\ LevelRole(l) \in Role
  BY <1>2, <1>6, LevelsGrow, RolesDiffer
<1>8. /\ h \in GrowerRec /\ h.at = at /\ h.role = LevelRole(l)
      /\ h.op = g.op /\ h.day = g.day /\ h.amount = g.amount
      /\ h.exp = g.exp /\ h.level = g.level
  BY <1>3, <1>4, <1>6, <1>7 DEF GrowerRec
<1>9. grower' = [grower EXCEPT ![w] = h]
  <2>1. grower' = [grower EXCEPT
            ![w].at = IF grower[w].op = "unrecorded" THEN AfterRecord(w, grower[w].level)
                      ELSE "record",
            ![w].role = LevelRole(LevelOf(grower[w].exp + grower[w].amount))]
    BY Zenon DEF WriteLevel
  <2>2. AfterRecord(w, g.level) = IF l > g.level THEN "role" ELSE "done"
    BY <1>1, <1>2, Zenon DEF AfterRecord
  <2>3. grower' = [grower EXCEPT ![w].at = at, ![w].role = LevelRole(l)]
    BY <1>1, <1>2, <1>3, <2>1, <2>2, Zenon
  <2> QED BY <1>1, <1>4, <1>6, <2>3 DEF GrowthTypes, GrowerRec
<1>10. \A v \in GrowthWorker : grower'[v] = IF v = w THEN h ELSE grower[v]
  BY <1>9 DEF GrowthTypes
<1>11. GrowthTypes'
  <2>1. grower' \in [GrowthWorker -> GrowerRec]
    BY <1>8, <1>9 DEF GrowthTypes
  <2>2. offBooks' \in Nat
    BY <1>5, <1>6 DEF GrowthTypes
  <2> QED BY <1>5, <1>7, <2>1, <2>2, Zenon DEF GrowthTypes
<1>12. GrowersFit'
  BY <1>1, <1>3, <1>6, <1>8, <1>10 DEF GrowersFit
<1>13. ExpFits'
  <2>1. /\ Booked \in Nat /\ Booked' \in Nat /\ BeforeRecord \in Nat
        /\ BeforeRecord' \in Nat
        /\ BeforeRecord' + Amount(g) = BeforeRecord + Amount(h)
        /\ Booked' + granted = Booked + granted
    BY <1>1, <1>5, <1>10, <1>11, BooksChange
  <2>2. Amount(g) = 0 /\ Amount(h) = IF at = "record" THEN g.amount ELSE 0
    BY <1>5, <1>8 DEF Amount
  <2>3. granted \in Nat /\ offBooks \in Nat /\ highestSet \in Nat /\ exp \in Nat
    BY DEF GrowthTypes
  <2>4. Booked' = Booked
    <3>1. PICK a, b, n \in Nat : a = Booked /\ b = Booked' /\ n = granted
      BY <2>1, <2>3
    <3>2. b + n = a + n
      BY <2>1, <3>1, Zenon
    <3>3. b = a
      BY <3>2
    <3> QED BY <3>1, <3>3, Zenon
  <2>5. BeforeRecord' + offBooks' = BeforeRecord + offBooks + g.amount
    BY <1>3, <1>5, <1>6, <2>1, <2>2, <2>3
  <2>6. PICK T \in Nat : T = Total
    BY <2>1, <2>3 DEF Total
  <2>7. offBooks' \in Nat /\ highestSet' = highestSet
    BY <1>5, <1>11 DEF GrowthTypes
  <2>8. Total' = T + g.amount
    BY <1>6, <2>1, <2>3, <2>4, <2>5, <2>6, <2>7 DEF Total
  <2>9. new <= Total'
    <3>1. g.exp <= T
      BY <1>1, <1>5, <2>6 DEF ExpFits
    <3> QED BY <1>2, <1>6, <2>6, <2>8, <3>1
  <2>10. \A v \in GrowthWorker : grower'[v].at = "write" => grower'[v].exp <= Total'
    <3>1. \A v \in GrowthWorker : grower'[v].at = "write" =>
            v # w /\ grower'[v] = grower[v] /\ grower[v].exp <= T
      BY <1>3, <1>8, <1>10, <2>6 DEF ExpFits
    <3>2. \A v \in GrowthWorker : grower[v].exp \in Nat
      BY DEF GrowthTypes, GrowerRec
    <3> QED BY <1>6, <2>6, <2>8, <3>1, <3>2
  <2>11. unsure = {} => /\ new = Booked' + BeforeRecord' + offBooks'
                        /\ \A v \in GrowthWorker : grower'[v].at # "write"
    <3> SUFFICES ASSUME unsure = {}
                 PROVE  /\ new = Booked' + BeforeRecord' + offBooks'
                        /\ \A v \in GrowthWorker : grower'[v].at # "write"
      OBVIOUS
    <3>1. g.exp = Booked + BeforeRecord + offBooks
      BY <1>1, <1>5 DEF ExpFits, SerialFits
    <3>2. new = Booked' + BeforeRecord' + offBooks'
      BY <1>2, <1>6, <2>1, <2>3, <2>4, <2>5, <2>7, <3>1
    <3>3. \A v \in GrowthWorker : grower[v].at = "write" => v = w
      BY <1>1, <1>5 DEF SerialFits
    <3> QED BY <1>3, <1>8, <1>10, <3>2, <3>3
  <2> QED BY <1>2, <1>5, <1>7, <2>9, <2>10, <2>11 DEF ExpFits, Level
<1>14. SerialFits'
  BY <1>1, <1>3, <1>5, <1>8, <1>10 DEF SerialFits
<1>15. RolesFit'
  <2> SUFFICES ASSUME Serial PROVE RolesFit'
    BY <1>5 DEF RolesFit, Serial
  <2>1. \A v \in GrowthWorker : v # w => grower[v].at = "done"
    BY <1>1, <1>5 DEF SerialFits, Serial
  <2>2. \A v \in GrowthWorker : ~Mends(grower[v])
    BY <1>1, <1>5, <2>1 DEF Mends
  <2>3. ~apart => level = LevelOf(exp) /\ role # Root /\ role = LevelRole(level)
    BY <2>2 DEF RolesFit
  <2>4. g.level = level /\ g.exp = exp
    BY <1>1, <1>5 DEF SerialFits, Serial
  <2>5. level \in Nat /\ l \in Nat /\ LevelOf(exp) <= l
    <3>1. LevelOf(exp) <= l
      BY <1>2, <1>6, <1>7, <2>4, LevelsGrow
    <3> QED BY <1>6, <1>7, <2>4, <3>1 DEF Level
  <2>6. ~Mends(h) /\ ~apart => role = LevelRole(l)
    <3>1. ~Mends(h) => at = "done" /\ ~(l > level)
      BY <1>3, <1>6, <1>8, <2>4 DEF Mends
    <3>2. ~apart /\ ~(l > level) => l = level
      BY <2>3, <2>5
    <3> QED BY <2>3, <3>1, <3>2
  <2>7. \A v \in GrowthWorker : v # w => ~Mends(grower'[v]) /\ grower'[v].at # "record"
    BY <1>10, <2>1 DEF Mends
  <2>8. grower'[w] = h
    BY <1>10
  <2>9. /\ l = LevelOf(h.exp + h.amount) /\ h.role = LevelRole(l)
        /\ ~apart => h.level <= l /\ role = LevelRole(h.level)
    BY <1>2, <1>8, <2>3, <2>4, <2>5
  <2>10. level' = l /\ exp' = new /\ l = LevelOf(new) /\ role' = role /\ apart' = apart
    BY <1>2, <1>5
  <2> QED BY <2>3, <2>6, <2>7, <2>8, <2>9, <2>10 DEF RolesFit
<1> QED BY <1>11, <1>12, <1>13, <1>14, <1>15

LEMMA WriteRecordKeeps ==
  ASSUME GrowthInv, NEW w \in GrowthWorker, WriteRecord(w)
  PROVE  GrowthInv'
<1> USE DEF GrowthInv
<1>1. PICK g : g = grower[w]
  OBVIOUS
<1>2. PICK l : l = LevelOf(g.exp + g.amount)
  OBVIOUS
<1>3. PICK at : at = IF l > g.level THEN "role" ELSE "done"
  OBVIOUS
<1>4. PICK h : h = [g EXCEPT !.at = at]
  OBVIOUS
<1>5. /\ UNCHANGED <<exp, level, role, loginDay, offBooks, highestSet, apart, unsure>>
      /\ g.at = "record"
      /\ \/ /\ g.op = "daily"
            /\ daily' = [daily EXCEPT ![g.day] = @ + 1]
            /\ granted' = granted
         \/ /\ g.op = "grant" /\ granted' = granted + g.amount /\ daily' = daily
  BY <1>1, Zenon DEF WriteRecord, Unbooked
<1>6. g \in GrowerRec /\ g.amount \in Nat /\ g.exp \in Nat /\ g.level \in Level
      /\ g.day \in LoginDay /\ (g.op = "daily" => g.amount = DailyExp)
  BY <1>1 DEF GrowthTypes, GrowerRec, GrowersFit
<1>7. h \in GrowerRec /\ h.at = at /\ h.op = g.op /\ h.role = g.role
      /\ h.amount = g.amount /\ h.day = g.day /\ at \in {"role", "done"}
  BY <1>3, <1>4, <1>6 DEF GrowerRec
<1>8. grower' = [grower EXCEPT ![w] = h]
  <2>1. grower' = [grower EXCEPT ![w].at = at]
    BY <1>1, <1>2, <1>3, Zenon DEF WriteRecord, Proceeds, AfterRecord
  <2> QED BY <1>1, <1>4, <1>6, <2>1 DEF GrowthTypes, GrowerRec
<1>9. \A v \in GrowthWorker : grower'[v] = IF v = w THEN h ELSE grower[v]
  BY <1>8 DEF GrowthTypes
<1>10. granted' \in Nat /\ daily' \in [LoginDay -> Nat]
  BY <1>5, <1>6 DEF GrowthTypes
<1>11. GrowthTypes'
  <2>1. grower' \in [GrowthWorker -> GrowerRec]
    BY <1>7, <1>8 DEF GrowthTypes
  <2> QED BY <1>5, <1>10, <2>1, Zenon DEF GrowthTypes
<1>12. GrowersFit'
  BY <1>1, <1>5, <1>7, <1>9 DEF GrowersFit
<1>13. ExpFits'
  <2>1. /\ Booked \in Nat /\ Booked' \in Nat /\ BeforeRecord \in Nat
        /\ BeforeRecord' \in Nat
        /\ BeforeRecord' + Amount(g) = BeforeRecord + Amount(h)
        /\ daily' = daily => Booked' + granted = Booked + granted'
        /\ \A d \in LoginDay : daily' = [daily EXCEPT ![d] = @ + 1]
             => Booked' + granted = Booked + granted' + DailyExp
    BY <1>1, <1>9, <1>11, BooksChange
  <2>2. Amount(g) = g.amount /\ Amount(h) = 0
    BY <1>5, <1>7 DEF Amount
  <2>3. granted \in Nat /\ offBooks \in Nat /\ highestSet \in Nat
    BY DEF GrowthTypes
  <2>4. Booked' = Booked + g.amount
    <3>1. CASE g.op = "daily"
      <4>1. Booked' + granted = Booked + granted' + DailyExp /\ granted' = granted
        BY <1>5, <1>6, <2>1, <3>1
      <4>2. DailyExp = g.amount
        BY <1>6, <3>1
      <4>3. Booked' + granted = Booked + granted + g.amount
        BY <4>1, <4>2
      <4> QED BY <1>6, <2>1, <2>3, <4>3
    <3>2. CASE g.op # "daily"
      <4>1. PICK a, b, n, k \in Nat :
              a = Booked /\ b = Booked' /\ n = granted /\ k = g.amount
        BY <1>6, <2>1, <2>3
      <4>2. b + n = a + (n + k)
        BY <1>5, <2>1, <3>2, <4>1
      <4>3. b = a + k
        BY <4>2
      <4> QED BY <4>1, <4>3
    <3> QED BY <3>1, <3>2
  <2>5. Booked' + BeforeRecord' = Booked + BeforeRecord
    BY <1>6, <2>1, <2>2, <2>4
  <2>6. Total' = Total
    <3>1. PICK a, b, c, d \in Nat :
            a = Booked /\ b = Booked' /\ c = BeforeRecord /\ d = BeforeRecord'
      BY <2>1
    <3>2. PICK h1, o \in Nat : h1 = highestSet /\ o = offBooks
      BY <2>3
    <3>3. b + d = a + c
      BY <2>5, <3>1, Zenon
    <3>4. h1 + b + d + o = h1 + a + c + o
      BY <3>3
    <3>5. highestSet' = h1 /\ offBooks' = o
      BY <1>5, <3>2
    <3> QED BY <3>1, <3>2, <3>4, <3>5, Zenon DEF Total
  <2>7. Booked' + BeforeRecord' + offBooks' = Booked + BeforeRecord + offBooks
    BY <1>5, <2>5
  <2>8. \A v \in GrowthWorker : grower'[v].at = "write" => grower'[v] = grower[v]
    BY <1>7, <1>9
  <2> QED BY <1>5, <2>6, <2>7, <2>8 DEF ExpFits
<1>14. SerialFits'
  <2> SUFFICES ASSUME "overlap" \notin unsure PROVE SerialFits'
    BY <1>5 DEF SerialFits
  <2>1. \A v \in GrowthWorker : v # w => grower[v].at = "done"
    BY <1>1, <1>5 DEF SerialFits
  <2>2. g.op = "daily" => daily[g.day] = 0
    BY <1>1, <1>5 DEF SerialFits
  <2>3. \A d \in LoginDay : daily'[d] <= 1
    <3>1. \A d \in LoginDay : daily[d] <= 1 /\ daily[d] \in Nat
      BY DEF SerialFits, GrowthTypes
    <3>2. CASE g.op = "daily"
      BY <1>5, <1>6, <2>2, <3>1, <3>2 DEF GrowthTypes
    <3>3. CASE g.op # "daily"
      BY <1>5, <3>1, <3>3
    <3> QED BY <3>2, <3>3
  <2>4. \A v \in GrowthWorker : v # w => grower'[v].at = "done"
    BY <1>9, <2>1
  <2>5. grower'[w].at \in {"role", "done"}
    BY <1>7, <1>9
  <2> QED BY <2>3, <2>4, <2>5 DEF SerialFits
<1>15. RolesFit'
  <2> SUFFICES ASSUME Serial PROVE RolesFit'
    BY <1>5 DEF RolesFit, Serial
  <2>1. \A v \in GrowthWorker : v # w => grower[v].at = "done"
    BY <1>1, <1>5 DEF SerialFits, Serial
  <2>2. /\ g.role = LevelRole(level) /\ level = l /\ level = LevelOf(exp)
        /\ ~apart => g.level <= level /\ role = LevelRole(g.level) /\ role # Root
    BY <1>1, <1>2, <1>5 DEF RolesFit, Mends
  <2>3. level \in Nat /\ g.level \in Nat
    BY <1>6 DEF GrowthTypes, Level
  <2>4. at = "done" /\ ~apart => role = LevelRole(level)
    <3>1. at = "done" => ~(l > g.level)
      BY <1>3
    <3>2. at = "done" /\ ~apart => g.level = level
      BY <2>2, <2>3, <3>1
    <3> QED BY <2>2, <3>2
  <2>5. at = "role" => Mends(h)
    BY <1>5, <1>7 DEF Mends
  <2>6. \A v \in GrowthWorker : v # w => ~Mends(grower'[v]) /\ grower'[v].at # "record"
    BY <1>9, <2>1 DEF Mends
  <2>7. grower'[w] = h
    BY <1>9
  <2> QED BY <1>5, <1>7, <2>2, <2>4, <2>5, <2>6, <2>7 DEF RolesFit
<1> QED BY <1>11, <1>12, <1>13, <1>14, <1>15

LEMMA ReadRoleKeeps ==
  ASSUME GrowthInv, NEW w \in GrowthWorker, ReadRole(w)
  PROVE  GrowthInv'
<1> USE DEF GrowthInv
<1>1. PICK g : g = grower[w]
  OBVIOUS
<1>2. PICK h : h = IF role \in {Root, g.role} THEN Resting ELSE [g EXCEPT !.at = "save"]
  OBVIOUS
<1>3. /\ UNCHANGED <<exp, level, daily, granted, role, loginDay, offBooks, highestSet,
                     apart, unsure>>
      /\ g.at = "role"
      /\ grower' = [grower EXCEPT ![w] = h]
  <2>1. CASE role \in {Root, g.role}
    BY <1>1, <1>2, <2>1, Zenon DEF ReadRole, Unbooked, Ends
  <2>2. CASE role \notin {Root, g.role}
    <3>1. grower' = [grower EXCEPT ![w].at = "save"]
      BY <1>1, <2>2, Zenon DEF ReadRole, Proceeds
    <3>2. grower' = [grower EXCEPT ![w] = h]
      BY <1>1, <1>2, <2>2, <3>1 DEF GrowthTypes
    <3> QED BY <1>1, <3>2, Zenon DEF ReadRole, Unbooked
  <2> QED BY <2>1, <2>2
<1>4. g \in GrowerRec /\ h \in GrowerRec
  <2>1. g \in GrowerRec
    BY <1>1 DEF GrowthTypes
  <2> QED BY <1>2, <2>1, RestingFits DEF GrowerRec
<1>5. /\ \/ h.at = "done" /\ h.op = "none" /\ role \in {Root, g.role}
         \/ /\ h.at = "save" /\ h.op = g.op /\ h.role = g.role
            /\ h.amount = g.amount /\ role # Root
  BY <1>2, <1>4, RestingFits DEF GrowerRec
<1>6. \A v \in GrowthWorker : grower'[v] = IF v = w THEN h ELSE grower[v]
  BY <1>3 DEF GrowthTypes
<1>7. GrowthTypes'
  <2>1. grower' \in [GrowthWorker -> GrowerRec]
    BY <1>3, <1>4 DEF GrowthTypes
  <2> QED BY <1>3, <2>1, Zenon DEF GrowthTypes
<1>8. GrowersFit'
  BY <1>1, <1>5, <1>6 DEF GrowersFit
<1>9. ExpFits'
  BY <1>1, <1>3, <1>5, <1>6, <1>7, QuietStep
<1>10. SerialFits'
  BY <1>1, <1>3, <1>5, <1>6 DEF SerialFits
<1>11. RolesFit'
  <2> SUFFICES ASSUME Serial PROVE RolesFit'
    BY <1>3 DEF RolesFit, Serial
  <2>1. \A v \in GrowthWorker : v # w => grower[v].at = "done"
    BY <1>1, <1>3 DEF SerialFits, Serial
  <2>2. Mends(g) => g.role = LevelRole(level) /\ level = LevelOf(exp)
    BY <1>1 DEF RolesFit
  <2>3. ~apart => /\ level = LevelOf(exp) /\ role # Root
                  /\ role = LevelRole(level) \/ Mends(g)
    BY <1>1, <2>1 DEF RolesFit, Mends
  <2>4. \A v \in GrowthWorker : v # w => ~Mends(grower'[v]) /\ grower'[v].at # "record"
    BY <1>6, <2>1 DEF Mends
  <2>5. grower'[w] = h /\ h.at # "record"
    BY <1>5, <1>6
  <2>6. CASE h.at = "done"
    <3>1. ~apart => role = LevelRole(level)
      BY <1>5, <2>2, <2>3, <2>6
    <3>2. ~Mends(h)
      BY <2>6 DEF Mends
    <3> QED BY <1>3, <2>3, <2>4, <2>5, <3>1, <3>2 DEF RolesFit
  <2>7. CASE h.at = "save"
    <3>1. (Mends(h) <=> Mends(g)) /\ h.role = g.role
      BY <1>3, <1>5, <2>7 DEF Mends
    <3> QED BY <1>3, <2>2, <2>3, <2>4, <2>5, <3>1 DEF RolesFit
  <2> QED BY <1>5, <2>6, <2>7
<1> QED BY <1>7, <1>8, <1>9, <1>10, <1>11

LEMMA WriteRoleKeeps ==
  ASSUME GrowthInv, NEW w \in GrowthWorker, WriteRole(w)
  PROVE  GrowthInv'
<1> USE DEF GrowthInv
<1>1. PICK g, h : g = grower[w] /\ h = Resting
  OBVIOUS
<1>2. /\ UNCHANGED <<exp, level, daily, granted, loginDay, offBooks, highestSet, unsure>>
      /\ g.at = "save" /\ role' = g.role /\ grower' = [grower EXCEPT ![w] = h]
      /\ apart' = (g.op = "role")
  BY <1>1, Zenon DEF WriteRole, Unbooked, Ends
<1>3. g \in GrowerRec /\ g.role \in Role /\ h \in GrowerRec
      /\ h.at = "done" /\ h.op = "none"
  BY <1>1, RestingFits DEF GrowthTypes, GrowerRec
<1>4. \A v \in GrowthWorker : grower'[v] = IF v = w THEN h ELSE grower[v]
  BY <1>2 DEF GrowthTypes
<1>5. GrowthTypes'
  <2>1. grower' \in [GrowthWorker -> GrowerRec]
    BY <1>2, <1>3 DEF GrowthTypes
  <2>2. apart' \in BOOLEAN
    BY <1>2
  <2> QED BY <1>2, <1>3, <2>1, <2>2, Zenon DEF GrowthTypes
<1>6. GrowersFit'
  BY <1>3, <1>4 DEF GrowersFit
<1>7. ExpFits'
  BY <1>1, <1>2, <1>3, <1>4, <1>5, QuietStep
<1>8. "overlap" \notin unsure => \A v \in GrowthWorker : grower'[v].at = "done"
  BY <1>1, <1>2, <1>3, <1>4 DEF SerialFits
<1>9. SerialFits'
  BY <1>2, <1>8 DEF SerialFits
<1>10. RolesFit'
  <2> SUFFICES ASSUME Serial PROVE RolesFit'
    BY <1>2 DEF RolesFit, Serial
  <2>1. Mends(g) => g.role = LevelRole(level) /\ level = LevelOf(exp)
    BY <1>1 DEF RolesFit
  <2>2. ~apart' => Mends(g)
    BY <1>2 DEF Mends
  <2>3. LevelRole(level) # Root
    BY RolesDiffer DEF GrowthTypes
  <2>4. ~apart' => role' = LevelRole(level') /\ level' = LevelOf(exp') /\ role' # Root
    BY <1>2, <2>1, <2>2, <2>3
  <2>5. \A v \in GrowthWorker : ~Mends(grower'[v]) /\ grower'[v].at # "record"
    BY <1>8 DEF Mends, Serial
  <2> QED BY <2>4, <2>5 DEF RolesFit
<1> QED BY <1>5, <1>6, <1>7, <1>9, <1>10

LEMMA StopsKeeps ==
  ASSUME GrowthInv, NEW w \in GrowthWorker, Stops(w)
  PROVE  GrowthInv'
<1> USE DEF GrowthInv
<1>1. PICK g, h : g = grower[w] /\ h = Resting
  OBVIOUS
<1>2. /\ UNCHANGED <<exp, level, daily, granted, role, loginDay, highestSet, apart>>
      /\ grower' = [grower EXCEPT ![w] = h]
      /\ unsure' = unsure \cup {"stop"}
      /\ offBooks' = offBooks + IF g.at = "record" THEN g.amount ELSE 0
  BY <1>1, Zenon DEF Stops, Ends
<1>3. g \in GrowerRec /\ g.amount \in Nat /\ h \in GrowerRec
      /\ h.at = "done" /\ h.op = "none"
  BY <1>1, RestingFits DEF GrowthTypes, GrowerRec
<1>4. \A v \in GrowthWorker : grower'[v] = IF v = w THEN h ELSE grower[v]
  BY <1>2 DEF GrowthTypes
<1>5. GrowthTypes'
  <2>1. grower' \in [GrowthWorker -> GrowerRec]
    BY <1>2, <1>3 DEF GrowthTypes
  <2>2. offBooks' \in Nat
    BY <1>2, <1>3 DEF GrowthTypes
  <2>3. unsure' \subseteq {"overlap", "stop", "set"}
    BY <1>2 DEF GrowthTypes
  <2> QED BY <1>2, <2>1, <2>2, <2>3, Zenon DEF GrowthTypes
<1>6. GrowersFit'
  BY <1>3, <1>4 DEF GrowersFit
<1>7. unsure' # {}
  BY <1>2
<1>8. ExpFits'
  <2>1. /\ Booked \in Nat /\ Booked' \in Nat /\ BeforeRecord \in Nat
        /\ BeforeRecord' \in Nat
        /\ BeforeRecord' + Amount(g) = BeforeRecord + Amount(h)
        /\ Booked' + granted = Booked + granted
    BY <1>1, <1>2, <1>4, <1>5, BooksChange
  <2>2. granted \in Nat /\ offBooks \in Nat /\ highestSet \in Nat
    BY DEF GrowthTypes
  <2>3. Booked' = Booked
    <3>1. PICK a, b, n \in Nat : a = Booked /\ b = Booked' /\ n = granted
      BY <2>1, <2>2
    <3>2. b + n = a + n
      BY <2>1, <3>1, Zenon
    <3>3. b = a
      BY <3>2
    <3> QED BY <3>1, <3>3, Zenon
  <2>4. Amount(h) = 0 /\ offBooks' = offBooks + Amount(g) /\ Amount(g) \in Nat
    BY <1>2, <1>3 DEF Amount
  <2>5. BeforeRecord' + offBooks' = BeforeRecord + offBooks
    BY <2>1, <2>2, <2>4
  <2>6. offBooks' \in Nat
    BY <2>2, <2>4
  <2>7. Total' = Total
    <3>1. PICK a, b, c, m, n, k \in Nat :
            /\ a = Booked /\ b = BeforeRecord /\ c = BeforeRecord'
            /\ m = offBooks /\ n = offBooks' /\ k = highestSet
      BY <2>1, <2>2, <2>6
    <3>2. c + n = b + m
      BY <2>5, <3>1, Zenon
    <3>3. k + a + c + n = k + a + b + m
      BY <3>2
    <3>4. Total = k + a + b + m /\ Total' = k + a + c + n
      BY <1>2, <2>3, <3>1, Zenon DEF Total
    <3> QED BY <3>3, <3>4, Zenon
  <2>8. \A v \in GrowthWorker : grower'[v].at = "write" => grower'[v] = grower[v]
    BY <1>3, <1>4
  <2> QED BY <1>2, <1>7, <2>7, <2>8 DEF ExpFits
<1>9. SerialFits'
  BY <1>2, <1>3, <1>4 DEF SerialFits
<1>10. RolesFit'
  BY <1>2 DEF RolesFit, Serial
<1> QED BY <1>5, <1>6, <1>8, <1>9, <1>10

LEMMA BooksRest ==
  ASSUME UNCHANGED <<daily, granted, grower>>
  PROVE  Booked' = Booked /\ BeforeRecord' = BeforeRecord
BY BooksAreSums, Zenon

\* Whoever sets a level meets no other request, or that is an overlap.
LEMMA ArrivesAlone ==
  ASSUME NEW causes \in SUBSET {"set"}, Arrives(causes), unsure \subseteq {"overlap", "stop", "set"}
  PROVE  /\ unsure \subseteq unsure' /\ causes \subseteq unsure'
         /\ unsure' \subseteq {"overlap", "stop", "set"}
         /\ "overlap" \notin unsure' =>
              \A v \in GrowthWorker : grower[v].at = "done"
<1>1. unsure' = unsure \cup causes \cup {x \in {"overlap"} : \E v \in GrowthWorker : Busy(v)}
  BY Zenon DEF Arrives
<1> QED BY <1>1 DEF Busy

\* A level that is set comes apart from the role.
LEMMA ApartFits ==
  ASSUME UNCHANGED grower, apart' = TRUE,
         "overlap" \notin unsure' => \A v \in GrowthWorker : grower[v].at = "done"
  PROVE  RolesFit'
<1> SUFFICES ASSUME Serial' PROVE RolesFit'
  BY DEF RolesFit
<1>1. \A v \in GrowthWorker : grower'[v].at = "done"
  BY DEF Serial
<1>2. \A v \in GrowthWorker : ~Mends(grower'[v]) /\ grower'[v].at # "record"
  BY <1>1 DEF Mends
<1> QED BY <1>2 DEF RolesFit

LEMMA SetLevelKeeps ==
  ASSUME GrowthInv, NEW e \in Nat, NEW l \in Level, SetLevel(e, l)
  PROVE  GrowthInv'
<1> USE DEF GrowthInv
<1>1. /\ UNCHANGED <<daily, granted, role, grower, loginDay, offBooks>>
      /\ exp' = e /\ level' = l /\ apart' = TRUE /\ Arrives({"set"})
      /\ highestSet' = IF e > highestSet THEN e ELSE highestSet
  BY Zenon DEF SetLevel
<1>2. highestSet' \in Nat /\ highestSet <= highestSet' /\ e <= highestSet'
  BY <1>1 DEF GrowthTypes
<1>3. unsure \subseteq {"overlap", "stop", "set"}
  BY DEF GrowthTypes
<1>4. /\ unsure \subseteq unsure' /\ {"set"} \subseteq unsure'
      /\ unsure' \subseteq {"overlap", "stop", "set"}
      /\ "overlap" \notin unsure' => \A v \in GrowthWorker : grower[v].at = "done"
  BY <1>1, <1>3, ArrivesAlone
<1>a. unsure' # {}
  BY <1>4
<1>5. GrowthTypes'
  <2>1. apart' \in BOOLEAN
    BY <1>1
  <2> QED BY <1>1, <1>2, <1>4, <2>1, Zenon DEF GrowthTypes
<1>6. GrowersFit'
  BY <1>1 DEF GrowersFit
<1>7. ExpFits'
  <2>1. Booked' = Booked /\ BeforeRecord' = BeforeRecord
    BY <1>1, BooksRest
  <2>2. GrowthWorker = {} => ExpFits'
    <3> SUFFICES ASSUME GrowthWorker = {} PROVE ExpFits'
      OBVIOUS
    <3>1. SumOf(daily, LoginDay) \in Nat
      <4>1. IsFiniteSet(LoginDay)
        BY DaysEnd
      <4> QED BY <4>1, SumBounds DEF GrowthTypes
    <3>2. AboutToRecord(grower) \in [GrowthWorker -> Nat]
      BY DEF AboutToRecord
    <3>3. SumOf(AboutToRecord(grower), GrowthWorker) \in Nat
      BY <3>2, GrowthAssumption, SumStep
    <3>4. BeforeRecord \in Nat
      BY <3>2, <3>3, BeforeIsSum, BooksAreSums
    <3>5. DailyExp \in Nat
      BY GrowthAssumption
    <3>6. DailyExp * SumOf(daily, LoginDay) \in Nat
      BY <3>1, <3>5
    <3>7. Booked \in Nat
      BY <3>6, BooksAreSums DEF GrowthTypes
    <3>8. e <= Total'
      BY <1>1, <1>2, <2>1, <3>4, <3>7 DEF Total, GrowthTypes
    <3> QED BY <1>1, <1>a, <3>8 DEF ExpFits
  <2>3. ASSUME NEW w \in GrowthWorker
        PROVE  ExpFits'
    <3>1. Booked \in Nat /\ BeforeRecord \in Nat
      BY <1>1, <1>5, BooksChange
    <3>2. Total \in Nat /\ Total' \in Nat /\ Total <= Total' /\ e <= Total'
      BY <1>1, <1>2, <2>1, <3>1 DEF Total, GrowthTypes
    <3>3. \A v \in GrowthWorker : grower[v].at = "write" => grower[v].exp <= Total'
      BY <3>2 DEF ExpFits, GrowthTypes, GrowerRec
    <3> QED BY <1>1, <1>a, <3>2, <3>3 DEF ExpFits
  <2> QED BY <2>2, <2>3
<1>8. SerialFits'
  BY <1>1, <1>4 DEF SerialFits
<1>9. RolesFit'
  BY <1>1, <1>4, ApartFits
<1> QED BY <1>5, <1>6, <1>7, <1>8, <1>9

LEMMA CreateAgainKeeps ==
  ASSUME GrowthInv, NEW l \in Level, CreateAgain(l)
  PROVE  GrowthInv'
<1> USE DEF GrowthInv
<1>1. /\ UNCHANGED <<exp, daily, granted, role, grower, loginDay, offBooks, highestSet>>
      /\ level' = l /\ apart' = TRUE /\ Arrives({})
  BY Zenon DEF CreateAgain, Unbooked
<1>2. unsure \subseteq {"overlap", "stop", "set"} /\ {} \in SUBSET {"set"}
  BY DEF GrowthTypes
<1>3. /\ unsure \subseteq unsure' /\ unsure' \subseteq {"overlap", "stop", "set"}
      /\ "overlap" \notin unsure' => \A v \in GrowthWorker : grower[v].at = "done"
  BY <1>1, <1>2, ArrivesAlone
<1>4. GrowthTypes'
  <2>1. apart' \in BOOLEAN
    BY <1>1
  <2> QED BY <1>1, <1>3, <2>1, Zenon DEF GrowthTypes
<1>5. Booked' = Booked /\ BeforeRecord' = BeforeRecord
  BY <1>1, BooksRest
<1>6. unsure' = {} => unsure = {}
  BY <1>3
<1>7. ExpFits'
  BY <1>1, <1>5, <1>6 DEF ExpFits, Total
<1>8. GrowersFit'
  BY <1>1 DEF GrowersFit
<1>9. SerialFits'
  BY <1>1, <1>3 DEF SerialFits
<1>10. RolesFit'
  BY <1>1, <1>3, ApartFits
<1> QED BY <1>4, <1>7, <1>8, <1>9, <1>10

\* What no step of growth changes but the day.
LEMMA RestKeeps ==
  ASSUME GrowthInv, loginDay' \in LoginDay,
         UNCHANGED <<exp, level, daily, granted, role, grower, offBooks, highestSet,
                     apart, unsure>>
  PROVE  GrowthInv'
<1>1. Booked' = Booked /\ BeforeRecord' = BeforeRecord
  BY BooksRest
<1>2. ExpFits'
  BY <1>1 DEF GrowthInv, ExpFits, Total
<1>3. GrowthTypes'
  BY Zenon DEF GrowthInv, GrowthTypes
<1>4. GrowersFit' /\ SerialFits' /\ RolesFit'
  BY DEF GrowthInv, GrowersFit, SerialFits, RolesFit, Serial
<1> QED BY <1>2, <1>3, <1>4 DEF GrowthInv

LEMMA GrowthInvInit == GrowthInit => GrowthInv
<1> SUFFICES ASSUME GrowthInit PROVE GrowthInv
  OBVIOUS
<1>1. /\ exp = 0 /\ level \in Level /\ role = LevelRole(0) /\ apart = (level # 0)
      /\ daily = [d \in LoginDay |-> 0] /\ granted = 0
      /\ grower = [w \in GrowthWorker |-> Resting]
      /\ loginDay = 0 /\ offBooks = 0 /\ highestSet = 0 /\ unsure = {}
  BY Zenon DEF GrowthInit
<1>2. 0 \in LoginDay /\ 0 \in Level
  BY GrowthAssumption DEF LoginDay, Level
<1>3. \A w \in GrowthWorker : grower[w] = Resting
  BY <1>1
<1>4. GrowthTypes
  <2>1. apart \in BOOLEAN
    BY <1>1
  <2> QED BY <1>1, <1>2, <2>1, RestingFits, RolesDiffer DEF GrowthTypes
<1>5. \A w \in GrowthWorker : grower[w].at = "done" /\ grower[w].op = "none"
  BY <1>3, RestingFits
<1>6. GrowersFit
  BY <1>5 DEF GrowersFit
<1>7. ExpFits
  <2>1. Booked = 0
    <3>1. \A d \in LoginDay : daily[d] = 0
      BY <1>1
    <3>2. SumOf(daily, LoginDay) = 0
      <4>1. IsFiniteSet(LoginDay)
        BY DaysEnd
      <4>2. PICK s \in Nat : s = SumOf(daily, LoginDay)
        BY <4>1, <1>4, SumBounds DEF GrowthTypes
      <4>3. ~(s > 0)
        BY <3>1, <4>1, <4>2, <1>4, SumBounds DEF GrowthTypes
      <4> QED BY <4>2, <4>3
    <3> QED BY <1>1, <3>2, BooksAreSums, GrowthAssumption
  <2>2. BeforeRecord = 0
    <3>1. AboutToRecord(grower) \in [GrowthWorker -> Nat]
          /\ \A w \in GrowthWorker : AboutToRecord(grower)[w] = 0
      BY <1>5 DEF AboutToRecord
    <3>2. SumOf(AboutToRecord(grower), GrowthWorker) = 0
      BY <3>1, GrowthAssumption, SumBounds
    <3> QED BY <3>1, <3>2, BeforeIsSum, BooksAreSums
  <2> QED BY <1>1, <1>5, <2>1, <2>2 DEF ExpFits, Total
<1>8. SerialFits
  BY <1>1, <1>5 DEF SerialFits
<1>9. RolesFit
  <2>1. \A w \in GrowthWorker : ~Mends(grower[w]) /\ grower[w].at # "record"
    BY <1>5 DEF Mends
  <2>2. ~apart => level = 0
    BY <1>1
  <2>3. LevelOf(0) = 0
    BY LevelsGrow
  <2>4. LevelRole(0) # Root
    BY <1>2, RolesDiffer
  <2> QED BY <1>1, <2>1, <2>2, <2>3, <2>4 DEF RolesFit
<1> QED BY <1>4, <1>6, <1>7, <1>8, <1>9 DEF GrowthInv

LEMMA GrowthInvNext == GrowthInv /\ [GrowthNext]_growthVars => GrowthInv'
<1> SUFFICES ASSUME GrowthInv, [GrowthNext]_growthVars PROVE GrowthInv'
  OBVIOUS
<1>1. CASE UNCHANGED growthVars
  <2>1. UNCHANGED <<exp, level, daily, granted, role, grower, offBooks, highestSet,
                    apart, unsure, loginDay>>
    BY <1>1, Zenon DEF growthVars
  <2>2. loginDay' \in LoginDay
    BY <2>1 DEF GrowthInv, GrowthTypes
  <2> QED BY <2>1, <2>2, RestKeeps
<1>2. CASE NextLoginDay
  <2>1. UNCHANGED <<exp, level, daily, granted, role, grower, offBooks, highestSet,
                    apart, unsure>>
    BY <1>2, Zenon DEF NextLoginDay, Unbooked
  <2>2. loginDay' \in LoginDay
    BY <1>2, GrowthAssumption DEF NextLoginDay, GrowthInv, GrowthTypes, LoginDay
  <2> QED BY <2>1, <2>2, RestKeeps
<1>3. ASSUME NEW l \in Level, CreateAgain(l) \/ \E e \in GivenExp : SetLevel(e, l)
      PROVE  GrowthInv'
  <2>1. \A e \in GivenExp : e \in Nat
    BY GrowthAssumption
  <2> QED BY <1>3, <2>1, SetLevelKeeps, CreateAgainKeeps
<1>4. ASSUME NEW w \in GrowthWorker,
             \/ Login(w) \/ Grant(w) \/ SetRole(w)
             \/ Check(w) \/ ReadLevel(w) \/ WriteLevel(w) \/ WriteRecord(w)
             \/ ReadRole(w) \/ WriteRole(w) \/ Stops(w)
      PROVE  GrowthInv'
  BY <1>4, RequestsKeep, CheckKeeps, ReadLevelKeeps, WriteLevelKeeps, WriteRecordKeeps,
     ReadRoleKeeps, WriteRoleKeeps, StopsKeeps
<1> QED BY <1>1, <1>2, <1>3, <1>4 DEF GrowthNext

\* What the runs check of a state follows from the invariant.
LEMMA GrowthInvGives ==
  GrowthInv => ExpIsEarned /\ ExpIsExact /\ OneBonusADay /\ RoleFollowsLevel
<1> SUFFICES ASSUME GrowthInv
             PROVE  ExpIsEarned /\ ExpIsExact /\ OneBonusADay /\ RoleFollowsLevel
  OBVIOUS
<1>1. ExpIsEarned /\ ExpIsExact
  BY DEF GrowthInv, ExpFits, Total, ExpIsEarned, ExpIsExact
<1>2. OneBonusADay
  <2>1. \A d \in LoginDay : daily[d] \in Nat
    BY DEF GrowthInv, GrowthTypes
  <2> QED BY <2>1 DEF GrowthInv, SerialFits, OneBonusADay
<1>3. RoleFollowsLevel
  BY DEF GrowthInv, RolesFit, Serial, RoleFollowsLevel, Busy, Mends
<1> QED BY <1>1, <1>2, <1>3

\* The role of the root account changes in one way only: through a request that
\* read it before it was root.
LEMMA RootIsKept ==
  GrowthInv /\ [GrowthNext]_growthVars
    => [role = Root /\ "overlap" \notin unsure => role' = Root]_growthVars
<1> SUFFICES ASSUME GrowthInv, [GrowthNext]_growthVars, role = Root,
                    "overlap" \notin unsure
             PROVE  role' = Root
  OBVIOUS
<1>1. CASE UNCHANGED growthVars
  BY <1>1, Zenon DEF growthVars
<1>2. CASE \/ NextLoginDay
            \/ \E l \in Level : CreateAgain(l) \/ \E e \in GivenExp : SetLevel(e, l)
  BY <1>2, Zenon DEF NextLoginDay, SetLevel, CreateAgain
<1>3. ASSUME NEW w \in GrowthWorker,
             \/ Login(w) \/ Grant(w) \/ SetRole(w)
             \/ Check(w) \/ ReadLevel(w) \/ WriteLevel(w) \/ WriteRecord(w)
             \/ ReadRole(w) \/ Stops(w)
      PROVE  role' = role
  BY <1>3, Zenon DEF Login, Grant, SetRole, Opens, Check, ReadLevel, WriteLevel,
                     WriteRecord, ReadRole, Stops
<1>4. ASSUME NEW w \in GrowthWorker, WriteRole(w)
      PROVE  FALSE
  BY <1>4 DEF WriteRole, GrowthInv, SerialFits
<1> QED BY <1>1, <1>2, <1>3, <1>4 DEF GrowthNext

\* Experience, level and role of an account (add_exp, add_daily_login_exp,
\* set_user_level, sync_role_on_level_up of services/user/account/base.py),
\* for every level table, bonus, amount and number of requests: whatever overlaps
\* or stops, an account never has more experience than its records, the grants
\* without a record and what was set add up to; one request at a time gives it
\* exactly that and one bonus a day, gives it at a level-up the role of its level
\* until one of the two is set from outside, and leaves root alone.
THEOREM AccountsGrowAsEarned == GrowthSpec => GrowthHolds
<1>1. GrowthSpec => []GrowthInv
  BY GrowthInvInit, GrowthInvNext, PTL DEF GrowthSpec
<1>2. GrowthSpec => [](ExpIsEarned /\ ExpIsExact /\ OneBonusADay /\ RoleFollowsLevel)
  BY <1>1, GrowthInvGives, PTL
<1>3. GrowthSpec => RootKept
  BY <1>1, RootIsKept, PTL DEF GrowthSpec, RootKept
<1> QED BY <1>2, <1>3, PTL DEF GrowthHolds

-----------------------------------------------------------------------------
(* Signing in.                                                             *)

Account == [name : Int, mail : Mail, role : AccountRole]
Signing ==
  [at : {"idle", "mail", "name", "prefixed", "create", "insert", "record"},
   person : Mail, nr : Nat, name : Int, uid : {0} \cup Uid,
   role : AccountRole \cup {NewClaim}]
SignToken ==
  [uid : {0} \cup Uid, person : Mail, role : AccountRole \cup {NewClaim}, day : Nat]

SignTypes ==
  /\ account \in [Uid -> Account]
  /\ uids \in 0 .. LastUid
  /\ browser \in [Browser -> Signing]
  /\ cookie \in [Browser -> SignToken]
  /\ signDay \in Nat /\ signAsks \in Nat
  /\ owner \in [Uid -> Mail]

\* Identifiers are drawn in order and never again; a role is read with the
\* account only.
DrawnFit ==
  /\ \A u \in Uid : u > uids => account[u].name = 0 /\ owner[u] = NoMail
  /\ \A b \in Browser :
       /\ browser[b].uid <= uids /\ cookie[b].uid <= uids
       /\ browser[b].at = "record" => browser[b].uid # 0
       /\ browser[b].at # "record" => browser[b].role = NewClaim
       /\ browser[b].at # "idle" => browser[b].person \in Person

\* The e-mail of an account is that of the person it was created for, unless
\* that was interfered with.
MailsFit ==
  \A u \in Uid : account[u].name # 0 =>
    /\ account[u].mail # NoMail =>
         owner[u] = account[u].mail \/ account[u].mail \in crossed
    /\ owner[u] \in Mailed \ crossed => account[u].mail = owner[u]

AboutToCreate == {"name", "prefixed", "create", "insert"}

\* One first sign-in at a time, of a person without an account.
FirstsFit ==
  \A p \in Mailed \ crossed :
    /\ \A b, c \in Browser :
         /\ browser[b].person = p /\ browser[b].at \in AboutToCreate
         /\ browser[c].person = p /\ browser[c].at \in AboutToCreate
         => b = c
    /\ \A b \in Browser : browser[b].person = p /\ browser[b].at \in AboutToCreate =>
         \A u \in Uid : account[u].name # 0 => owner[u] # p
    /\ \A u, v \in Uid :
         /\ account[u].name # 0 /\ owner[u] = p
         /\ account[v].name # 0 /\ owner[v] = p
         => u = v

\* What a sign-in found and what a token says.
ClaimsFit ==
  \A b \in Browser :
    /\ browser[b].at = "record" =>
         /\ owner[browser[b].uid] = browser[b].person \/ browser[b].person \in crossed
         /\ browser[b].role = "root" /\ account[browser[b].uid].name # 0
              => account[browser[b].uid].role = "root"
    /\ cookie[b].uid # 0 =>
         /\ owner[cookie[b].uid] = cookie[b].person \/ cookie[b].person \in crossed
         /\ cookie[b].role = "root" /\ account[cookie[b].uid].name # 0
              => account[cookie[b].uid].role = "root"

SignInv == SignTypes /\ DrawnFit /\ MailsFit /\ FirstsFit /\ ClaimsFit

LEMMA SignConstants ==
  /\ Uid \subseteq Nat \ {0} /\ Mailed \subseteq Mail /\ NoMail \in Mail
  /\ NoMail \notin Mailed
  /\ \A p \in Mail : MailOf(p) \in Mail
  /\ \A p \in Mail : MailOf(p) # NoMail => MailOf(p) = p /\ p \in Mailed
  /\ \A p \in Mailed : MailOf(p) = p
  /\ NotSigning \in Signing /\ NotSigning.at = "idle" /\ NotSigning.uid = 0
  /\ NotSigning.role = NewClaim /\ NewClaim # "root"
  /\ NoAccount \in Account /\ NoAccount.name = 0
<1>1. Uid \subseteq Nat \ {0} /\ Mailed \subseteq Mail /\ NoMail \in Mail
      /\ NoMail \notin Mailed
  BY SignInAssumption DEF Uid, Mail, NoMail
<1>2. /\ \A p \in Mail : MailOf(p) \in Mail
      /\ \A p \in Mail : MailOf(p) # NoMail => MailOf(p) = p /\ p \in Mailed
      /\ \A p \in Mailed : MailOf(p) = p
  BY <1>1 DEF MailOf
<1>3. /\ NotSigning \in Signing /\ NotSigning.at = "idle" /\ NotSigning.uid = 0
      /\ NotSigning.role = NewClaim /\ NewClaim # "root"
      /\ NoAccount \in Account /\ NoAccount.name = 0
  BY <1>1 DEF NotSigning, Signing, NewClaim, NoAccount, Account, AccountRole, NoMail
<1> QED BY <1>1, <1>2, <1>3

\* A step of sign-ins that leaves the accounts alone and begins no first sign-in.
LEMMA SigningStep ==
  ASSUME SignInv, SignTypes', NEW b \in Browser,
         UNCHANGED <<account, uids, cookie, owner>>, crossed \subseteq crossed',
         \A c \in Browser : c # b => browser'[c] = browser[c],
         browser'[b].person = browser[b].person \/ browser'[b].at \notin AboutToCreate,
         browser'[b].at \in AboutToCreate => browser[b].at \in AboutToCreate,
         browser'[b].at # "idle" => browser'[b].person \in Person,
         browser'[b].at # "record" => browser'[b].uid <= uids /\ browser'[b].role = NewClaim,
         browser'[b].at = "record" =>
           /\ browser'[b].uid # 0 /\ browser'[b].uid <= uids
           /\ owner[browser'[b].uid] = browser'[b].person
              \/ browser'[b].person \in crossed'
           /\ browser'[b].role = "root" /\ account[browser'[b].uid].name # 0
                => account[browser'[b].uid].role = "root"
  PROVE  SignInv'
<1> USE DEF SignInv
<1>1. DrawnFit'
  BY DEF DrawnFit
<1>2. MailsFit'
  BY DEF MailsFit
<1>3. FirstsFit'
  BY DEF FirstsFit
<1>4. ClaimsFit'
  <2>1. \A c \in Browser : cookie[c].uid # 0 =>
          /\ owner[cookie[c].uid] = cookie[c].person \/ cookie[c].person \in crossed'
          /\ cookie[c].role = "root" /\ account[cookie[c].uid].name # 0
               => account[cookie[c].uid].role = "root"
    BY DEF ClaimsFit
  <2>2. \A c \in Browser : browser'[c].at = "record" =>
         /\ owner[browser'[c].uid] = browser'[c].person \/ browser'[c].person \in crossed'
         /\ browser'[c].role = "root" /\ account[browser'[c].uid].name # 0
              => account[browser'[c].uid].role = "root"
    BY DEF ClaimsFit
  <2> QED BY <2>1, <2>2 DEF ClaimsFit
<1> QED BY <1>1, <1>2, <1>3, <1>4

LEMMA CallbackKeeps ==
  ASSUME SignInv, NEW b \in Browser, NEW p \in Person, Callback(b, p)
  PROVE  SignInv'
<1>1. PICK s, rest : rest = NotSigning
                     /\ s = [rest EXCEPT !.at = "mail", !.person = p, !.nr = signAsks + 1]
  OBVIOUS
<1>2. /\ UNCHANGED <<account, uids, cookie, signDay, owner, crossed>>
      /\ signAsks' = signAsks + 1 /\ browser' = [browser EXCEPT ![b] = s]
  BY <1>1, Zenon DEF Callback, Asks, Step
<1>3. s \in Signing /\ s.at = "mail" /\ s.uid = 0 /\ s.role = NewClaim /\ s.person = p
  <2>1. rest \in Signing /\ rest.uid = 0 /\ rest.role = NewClaim
    BY <1>1, SignConstants
  <2>2. p \in Mail /\ signAsks + 1 \in Nat
    BY DEF Mail, SignInv, SignTypes
  <2> QED BY <1>1, <2>1, <2>2 DEF Signing
<1>4. \A c \in Browser : browser'[c] = IF c = b THEN s ELSE browser[c]
  BY <1>2 DEF SignInv, SignTypes
<1>5. SignTypes'
  BY <1>2, <1>3 DEF SignInv, SignTypes
<1>6. 0 <= uids /\ "mail" \notin AboutToCreate
  BY DEF SignInv, SignTypes, AboutToCreate
<1> QED BY <1>2, <1>3, <1>4, <1>5, <1>6, SigningStep

LEMMA LookByMailKeeps ==
  ASSUME SignInv, NEW b \in Browser, LookByMail(b)
  PROVE  SignInv'
<1> USE DEF SignInv
<1>1. PICK s : s = browser[b]
  OBVIOUS
<1>2. s \in Signing /\ s.person \in Mail /\ s.at = "mail" /\ s.person \in Person
  BY <1>1 DEF LookByMail, SignTypes, Signing, DrawnFit
<1>3. UNCHANGED <<account, uids, cookie, signDay, signAsks, owner>>
  BY Zenon DEF LookByMail, OnlyBrowser
<1>4. ASSUME NEW u \in WithMail(MailOf(s.person)), crossed' = crossed,
             browser' = [browser EXCEPT ![b] = [browser[b] EXCEPT
                           !.at = "record", !.uid = u, !.role = account[u].role]]
      PROVE  SignInv'
  <2>1. PICK t : t = [s EXCEPT !.at = "record", !.uid = u, !.role = account[u].role]
    OBVIOUS
  <2>2. u \in Uid /\ account[u].name # 0 /\ account[u].mail = s.person
        /\ account[u].mail # NoMail /\ account[u].role \in AccountRole
    <3>1. u \in Uid /\ account[u].name # 0 /\ account[u].mail = MailOf(s.person)
          /\ MailOf(s.person) # NoMail
      BY <1>4 DEF WithMail, Exists
    <3>2. MailOf(s.person) = s.person
      BY <1>2, <3>1, SignConstants
    <3> QED BY <3>1, <3>2 DEF SignTypes, Account
  <2>3. /\ t \in Signing /\ t.at = "record" /\ t.uid = u /\ t.person = s.person
        /\ t.role = account[u].role
    BY <1>2, <2>1, <2>2 DEF Signing
  <2>4. browser' = [browser EXCEPT ![b] = t]
    BY <1>1, <1>4, <2>1
  <2>5. \A c \in Browser : browser'[c] = IF c = b THEN t ELSE browser[c]
    BY <2>4 DEF SignTypes
  <2>6. SignTypes'
    BY <1>3, <2>3, <2>4 DEF SignTypes
  <2>7. u # 0 /\ u <= uids
    <3>1. u \in Nat \ {0}
      BY <2>2, SignConstants
    <3> QED BY <2>2, <3>1 DEF DrawnFit, SignTypes
  <2>8. owner[u] = s.person \/ s.person \in crossed
    BY <2>2 DEF MailsFit
  <2>9. "record" \notin AboutToCreate
    BY DEF AboutToCreate
  <2>10. browser'[b] = t /\ \A c \in Browser : c # b => browser'[c] = browser[c]
    BY <2>5
  <2>11. crossed \subseteq crossed'
    BY <1>4
  <2>12. /\ browser'[b].person = browser[b].person \/ browser'[b].at \notin AboutToCreate
         /\ browser'[b].at \notin AboutToCreate /\ browser'[b].person \in Person
         /\ browser'[b].at = "record"
         /\ browser'[b].uid # 0 /\ browser'[b].uid <= uids
         /\ owner[browser'[b].uid] = browser'[b].person
              \/ browser'[b].person \in crossed'
         /\ browser'[b].role = account[browser'[b].uid].role
    <3>1. browser'[b].uid = u /\ browser'[b].role = account[u].role
      BY <2>3, <2>10
    <3>2. browser'[b].person = s.person /\ browser'[b].at = "record"
      BY <2>3, <2>10
    <3> QED BY <1>1, <1>2, <1>4, <2>7, <2>8, <2>9, <3>1, <3>2
  <2> QED BY <1>3, <2>6, <2>10, <2>11, <2>12, SigningStep
<1>5. ASSUME WithMail(MailOf(s.person)) = {},
             browser' = [browser EXCEPT ![b] = [browser[b] EXCEPT
                           !.at = "name", !.name = CasName[s.person]]],
             crossed' = IF Creating(s.person) = {} THEN crossed ELSE crossed \cup {s.person},
             s.person \in Person
      PROVE  SignInv'
  <2>1. PICK t : t = [s EXCEPT !.at = "name", !.name = CasName[s.person]]
    OBVIOUS
  <2>2. CasName[s.person] \in Int
    BY <1>5, SignInAssumption
  <2>3. /\ t \in Signing /\ t.at = "name" /\ t.person = s.person
        /\ t.uid = s.uid /\ t.role = s.role
    BY <1>2, <2>1, <2>2 DEF Signing
  <2>4. browser' = [browser EXCEPT ![b] = t]
    BY <1>1, <1>5, <2>1
  <2>5. \A c \in Browser : browser'[c] = IF c = b THEN t ELSE browser[c]
    BY <2>4 DEF SignTypes
  <2>6. SignTypes'
    BY <1>3, <2>3, <2>4 DEF SignTypes
  <2>7. crossed \subseteq crossed'
    BY <1>5
  <2>8. DrawnFit'
    BY <1>1, <1>2, <1>3, <2>3, <2>5 DEF DrawnFit
  <2>9. MailsFit'
    BY <1>3, <2>7 DEF MailsFit
  <2>10. FirstsFit'
    <3> SUFFICES ASSUME NEW p \in Mailed, p \notin crossed'
                 PROVE  /\ \A c, d \in Browser :
                             /\ browser'[c].person = p /\ browser'[c].at \in AboutToCreate
                             /\ browser'[d].person = p /\ browser'[d].at \in AboutToCreate
                             => c = d
                        /\ \A c \in Browser :
                             browser'[c].person = p /\ browser'[c].at \in AboutToCreate =>
                               \A u \in Uid : account[u].name # 0 => owner[u] # p
                        /\ \A u, v \in Uid :
                             /\ account[u].name # 0 /\ owner[u] = p
                             /\ account[v].name # 0 /\ owner[v] = p
                             => u = v
      BY <1>3 DEF FirstsFit
    <3>1. p \notin crossed
      BY <2>7
    <3>2. CASE s.person # p
      <4>1. \A c \in Browser :
              browser'[c].person = p /\ browser'[c].at \in AboutToCreate =>
                browser[c].person = p /\ browser[c].at \in AboutToCreate
        BY <2>3, <2>5, <3>2
      <4> QED BY <3>1, <4>1 DEF FirstsFit
    <3>3. CASE s.person = p
      <4>1. \A c \in Browser : ~(browser[c].person = p /\ browser[c].at \in AboutToCreate)
        BY <1>5, <3>3 DEF Creating, AboutToCreate
      <4>2. \A u \in Uid : account[u].name # 0 => owner[u] # p
        <5>1. \A u \in Uid : ~(account[u].name # 0 /\ account[u].mail = p)
          BY <1>5, <3>3, SignConstants DEF WithMail, Exists
        <5> QED BY <3>1, <5>1 DEF MailsFit
      <4>3. \A c \in Browser :
              browser'[c].person = p /\ browser'[c].at \in AboutToCreate => c = b
        BY <2>5, <4>1
      <4> QED BY <4>2, <4>3
    <3> QED BY <3>2, <3>3
  <2>11. ClaimsFit'
    BY <1>3, <2>3, <2>5, <2>7 DEF ClaimsFit
  <2> QED BY <2>6, <2>8, <2>9, <2>10, <2>11
<1>6. CASE \E u \in WithMail(MailOf(browser[b].person)) :
               /\ Step(b, [browser[b] EXCEPT !.at = "record", !.uid = u,
                                             !.role = account[u].role])
               /\ UNCHANGED crossed
  <2>1. PICK u \in WithMail(MailOf(browser[b].person)) :
               /\ Step(b, [browser[b] EXCEPT !.at = "record", !.uid = u,
                                             !.role = account[u].role])
               /\ UNCHANGED crossed
    BY <1>6
  <2> QED BY <1>1, <1>4, <2>1, Zenon DEF Step
<1>7. CASE /\ WithMail(MailOf(browser[b].person)) = {}
           /\ Step(b, [browser[b] EXCEPT !.at = "name", !.name = CasName[browser[b].person]])
           /\ crossed' = IF Creating(browser[b].person) = {} THEN crossed
                         ELSE crossed \cup {browser[b].person}
  BY <1>1, <1>2, <1>5, <1>7, Zenon DEF Step
<1> QED BY <1>6, <1>7, Zenon DEF LookByMail

LEMMA LookByNameKeeps ==
  ASSUME SignInv, NEW b \in Browser, LookByName(b)
  PROVE  SignInv'
<1> USE DEF SignInv
<1>1. PICK s, t : s = browser[b] /\ t = browser'[b]
  OBVIOUS
<1>2. s \in Signing /\ s.at \in {"name", "prefixed"} /\ s.person \in Person
  BY <1>1 DEF LookByName, SignTypes, Signing, DrawnFit
<1>3. UNCHANGED <<account, uids, cookie, signDay, signAsks, owner, crossed>>
  BY Zenon DEF LookByName, OnlyBrowser
<1>4. PICK x : /\ browser' = [browser EXCEPT ![b] = x]
               /\ \/ x = [s EXCEPT !.at = "create"]
                  \/ x = [s EXCEPT !.at = "prefixed", !.name = Prefixed(@)]
                  \/ x = [s EXCEPT !.at = "create", !.name = RandomName(b)]
  BY <1>1, Zenon DEF LookByName, GoesTo, Step
<1>5. Prefixed(s.name) \in Int /\ RandomName(b) \in Int
  BY <1>2, SignTypes DEF SignTypes, Signing, Prefixed, RandomName
<1>6. /\ x \in Signing /\ x.at \in {"create", "prefixed"} /\ x.person = s.person
      /\ x.uid = s.uid /\ x.role = s.role
  BY <1>2, <1>4, <1>5 DEF Signing
<1>7. x = t /\ \A c \in Browser : c # b => browser'[c] = browser[c]
  BY <1>1, <1>4 DEF SignTypes
<1>8. SignTypes'
  BY <1>3, <1>4, <1>6 DEF SignTypes
<1>9. s.uid <= uids /\ s.role = NewClaim
  BY <1>1, <1>2 DEF DrawnFit
<1>10. x.at # "record" /\ s.at \in AboutToCreate
  BY <1>2, <1>6 DEF AboutToCreate
<1> QED BY <1>1, <1>2, <1>3, <1>6, <1>7, <1>8, <1>9, <1>10, SigningStep

\* A callback that ends, with an answer or without.
LEMMA FailsKeeps ==
  ASSUME SignInv, NEW b \in Browser, Fails(b),
         UNCHANGED <<account, uids, cookie, signDay, signAsks, owner>>,
         crossed \subseteq crossed'
  PROVE  SignInv'
<1>1. PICK x : x = NotSigning
  OBVIOUS
<1>2. x \in Signing /\ x.at = "idle" /\ x.uid = 0 /\ x.role = NewClaim
  BY <1>1, SignConstants
<1>3. browser' = [browser EXCEPT ![b] = x]
  BY <1>1, Zenon DEF Fails, Step
<1>4. browser'[b] = x /\ \A c \in Browser : c # b => browser'[c] = browser[c]
  BY <1>3 DEF SignInv, SignTypes
<1>5. SignTypes'
  BY <1>2, <1>3 DEF SignInv, SignTypes
<1>6. "idle" \notin AboutToCreate /\ 0 <= uids
  BY DEF AboutToCreate, SignInv, SignTypes
<1> QED BY <1>2, <1>4, <1>5, <1>6, SigningStep

\* The e-mail of an account is written over; of callbacks at most one ends.
LEMMA OverwriteKeeps ==
  ASSUME SignInv, NEW v \in Uid, NEW m \in Mail, account[v].name # 0,
         account' = Upserted(v, m), crossed' = crossed \cup Interferes(v, m),
         browser' \in [Browser -> Signing],
         \A b \in Browser : browser'[b] \in {browser[b], NotSigning},
         UNCHANGED <<uids, cookie, signDay, owner>>, signAsks' \in Nat
  PROVE  SignInv'
<1> USE DEF SignInv
<1>1. PICK old, new : /\ old = account[v]
                      /\ new = [old EXCEPT !.mail = IF m = NoMail THEN old.mail ELSE m]
  OBVIOUS
<1>2. /\ old \in Account /\ new \in Account /\ new.name = old.name
      /\ new.role = old.role
      /\ new.mail = IF m = NoMail THEN old.mail ELSE m
  BY <1>1 DEF SignTypes, Account
<1>3. account' = [account EXCEPT ![v] = new]
  <2>1. account' = [account EXCEPT ![v].mail = IF m = NoMail THEN @ ELSE m]
    BY Zenon DEF Upserted
  <2> QED BY <1>1, <2>1 DEF SignTypes, Account
<1>4. \A u \in Uid : account'[u] = IF u = v THEN new ELSE account[u]
  BY <1>3 DEF SignTypes
<1>5. \A u \in Uid : account'[u].name = account[u].name /\ account'[u].role = account[u].role
  BY <1>1, <1>2, <1>4
<1>6. PICK rest : rest = NotSigning
  OBVIOUS
<1>7. rest.at = "idle" /\ rest.uid = 0 /\ rest.role = NewClaim
  BY <1>6, SignConstants
<1>8. \A b \in Browser : browser'[b] = browser[b] \/ browser'[b] = rest
  BY <1>6
<1>9. SignTypes'
  BY <1>2, <1>3 DEF SignTypes
<1>10. crossed \subseteq crossed'
  OBVIOUS
<1>11. DrawnFit'
  <2>1. \A b \in Browser : browser'[b] = rest \/ browser'[b] = browser[b]
    BY <1>8
  <2>2. 0 <= uids
    BY DEF SignTypes
  <2> QED BY <1>5, <1>7, <2>1, <2>2 DEF DrawnFit
<1>12. MailsFit'
  <2>1. ASSUME NEW u \in Uid, account'[u].name # 0
        PROVE  /\ account'[u].mail # NoMail =>
                     owner[u] = account'[u].mail \/ account'[u].mail \in crossed'
               /\ owner[u] \in Mailed \ crossed' => account'[u].mail = owner[u]
    <3>1. CASE u # v
      BY <1>4, <1>10, <2>1, <3>1 DEF MailsFit
    <3>2. CASE u = v
      <4>1. owner[v] # NoMail => owner[v] \in crossed'
        BY DEF Interferes
      <4>2. m # NoMail => m \in crossed'
        BY DEF Interferes
      <4>3. account'[u].mail = IF m = NoMail THEN old.mail ELSE m
        BY <1>2, <1>4, <3>2
      <4>4. old.mail # NoMail => old.mail \in crossed'
        BY <1>1 DEF Interferes
      <4>5. NoMail \notin Mailed
        BY SignConstants
      <4> QED BY <3>2, <4>1, <4>2, <4>3, <4>4, <4>5
    <3> QED BY <3>1, <3>2
  <2> QED BY <2>1 DEF MailsFit
<1>13. FirstsFit'
  <2>1. \A b \in Browser : browser'[b].at \in AboutToCreate => browser'[b] = browser[b]
    BY <1>7, <1>8 DEF AboutToCreate
  <2> QED BY <1>5, <1>10, <2>1 DEF FirstsFit
<1>14. ClaimsFit'
  <2>1. \A b \in Browser : browser'[b].at = "record" => browser'[b] = browser[b]
    BY <1>7, <1>8
  <2>2. \A b \in Browser : browser[b].uid \in {0} \cup Uid /\ cookie[b].uid \in {0} \cup Uid
    BY DEF SignTypes, Signing, SignToken
  <2>3. \A b \in Browser : browser[b].at = "record" => browser[b].uid \in Uid
    BY <2>2 DEF DrawnFit
  <2> QED BY <1>5, <1>10, <2>1, <2>2, <2>3 DEF ClaimsFit
<1> QED BY <1>9, <1>11, <1>12, <1>13, <1>14

LEMMA CreateLooksKeeps ==
  ASSUME SignInv, NEW b \in Browser, CreateLooks(b)
  PROVE  SignInv'
<1> USE DEF SignInv
<1>1. PICK s : s = browser[b]
  OBVIOUS
<1>2. s \in Signing /\ s.at = "create" /\ s.person \in Person /\ s.person \in Mail
  BY <1>1 DEF CreateLooks, SignTypes, Signing, DrawnFit
<1>3. UNCHANGED <<uids, cookie, signDay, signAsks, owner>>
  BY Zenon DEF CreateLooks, OnlyBrowser
<1>4. ASSUME NEW u \in Named(s.name), Fails(b), account' = Upserted(u, MailOf(s.person)),
             crossed' = crossed \cup Interferes(u, MailOf(s.person))
      PROVE  SignInv'
  <2>1. PICK x : x = NotSigning
    OBVIOUS
  <2>2. browser' = [browser EXCEPT ![b] = x] /\ x \in Signing
    BY <1>4, <2>1, SignConstants, Zenon DEF Fails, Step
  <2>3. /\ browser' \in [Browser -> Signing]
        /\ \A c \in Browser : browser'[c] \in {browser[c], NotSigning}
    BY <2>1, <2>2 DEF SignTypes
  <2>4. u \in Uid /\ account[u].name # 0
    BY <1>4 DEF Named, Exists
  <2>5. MailOf(s.person) \in Mail
    BY <1>2, SignConstants
  <2>6. signAsks' \in Nat
    BY <1>3 DEF SignTypes
  <2> QED BY <1>3, <1>4, <2>3, <2>4, <2>5, <2>6, OverwriteKeeps
<1>5. ASSUME browser' = [browser EXCEPT ![b] = [browser[b] EXCEPT !.at = "insert"]],
             UNCHANGED <<account, crossed>>
      PROVE  SignInv'
  <2>1. PICK x : x = [s EXCEPT !.at = "insert"]
    OBVIOUS
  <2>2. /\ x \in Signing /\ x.at = "insert" /\ x.person = s.person
        /\ x.uid = s.uid /\ x.role = s.role
    BY <1>2, <2>1 DEF Signing
  <2>3. browser' = [browser EXCEPT ![b] = x]
    BY <1>1, <1>5, <2>1
  <2>4. browser'[b] = x /\ \A c \in Browser : c # b => browser'[c] = browser[c]
    BY <2>3 DEF SignTypes
  <2>5. SignTypes'
    BY <1>3, <1>5, <2>2, <2>3 DEF SignTypes
  <2>6. s.uid <= uids /\ s.role = NewClaim /\ s.at \in AboutToCreate
    BY <1>1, <1>2 DEF DrawnFit, AboutToCreate
  <2> QED BY <1>1, <1>2, <1>3, <1>5, <2>2, <2>4, <2>5, <2>6, SigningStep
<1>6. CASE \E u \in Named(s.name) :
             /\ account' = Upserted(u, MailOf(s.person))
             /\ crossed' = crossed \cup Interferes(u, MailOf(s.person))
             /\ Fails(b)
  BY <1>4, <1>6
<1>7. CASE ~Taken(s.name) /\ GoesTo(b, "insert") /\ UNCHANGED <<account, crossed>>
  BY <1>5, <1>7, Zenon DEF GoesTo, Step
<1> QED BY <1>1, <1>6, <1>7, Zenon DEF CreateLooks

\* A new account n with e-mail m gets the next identifier; o is the person it is
\* created for by the first sign-ins in B, or nobody.
Inserts(n, m, o, B) ==
  /\ uids < LastUid /\ uids' = uids + 1
  /\ account' = [account EXCEPT ![uids + 1] = NewAccount(n, m)]
  /\ owner' = [owner EXCEPT ![uids + 1] = o]
  /\ m # NoMail => m = o \/ m \in crossed'
  /\ o \in Mailed => m = o
  /\ crossed \subseteq crossed'
  /\ UNCHANGED <<cookie, signDay>>
  /\ signAsks' \in Nat
  /\ browser' \in [Browser -> Signing]
  /\ \A c \in Browser \ B : browser'[c] = browser[c]
  /\ \A c \in B : /\ browser[c].person = o /\ browser[c].at \in AboutToCreate
                   /\ browser'[c].at = "record" /\ browser'[c].uid = uids + 1
                   /\ browser'[c].person = o /\ browser'[c].role = NewClaim
  /\ o # NoMail => B # {}

LEMMA InsertKeeps ==
  ASSUME SignInv, NEW n \in Int, NEW m \in Mail, NEW o \in Mail,
         NEW B \in SUBSET Browser, Inserts(n, m, o, B)
  PROVE  SignInv'
<1> USE DEF SignInv, Inserts
<1>1. PICK k, a : k = uids + 1 /\ a = NewAccount(n, m)
  OBVIOUS
<1>2. k \in Uid /\ k # 0 /\ k \in Nat /\ uids \in Nat
  BY <1>1, SignInAssumption DEF SignTypes, Uid
<1>3. a \in Account /\ a.name = n /\ a.mail = m
  BY <1>1 DEF NewAccount, Account, AccountRole
<1>4. /\ \A u \in Uid : account'[u] = IF u = k THEN a ELSE account[u]
      /\ \A u \in Uid : owner'[u] = IF u = k THEN o ELSE owner[u]
  BY <1>1 DEF SignTypes
<1>5. SignTypes'
  <2>1. account' \in [Uid -> Account]
    BY <1>1, <1>3 DEF SignTypes
  <2>2. uids' \in 0 .. LastUid
    BY SignInAssumption DEF SignTypes
  <2> QED BY <2>1, <2>2 DEF SignTypes
<1>6. account[k].name = 0 /\ owner[k] = NoMail
  BY <1>1, <1>2 DEF DrawnFit
<1>7. \A c \in Browser : browser[c].uid # k /\ cookie[c].uid # k
                         /\ browser[c].uid <= k /\ cookie[c].uid <= k
  <2>1. \A c \in Browser : browser[c].uid \in Nat /\ cookie[c].uid \in Nat
    <3>1. \A c \in Browser : browser[c].uid \in {0} \cup Uid
                            /\ cookie[c].uid \in {0} \cup Uid
      BY DEF SignTypes, Signing, SignToken
    <3>2. \A u \in {0} \cup Uid : u \in Nat
      BY SignConstants
    <3> QED BY <3>1, <3>2
  <2>2. \A c \in Browser : browser[c].uid <= uids /\ cookie[c].uid <= uids
    BY DEF DrawnFit
  <2> QED BY <1>1, <1>2, <2>1, <2>2
<1>9. DrawnFit'
  <2>1. \A u \in Uid : u > k => u > uids /\ u # k
    BY <1>1, <1>2, SignConstants
  <2>2. \A u \in Uid : u > uids' => account'[u].name = 0 /\ owner'[u] = NoMail
    BY <1>1, <1>4, <2>1 DEF DrawnFit
  <2>3. k <= k
    BY <1>2
  <2>4. \A c \in B : browser[c].person \in Person
    BY DEF DrawnFit, AboutToCreate
  <2>5. \A c \in Browser :
           /\ browser'[c].uid <= uids' /\ cookie[c].uid <= uids'
           /\ browser'[c].at = "record" => browser'[c].uid # 0
           /\ browser'[c].at # "record" => browser'[c].role = NewClaim
           /\ browser'[c].at # "idle" => browser'[c].person \in Person
    <3> TAKE c \in Browser
    <3>1. CASE c \in B
      BY <1>1, <1>2, <1>7, <2>3, <2>4, <3>1
    <3>2. CASE c \notin B
      BY <1>1, <1>7, <3>2 DEF DrawnFit
    <3> QED BY <3>1, <3>2
  <2> QED BY <2>2, <2>5 DEF DrawnFit
<1>10. MailsFit'
  BY <1>3, <1>4 DEF MailsFit
<1>11. FirstsFit'
  <2> SUFFICES ASSUME NEW p \in Mailed, p \notin crossed'
               PROVE  /\ \A c, d \in Browser :
                           /\ browser'[c].person = p /\ browser'[c].at \in AboutToCreate
                           /\ browser'[d].person = p /\ browser'[d].at \in AboutToCreate
                           => c = d
                      /\ \A c \in Browser :
                           browser'[c].person = p /\ browser'[c].at \in AboutToCreate =>
                             \A u \in Uid : account'[u].name # 0 => owner'[u] # p
                      /\ \A u, v \in Uid :
                           /\ account'[u].name # 0 /\ owner'[u] = p
                           /\ account'[v].name # 0 /\ owner'[v] = p
                           => u = v
    BY DEF FirstsFit
  <2>1. p \notin crossed /\ p # NoMail
    BY SignConstants
  <2>2. \A c \in Browser : browser'[c].at \in AboutToCreate =>
          c \notin B /\ browser'[c] = browser[c]
    BY DEF AboutToCreate
  <2>3. CASE o # p
    <3>1. \A u \in Uid : account'[u].name # 0 /\ owner'[u] = p =>
            account[u].name # 0 /\ owner[u] = p
      BY <1>4, <2>3
    <3> QED BY <2>1, <2>2, <3>1 DEF FirstsFit
  <2>4. CASE o = p
    <3>1. PICK c \in B : TRUE
      BY <2>1, <2>4
    <3>2. c \in Browser /\ browser[c].person = p /\ browser[c].at \in AboutToCreate
      BY <2>4, <3>1
    <3>3. \A u \in Uid : account[u].name # 0 => owner[u] # p
      BY <2>1, <3>2 DEF FirstsFit
    <3>4. \A u \in Uid : account'[u].name # 0 /\ owner'[u] = p => u = k
      BY <1>4, <3>3
    <3>5. \A d \in Browser : ~(browser'[d].person = p /\ browser'[d].at \in AboutToCreate)
      BY <2>1, <2>2, <3>1, <3>2 DEF FirstsFit
    <3> QED BY <3>4, <3>5
  <2> QED BY <2>3, <2>4
<1>12. ClaimsFit'
  <2>1. \A c \in Browser : browser[c].uid \in {0} \cup Uid /\ cookie[c].uid \in {0} \cup Uid
    BY DEF SignTypes, Signing, SignToken
  <2>2. \A c \in Browser : browser[c].at = "record" => browser[c].uid \in Uid
    BY <2>1 DEF DrawnFit
  <2>3. NewClaim # "root"
    BY SignConstants
  <2>4. \A c \in Browser : browser'[c].at = "record" =>
         /\ owner'[browser'[c].uid] = browser'[c].person \/ browser'[c].person \in crossed'
         /\ browser'[c].role = "root" /\ account'[browser'[c].uid].name # 0
              => account'[browser'[c].uid].role = "root"
    <3> TAKE c \in Browser
    <3>1. CASE c \in B
      BY <1>1, <1>2, <1>4, <2>3, <3>1
    <3>2. CASE c \notin B
      <4>1. browser'[c] = browser[c] /\ browser[c].uid # k
        BY <1>7, <3>2
      <4> QED BY <1>4, <2>2, <4>1 DEF ClaimsFit
    <3> QED BY <3>1, <3>2
  <2>5. \A c \in Browser : cookie[c].uid # 0 =>
         /\ owner'[cookie[c].uid] = cookie[c].person \/ cookie[c].person \in crossed'
         /\ cookie[c].role = "root" /\ account'[cookie[c].uid].name # 0
              => account'[cookie[c].uid].role = "root"
    BY <1>4, <1>7, <2>1 DEF ClaimsFit
  <2> QED BY <2>4, <2>5 DEF ClaimsFit
<1> QED BY <1>5, <1>9, <1>10, <1>11, <1>12

LEMMA CreateInsertsKeeps ==
  ASSUME SignInv, NEW b \in Browser, CreateInserts(b)
  PROVE  SignInv'
<1>1. PICK s : s = browser[b]
  OBVIOUS
<1>2. /\ s \in Signing /\ s.at = "insert" /\ s.person \in Person /\ s.person \in Mail
      /\ s.name \in Int /\ s.role = NewClaim
  BY <1>1 DEF CreateInserts, SignInv, SignTypes, Signing, DrawnFit
<1>3. UNCHANGED <<cookie, signDay, signAsks, crossed>>
  BY Zenon DEF CreateInserts
<1>4. CASE Fails(b) /\ UNCHANGED <<account, uids, owner>>
  BY <1>3, <1>4, FailsKeeps
<1>5. ASSUME uids < LastUid, uids' = uids + 1,
             account' = [account EXCEPT ![uids + 1] = NewAccount(s.name, MailOf(s.person))],
             owner' = [owner EXCEPT ![uids + 1] = s.person],
             browser' = [browser EXCEPT ![b] = [s EXCEPT !.at = "record", !.uid = uids + 1]]
      PROVE  SignInv'
  <2>1. PICK x : x = [s EXCEPT !.at = "record", !.uid = uids + 1]
    OBVIOUS
  <2>2. uids + 1 \in Uid
    BY <1>5, SignInAssumption DEF SignInv, SignTypes, Uid
  <2>3. /\ x \in Signing /\ x.at = "record" /\ x.uid = uids + 1
        /\ x.person = s.person /\ x.role = NewClaim
    BY <1>2, <2>1, <2>2 DEF Signing
  <2>4. browser' = [browser EXCEPT ![b] = x]
    BY <1>5, <2>1
  <2>5. /\ browser' \in [Browser -> Signing] /\ browser'[b] = x
        /\ \A c \in Browser \ {b} : browser'[c] = browser[c]
    BY <2>3, <2>4 DEF SignInv, SignTypes
  <2>6. PICK m : m = MailOf(s.person)
    OBVIOUS
  <2>7. m \in Mail /\ (m # NoMail => m = s.person) /\ (s.person \in Mailed => m = s.person)
    BY <1>2, <2>6, SignConstants
  <2>8. account' = [account EXCEPT ![uids + 1] = NewAccount(s.name, m)]
    BY <1>5, <2>6
  <2>9. signAsks' \in Nat
    BY <1>3 DEF SignInv, SignTypes
  <2>10. \A c \in {b} : /\ browser[c].person = s.person /\ browser[c].at \in AboutToCreate
                        /\ browser'[c].at = "record" /\ browser'[c].uid = uids + 1
                        /\ browser'[c].person = s.person /\ browser'[c].role = NewClaim
    BY <1>1, <1>2, <2>3, <2>5 DEF AboutToCreate
  <2>11. PICK B : B = {b}
    OBVIOUS
  <2>12. B \in SUBSET Browser /\ B # {}
    BY <2>11
  <2>13. PICK n \in Int, o \in Mail : n = s.name /\ o = s.person
    BY <1>2
  <2>14. Inserts(n, m, o, B)
    <3>1. \A c \in B : /\ browser[c].person = o /\ browser[c].at \in AboutToCreate
                      /\ browser'[c].at = "record" /\ browser'[c].uid = uids + 1
                      /\ browser'[c].person = o /\ browser'[c].role = NewClaim
      BY <2>10, <2>11, <2>13
    <3>2. \A c \in Browser \ B : browser'[c] = browser[c]
      BY <2>5, <2>11
    <3>3. /\ account' = [account EXCEPT ![uids + 1] = NewAccount(n, m)]
          /\ owner' = [owner EXCEPT ![uids + 1] = o]
          /\ m # NoMail => m = o \/ m \in crossed'
          /\ o \in Mailed => m = o
      BY <1>5, <2>7, <2>8, <2>13
    <3> QED BY <1>3, <1>5, <2>5, <2>9, <2>12, <3>1, <3>2, <3>3 DEF Inserts
  <2> QED BY <2>7, <2>12, <2>13, <2>14, InsertKeeps
<1> QED BY <1>1, <1>4, <1>5, Zenon DEF CreateInserts, Step

\* A cookie is set or renewed; a callback may end with it.
LEMMA CookieStep ==
  ASSUME SignInv, NEW b \in Browser, NEW t \in SignToken,
         cookie' = [cookie EXCEPT ![b] = t],
         UNCHANGED <<account, uids, owner, crossed, signDay, signAsks, browser>>,
         t.uid <= uids,
         t.uid # 0 =>
           /\ owner[t.uid] = t.person \/ t.person \in crossed
           /\ t.role = "root" /\ account[t.uid].name # 0 => account[t.uid].role = "root"
  PROVE  SignInv'
<1> USE DEF SignInv
<1>1. \A c \in Browser : cookie'[c] = IF c = b THEN t ELSE cookie[c]
  BY DEF SignTypes
<1>2. SignTypes'
  BY DEF SignTypes
<1>3. DrawnFit'
  BY <1>1 DEF DrawnFit
<1>4. MailsFit' /\ FirstsFit'
  BY DEF MailsFit, FirstsFit
<1>5. ClaimsFit'
  BY <1>1 DEF ClaimsFit
<1> QED BY <1>2, <1>3, <1>4, <1>5

LEMMA IssueKeeps ==
  ASSUME SignInv, NEW b \in Browser, Issue(b)
  PROVE  SignInv'
<1> USE DEF SignInv
<1>1. PICK s, rest, t : /\ s = browser[b] /\ rest = NotSigning
                        /\ t = [uid |-> s.uid, person |-> s.person, role |-> s.role,
                                day |-> signDay]
  OBVIOUS
<1>2. /\ s.at = "record" /\ s \in Signing
      /\ cookie' = IF Exists(s.uid) THEN [cookie EXCEPT ![b] = t] ELSE cookie
      /\ browser' = [browser EXCEPT ![b] = rest]
      /\ UNCHANGED <<account, uids, signDay, signAsks, owner, crossed>>
  <2>1. s \in Signing
    BY <1>1 DEF SignTypes
  <2> QED BY <1>1, <2>1, Zenon DEF Issue, Fails, Step, Token
<1>3. rest \in Signing /\ rest.at = "idle" /\ rest.uid = 0 /\ rest.role = NewClaim
  BY <1>1, SignConstants
<1>4. t \in SignToken /\ t.uid = s.uid /\ t.person = s.person /\ t.role = s.role
  BY <1>1, <1>2 DEF SignTypes, Signing, SignToken
<1>5. \A c \in Browser : browser'[c] = IF c = b THEN rest ELSE browser[c]
  BY <1>2 DEF SignTypes
<1>6. \A c \in Browser : cookie'[c] = cookie[c] \/ (c = b /\ cookie'[c] = t)
  BY <1>2 DEF SignTypes
<1>7. SignTypes'
  BY <1>2, <1>3, <1>4 DEF SignTypes
<1>8. DrawnFit'
  <2>1. 0 <= uids /\ s.uid <= uids
    BY <1>1 DEF SignTypes, DrawnFit
  <2> QED BY <1>2, <1>3, <1>4, <1>5, <1>6, <2>1 DEF DrawnFit
<1>9. MailsFit'
  BY <1>2 DEF MailsFit
<1>10. FirstsFit'
  <2>1. \A c \in Browser : browser'[c].at \in AboutToCreate => browser'[c] = browser[c]
    BY <1>3, <1>5 DEF AboutToCreate
  <2> QED BY <1>2, <2>1 DEF FirstsFit
<1>11. ClaimsFit'
  <2>1. /\ owner[s.uid] = s.person \/ s.person \in crossed
        /\ s.role = "root" /\ account[s.uid].name # 0 => account[s.uid].role = "root"
    BY <1>1, <1>2 DEF ClaimsFit
  <2> QED BY <1>2, <1>3, <1>4, <1>5, <1>6, <2>1 DEF ClaimsFit
<1> QED BY <1>7, <1>8, <1>9, <1>10, <1>11

LEMMA RenewalsKeep ==
  ASSUME SignInv, NEW b \in Browser, Nav(b) \/ Refresh(b)
  PROVE  SignInv'
<1> USE DEF SignInv
<1>1. PICK g : g = cookie[b]
  OBVIOUS
<1>2. g \in SignToken
  BY <1>1 DEF SignTypes
<1>3. g.uid # 0 /\ g.uid \in Uid
      /\ UNCHANGED <<account, uids, browser, signDay, signAsks, owner, crossed>>
  <2>1. g.uid # 0
    BY <1>1 DEF Nav, Refresh, Holds
  <2>2. UNCHANGED <<account, uids, browser, signDay, signAsks, owner, crossed>>
    BY Zenon DEF Nav, Refresh
  <2> QED BY <1>2, <2>1, <2>2 DEF SignToken
<1>4. g.uid <= uids /\ signDay \in Nat
  BY <1>1 DEF DrawnFit, SignTypes
<1>5. owner[g.uid] = g.person \/ g.person \in crossed
  BY <1>1, <1>3 DEF ClaimsFit
<1>6. CASE Nav(b)
  <2>1. PICK t : t = [g EXCEPT !.day = signDay]
    OBVIOUS
  <2>2. cookie' = [cookie EXCEPT ![b] = t]
    <3>1. cookie' = [cookie EXCEPT ![b] = [@ EXCEPT !.day = signDay]]
      BY <1>6, Zenon DEF Nav, Renewed
    <3> QED BY <1>1, <2>1, <3>1 DEF SignTypes
  <2>3. t \in SignToken /\ t.uid = g.uid /\ t.person = g.person /\ t.role = g.role
    BY <1>2, <1>4, <2>1 DEF SignToken
  <2>4. t.role = "root" /\ account[t.uid].name # 0 => account[t.uid].role = "root"
    BY <1>1, <1>3, <2>3 DEF ClaimsFit
  <2> QED BY <1>3, <1>4, <1>5, <2>2, <2>3, <2>4, CookieStep
<1>7. CASE Refresh(b)
  <2>1. PICK t : t = [uid |-> g.uid, person |-> g.person, role |-> account[g.uid].role,
                      day |-> signDay]
    OBVIOUS
  <2>2. cookie' = [cookie EXCEPT ![b] = t]
    <3>1. cookie' = [cookie EXCEPT ![b] = Token(@.uid, @.person, account[@.uid].role)]
      BY <1>7, Zenon DEF Refresh
    <3> QED BY <1>1, <2>1, <3>1 DEF SignTypes, Token
  <2>3. account[g.uid].role \in AccountRole
    BY <1>3 DEF SignTypes, Account
  <2>4. t \in SignToken /\ t.uid = g.uid /\ t.person = g.person
        /\ t.role = account[g.uid].role
    BY <1>2, <1>4, <2>1, <2>3 DEF SignToken
  <2>5. t.role = "root" => account[t.uid].role = "root"
    BY <2>4
  <2> QED BY <1>3, <1>4, <1>5, <2>2, <2>4, <2>5, CookieStep
<1> QED BY <1>6, <1>7

LEMMA RolesKeep ==
  ASSUME SignInv, NEW v \in Uid, NEW r \in AccountRole,
         account' = WithRole(v, r), signAsks' \in Nat,
         UNCHANGED <<uids, browser, cookie, signDay, owner, crossed>>
  PROVE  SignInv'
<1> USE DEF SignInv
<1>1. PICK old, new : /\ old = account[v]
                      /\ new = [old EXCEPT !.role = IF old.role = "root" THEN old.role ELSE r]
  OBVIOUS
<1>2. /\ old \in Account /\ new \in Account /\ new.name = old.name /\ new.mail = old.mail
      /\ old.role = "root" => new.role = "root"
  BY <1>1 DEF SignTypes, Account
<1>3. account' = [account EXCEPT ![v] = new]
  <2>1. account' = [account EXCEPT ![v].role = IF @ = "root" THEN @ ELSE r]
    BY Zenon DEF WithRole
  <2> QED BY <1>1, <2>1 DEF SignTypes, Account
<1>4. \A u \in Uid : account'[u] = IF u = v THEN new ELSE account[u]
  BY <1>3 DEF SignTypes
<1>5. \A u \in Uid : /\ account'[u].name = account[u].name
                     /\ account'[u].mail = account[u].mail
                     /\ account[u].role = "root" => account'[u].role = "root"
  BY <1>1, <1>2, <1>4
<1>6. SignTypes'
  BY <1>2, <1>3 DEF SignTypes
<1>7. DrawnFit' /\ MailsFit'
  BY <1>5 DEF DrawnFit, MailsFit
<1>8. FirstsFit'
  BY <1>5 DEF FirstsFit
<1>9. ClaimsFit'
  <2>1. \A b \in Browser : browser[b].uid \in {0} \cup Uid /\ cookie[b].uid \in {0} \cup Uid
    BY DEF SignTypes, Signing, SignToken
  <2>2. \A b \in Browser : browser[b].at = "record" => browser[b].uid \in Uid
    BY <2>1 DEF DrawnFit
  <2> QED BY <1>5, <2>1, <2>2 DEF ClaimsFit
<1> QED BY <1>6, <1>7, <1>8, <1>9

LEMMA OutsideCreateKeeps ==
  ASSUME SignInv, NEW n \in Int, NEW m \in Mail, OutsideCreate(n, m)
  PROVE  SignInv'
<1> USE DEF SignInv
<1>1. UNCHANGED <<browser, cookie, signDay>> /\ signAsks' \in Nat
  <2>1. UNCHANGED <<browser, cookie, signDay>> /\ signAsks' = signAsks + 1
    BY Zenon DEF OutsideCreate, Asks, OnlyAccounts
  <2> QED BY <2>1 DEF SignTypes
<1>2. browser' \in [Browser -> Signing]
      /\ \A c \in Browser : browser'[c] \in {browser[c], NotSigning}
  BY <1>1 DEF SignTypes
<1>3. ASSUME NEW u \in Named(n), account' = Upserted(u, m),
             crossed' = crossed \cup Interferes(u, m), UNCHANGED <<uids, owner>>
      PROVE  SignInv'
  <2>1. u \in Uid /\ account[u].name # 0
    BY <1>3 DEF Named, Exists
  <2> QED BY <1>1, <1>2, <1>3, <2>1, OverwriteKeeps
<1>4. ASSUME uids < LastUid, uids' = uids + 1,
             account' = [account EXCEPT ![uids + 1] = NewAccount(n, m)],
             crossed' = crossed \cup ({m} \ {NoMail}), UNCHANGED owner
      PROVE  SignInv'
  <2>1. PICK o \in Mail, B \in SUBSET Browser : o = NoMail /\ B = {}
    BY SignConstants
  <2>2. uids + 1 \in Uid
    BY <1>4, SignInAssumption DEF SignTypes, Uid
  <2>3. owner[uids + 1] = NoMail
    BY <2>2 DEF DrawnFit, SignTypes
  <2>4. owner' = [owner EXCEPT ![uids + 1] = o]
    BY <1>4, <2>1, <2>2, <2>3 DEF SignTypes
  <2>5. o \notin Mailed
    BY <2>1, SignConstants
  <2>6. Inserts(n, m, o, B)
    BY <1>1, <1>2, <1>4, <2>1, <2>4, <2>5 DEF Inserts
  <2> QED BY <2>6, InsertKeeps
<1> QED BY <1>3, <1>4, Zenon DEF OutsideCreate

LEMMA SetDetailKeeps ==
  ASSUME SignInv, NEW u \in Uid, NEW m \in Mail, SetDetail(u, m)
  PROVE  SignInv'
<1>1. /\ UNCHANGED <<browser, cookie, signDay, uids, owner>> /\ signAsks' = signAsks + 1
      /\ account[u].name # 0 /\ account' = Upserted(u, m)
      /\ crossed' = crossed \cup Interferes(u, m)
  BY Zenon DEF SetDetail, Asks, OnlyAccounts, Exists
<1>2. signAsks' \in Nat /\ browser' \in [Browser -> Signing]
      /\ \A c \in Browser : browser'[c] \in {browser[c], NotSigning}
  BY <1>1 DEF SignInv, SignTypes
<1> QED BY <1>1, <1>2, OverwriteKeeps

LEMMA RoleRequestsKeep ==
  ASSUME SignInv, NEW u \in Uid, NEW r \in AccountRole,
         OutsideRole(u, r) \/ \E b \in Browser : AdminSetsRole(b, u, r)
  PROVE  SignInv'
<1>1. /\ UNCHANGED <<uids, browser, cookie, signDay, owner, crossed>>
      /\ account' = WithRole(u, r) /\ signAsks' \in {signAsks, signAsks + 1}
  <2>1. CASE OutsideRole(u, r)
    <3>1. /\ UNCHANGED <<uids, browser, cookie, signDay, owner, crossed>>
          /\ account' = WithRole(u, r) /\ signAsks' = signAsks + 1
      BY <2>1, Zenon DEF OutsideRole, Asks, OnlyAccounts
    <3> QED BY <3>1
  <2>2. ASSUME NEW b \in Browser, AdminSetsRole(b, u, r)
        PROVE  /\ UNCHANGED <<uids, browser, cookie, signDay, owner, crossed>>
               /\ account' = WithRole(u, r) /\ signAsks' \in {signAsks, signAsks + 1}
    <3>1. /\ UNCHANGED <<uids, browser, cookie, signDay, owner, crossed>>
          /\ account' = WithRole(u, r) /\ signAsks' = signAsks
      BY <2>2, Zenon DEF AdminSetsRole
    <3> QED BY <3>1
  <2> QED BY <2>1, <2>2
<1>2. signAsks' \in Nat
  BY <1>1 DEF SignInv, SignTypes
<1> QED BY <1>1, <1>2, RolesKeep

LEMMA PurgeAccountKeeps ==
  ASSUME SignInv, NEW v \in Uid, PurgeAccount(v)
  PROVE  SignInv'
<1> USE DEF SignInv
<1>1. PICK no : no = NoAccount
  OBVIOUS
<1>2. no \in Account /\ no.name = 0
  BY <1>1, SignConstants
<1>3. /\ UNCHANGED <<browser, cookie, signDay, uids, owner, crossed>>
      /\ signAsks' = signAsks + 1 /\ account' = [account EXCEPT ![v] = no]
  BY <1>1, Zenon DEF PurgeAccount, Asks, OnlyAccounts
<1>4. \A u \in Uid : account'[u] = IF u = v THEN no ELSE account[u]
  BY <1>3 DEF SignTypes
<1>5. SignTypes'
  BY <1>2, <1>3 DEF SignTypes
<1>6. DrawnFit' /\ MailsFit'
  BY <1>2, <1>3, <1>4 DEF DrawnFit, MailsFit
<1>7. \A u \in Uid : account'[u].name # 0 => account'[u] = account[u]
  BY <1>2, <1>4
<1>8. FirstsFit'
  BY <1>3, <1>7 DEF FirstsFit
<1>9. ClaimsFit'
  <2>1. \A b \in Browser : browser[b].uid \in {0} \cup Uid /\ cookie[b].uid \in {0} \cup Uid
    BY DEF SignTypes, Signing, SignToken
  <2>2. \A b \in Browser : browser[b].at = "record" => browser[b].uid \in Uid
    BY <2>1 DEF DrawnFit
  <2> QED BY <1>3, <1>7, <2>1, <2>2 DEF ClaimsFit
<1> QED BY <1>5, <1>6, <1>8, <1>9

LEMMA SignInvInit == SignInInit => SignInv
<1> SUFFICES ASSUME SignInInit PROVE SignInv
  OBVIOUS
<1>1. PICK no, rest, tok : no = NoAccount /\ rest = NotSigning /\ tok = NoToken
  OBVIOUS
<1>2. /\ account = [u \in Uid |-> no] /\ uids = 0
      /\ browser = [b \in Browser |-> rest] /\ cookie = [b \in Browser |-> tok]
      /\ signDay = 0 /\ signAsks = 0 /\ owner = [u \in Uid |-> NoMail] /\ crossed = {}
  BY <1>1, Zenon DEF SignInInit
<1>3. /\ no \in Account /\ no.name = 0 /\ rest \in Signing /\ rest.at = "idle"
      /\ rest.uid = 0 /\ rest.role = NewClaim /\ NoMail \in Mail
  BY <1>1, SignConstants
<1>4. tok \in SignToken /\ tok.uid = 0
  BY <1>1, <1>3 DEF NoToken, SignToken
<1>5. 0 \in 0 .. LastUid
  BY SignInAssumption
<1>6. SignTypes
  BY <1>2, <1>3, <1>4, <1>5 DEF SignTypes
<1>7. /\ \A u \in Uid : account[u].name = 0 /\ owner[u] = NoMail
      /\ \A b \in Browser : browser[b] = rest /\ cookie[b] = tok
  BY <1>2, <1>3
<1>8. DrawnFit
  BY <1>2, <1>3, <1>4, <1>7 DEF DrawnFit
<1>9. MailsFit /\ ClaimsFit
  BY <1>3, <1>4, <1>7 DEF MailsFit, ClaimsFit
<1>10. FirstsFit
  BY <1>3, <1>7 DEF FirstsFit, AboutToCreate
<1> QED BY <1>6, <1>8, <1>9, <1>10 DEF SignInv

LEMMA SignInvNext == SignInv /\ [SignInNext]_signVars => SignInv'
<1> SUFFICES ASSUME SignInv, [SignInNext]_signVars PROVE SignInv'
  OBVIOUS
<1>1. CASE NextSignDay \/ UNCHANGED signVars
  <2>1. UNCHANGED <<account, uids, browser, cookie, signAsks, owner, crossed>>
        /\ signDay' \in {signDay, signDay + 1}
    <3>1. CASE NextSignDay
      <4>1. UNCHANGED <<account, uids, browser, cookie, signAsks, owner, crossed>>
            /\ signDay' = signDay + 1
        BY <3>1, Zenon DEF NextSignDay
      <4> QED BY <4>1
    <3>2. CASE UNCHANGED signVars
      BY <3>2 DEF signVars
    <3> QED BY <1>1, <3>1, <3>2
  <2>2. SignTypes'
    BY <2>1 DEF SignInv, SignTypes
  <2>3. DrawnFit' /\ MailsFit' /\ FirstsFit' /\ ClaimsFit'
    BY <2>1 DEF SignInv, DrawnFit, MailsFit, FirstsFit, ClaimsFit
  <2> QED BY <2>2, <2>3 DEF SignInv
<1>2. ASSUME NEW b \in Browser,
             \/ \E p \in Person : Callback(b, p)
             \/ LookByMail(b) \/ LookByName(b) \/ CreateLooks(b) \/ CreateInserts(b)
             \/ Issue(b) \/ Nav(b) \/ Refresh(b)
             \/ \E u \in Uid, r \in AccountRole : AdminSetsRole(b, u, r)
      PROVE  SignInv'
  BY <1>2, CallbackKeeps, LookByMailKeeps, LookByNameKeeps, CreateLooksKeeps,
     CreateInsertsKeeps, IssueKeeps, RenewalsKeep, RoleRequestsKeep
<1>3. ASSUME NEW p \in Person, NEW m \in Mail, OutsideCreate(CasName[p], m)
      PROVE  SignInv'
  <2>1. CasName[p] \in Int
    BY SignInAssumption
  <2> QED BY <1>3, <2>1, OutsideCreateKeeps
<1>4. ASSUME NEW u \in Uid,
             \/ PurgeAccount(u)
             \/ \E m \in Mail : SetDetail(u, m)
             \/ \E r \in AccountRole : OutsideRole(u, r)
      PROVE  SignInv'
  BY <1>4, PurgeAccountKeeps, SetDetailKeeps, RoleRequestsKeep
<1> QED BY <1>1, <1>2, <1>3, <1>4, Zenon DEF SignInNext

LEMMA SignInvGives == SignInv => SignInHolds
<1> SUFFICES ASSUME SignInv PROVE SignInHolds
  OBVIOUS
<1>1. OneAccountEach
  <2> SUFFICES ASSUME NEW p \in Mailed \ crossed
               PROVE  Cardinality({u \in Uid : Exists(u) /\ owner[u] = p}) <= 1
    BY DEF OneAccountEach
  <2>1. PICK S : S = {u \in Uid : Exists(u) /\ owner[u] = p}
    OBVIOUS
  <2>2. \A u, v \in S : u = v
    BY <2>1 DEF SignInv, FirstsFit, Exists
  <2>3. CASE S = {}
    BY <2>1, <2>3, FS_EmptySet
  <2>4. ASSUME NEW u \in S
        PROVE  Cardinality(S) <= 1
    <3>1. S = {u}
      BY <2>2
    <3>2. Cardinality(S) = 1
      BY <3>1, FS_Singleton
    <3> QED BY <3>2
  <2> QED BY <2>1, <2>3, <2>4
<1>2. TokensAreOwners /\ RootClaimsHold
  BY DEF SignInv, ClaimsFit, TokensAreOwners, RootClaimsHold, Holds, Exists
<1> QED BY <1>1, <1>2 DEF SignInHolds

\* Signing in (create_local_user_from_casdoor of api/pptr_user_gateway.py, create
\* of services/user/account/base.py), for any number of persons, browsers and
\* accounts: a person with an e-mail has one account and the tokens of a browser
\* are of the account made for who signed in, unless an overlap or another service
\* interfered; whoever a token calls root is root.
THEOREM SignInsFindTheirOwn == SignInSpec => []SignInHolds
<1>1. SignInSpec => []SignInv
  BY SignInvInit, SignInvNext, PTL DEF SignInSpec
<1> QED BY <1>1, SignInvGives, PTL

-----------------------------------------------------------------------------
(* The desks of the administrators: lists of rows.                          *)

RowSet(S) == IsFiniteSet(S) /\ S \subseteq Nat

LEMMA OverIsLess ==
  ASSUME NEW S, RowSet(S), NEW r \in S
  PROVE  /\ Over(r, S) \subseteq S /\ r \notin Over(r, S) /\ IsFiniteSet(Over(r, S))
         /\ Cardinality(Over(r, S)) \in Nat /\ Cardinality(S) \in Nat
         /\ Cardinality(Over(r, S)) < Cardinality(S)
         /\ \A q \in S : q > r => Over(q, S) \subseteq Over(r, S) /\ q \in Over(r, S)
                                  /\ q \notin Over(q, S)
<1>0. IsFiniteSet(S) /\ S \subseteq Nat
  BY DEF RowSet
<1>1. Over(r, S) \in SUBSET S /\ r \notin Over(r, S)
  BY <1>0 DEF Over
<1>2. /\ IsFiniteSet(Over(r, S)) /\ Cardinality(Over(r, S)) \in Nat /\ Cardinality(S) \in Nat
      /\ Cardinality(Over(r, S)) <= Cardinality(S)
      /\ (Cardinality(Over(r, S)) = Cardinality(S) => Over(r, S) = S)
  BY <1>0, <1>1, FS_Subset, FS_CardinalityType
<1>3. ASSUME NEW q \in S, q > r
      PROVE  Over(q, S) \subseteq Over(r, S) /\ q \in Over(r, S) /\ q \notin Over(q, S)
  <2>1. r \in Nat /\ q \in Nat /\ \A x \in S : x \in Nat
    BY <1>0
  <2>2. ASSUME NEW x \in S, x > q
        PROVE  x > r
    BY <1>3, <2>1, <2>2
  <2>3. ~(q > q)
    BY <2>1
  <2> QED BY <1>3, <2>2, <2>3, Zenon DEF Over
<1> QED BY <1>1, <1>2, <1>3

LEMMA FewestOver ==
  ASSUME NEW S, IsFiniteSet(S), NEW D, D \subseteq S, D # {}
  PROVE  \E q \in D : \A x \in D : ~(Over(x, S) \subseteq Over(q, S) /\ Over(x, S) # Over(q, S))
<1> DEFINE B == {Over(q, S) : q \in D}
<1>1. B \subseteq SUBSET S /\ B # {}
  BY DEF Over
<1>2. PICK T \in B : \A U \in B : ~(U \subseteq T /\ U # T)
  <2> HIDE DEF B
  <2> QED BY <1>1, SmallestIsThere
<1> QED BY <1>2

LEMMA HighestIsThere ==
  ASSUME NEW S, RowSet(S), NEW D, D \subseteq S, D # {}
  PROVE  \E q \in D : \A x \in D : ~(x > q)
<1>1. PICK q \in D : \A x \in D :
        ~(Over(x, S) \subseteq Over(q, S) /\ Over(x, S) # Over(q, S))
  BY FewestOver, Zenon DEF RowSet
<1>2. ASSUME NEW x \in D, x > q
      PROVE  FALSE
  <2>1. x \in S /\ q \in S
    OBVIOUS
  <2>2. Over(x, S) \subseteq Over(q, S) /\ x \in Over(q, S) /\ x \notin Over(x, S)
    BY <1>2, <2>1, OverIsLess
  <2> QED BY <1>1, <2>2
<1> QED BY <1>2

\* The first rows of a list can be had from any part of it that holds them.
LEMMA TopIsEnough ==
  ASSUME NEW S, RowSet(S), NEW U, U \subseteq S, NEW m \in Nat,
         Window(S, 0, m) \subseteq U
  PROVE  \A from, n \in Nat : from + n <= m => Window(U, from, n) = Window(S, from, n)
<1> SUFFICES ASSUME NEW from \in Nat, NEW n \in Nat, from + n <= m
             PROVE  Window(U, from, n) = Window(S, from, n)
  OBVIOUS
<1>0. IsFiniteSet(S) /\ S \subseteq Nat
  BY DEF RowSet
<1>1. IsFiniteSet(U) /\ U \subseteq Nat /\ U \in SUBSET S /\ RowSet(U)
  BY <1>0, FS_Subset DEF RowSet
<1>2. ASSUME NEW r \in S, Cardinality(Over(r, S)) < m
      PROVE  r \in U /\ Over(r, U) = Over(r, S)
  <2>1. \A q \in S : Cardinality(Over(q, S)) < m => q \in U
    <3> TAKE q \in S
    <3>1. Cardinality(Over(q, S)) \in Nat
      BY OverIsLess
    <3> QED BY <3>1 DEF Window
  <2>2. ASSUME NEW q \in Over(r, S)
        PROVE  q \in Over(r, U)
    <3>1. q \in S /\ q > r
      BY DEF Over
    <3>2. Over(q, S) \in SUBSET Over(r, S) /\ IsFiniteSet(Over(r, S))
      BY <3>1, OverIsLess
    <3>3. Cardinality(Over(q, S)) <= Cardinality(Over(r, S))
          /\ Cardinality(Over(q, S)) \in Nat /\ Cardinality(Over(r, S)) \in Nat
      BY <3>2, FS_Subset, FS_CardinalityType
    <3>4. Cardinality(Over(q, S)) < m
      BY <1>2, <3>3
    <3> QED BY <2>1, <3>1, <3>4 DEF Over
  <2>3. Over(r, U) \subseteq Over(r, S)
    BY <1>1 DEF Over
  <2> QED BY <1>2, <2>1, <2>2, <2>3
<1>3. ASSUME NEW r \in U, ~(Cardinality(Over(r, S)) < m)
      PROVE  ~(Cardinality(Over(r, U)) < m)
  <2>1. CASE Over(r, S) \subseteq U
    <3>1. Over(r, U) = Over(r, S)
      BY <1>1, <2>1 DEF Over
    <3> QED BY <1>3, <3>1
  <2>2. CASE ~(Over(r, S) \subseteq U)
    <3> DEFINE D == Over(r, S) \ U
    <3>1. D # {} /\ D \subseteq S /\ \A q \in D : q \in S /\ q > r /\ q \notin U
      BY <2>2 DEF Over
    <3>5. PICK q \in D : \A x \in D : ~(x > q)
      <4> HIDE DEF D
      <4> QED BY <3>1, HighestIsThere
    <3>6. q \in S /\ q > r /\ q \notin U
      BY <3>1
    <3>7. Over(q, S) \subseteq Over(r, U)
      <4> SUFFICES ASSUME NEW x \in S, x > q PROVE x \in U /\ x > r
        BY DEF Over
      <4>1. x > r
        <5>1. x \in Nat /\ q \in Nat /\ r \in Nat
          BY <1>0, <1>1, <3>6
        <5> QED BY <3>6, <5>1
      <4>2. x \in Over(r, S)
        BY <4>1 DEF Over
      <4> QED BY <3>5, <4>1, <4>2
    <3>8. Cardinality(Over(q, S)) \in Nat /\ ~(Cardinality(Over(q, S)) < m)
      <4>1. Cardinality(Over(q, S)) \in Nat
        BY <3>6, OverIsLess
      <4>2. q \notin Window(S, 0, m)
        BY <3>6, Zenon
      <4> QED BY <3>6, <4>1, <4>2 DEF Window
    <3>9. IsFiniteSet(Over(r, U)) /\ Cardinality(Over(r, U)) \in Nat
      BY <1>1, OverIsLess
    <3>10. Cardinality(Over(q, S)) <= Cardinality(Over(r, U))
      BY <3>7, <3>9, FS_Subset
    <3> QED BY <3>8, <3>9, <3>10
  <2> QED BY <2>1, <2>2
<1>4. ASSUME NEW r \in S
      PROVE  r \in Window(U, from, n) <=> r \in Window(S, from, n)
  <2>1. CASE Cardinality(Over(r, S)) < m
    BY <1>2, <2>1 DEF Window
  <2>2. CASE ~(Cardinality(Over(r, S)) < m)
    <3>1. Cardinality(Over(r, S)) \in Nat
      BY OverIsLess
    <3>2. r \notin Window(S, from, n)
      BY <2>2, <3>1 DEF Window
    <3>3. ASSUME r \in U
          PROVE  r \notin Window(U, from, n)
      <4>1. ~(Cardinality(Over(r, U)) < m)
        BY <1>3, <2>2, <3>3
      <4>2. Cardinality(Over(r, U)) \in Nat
        BY <1>1, <3>3, OverIsLess
      <4> QED BY <4>1, <4>2 DEF Window
    <3>4. Window(U, from, n) \subseteq U
      BY DEF Window
    <3> QED BY <3>2, <3>3, <3>4
  <2> QED BY <2>1, <2>2
<1>5. Window(U, from, n) \subseteq S /\ Window(S, from, n) \subseteq S
  BY <1>1 DEF Window
<1> QED BY <1>4, <1>5

LEMMA TopIsSame ==
  ASSUME NEW S, RowSet(S), NEW U, U \subseteq S, NEW m \in Nat,
         Window(S, 0, m) \subseteq U
  PROVE  Window(U, 0, m) = Window(S, 0, m)
<1>1. \A from, n \in Nat : from + n <= m => Window(U, from, n) = Window(S, from, n)
  BY TopIsEnough
<1>2. 0 + m <= m
  OBVIOUS
<1> QED BY <1>1, <1>2

\* Pages follow each other; no page is left when all rows have had a place.
LEMMA WindowsJoin ==
  ASSUME NEW S, RowSet(S), NEW from \in Nat, NEW n \in Nat
  PROVE  /\ Window(S, 0, from) \cup Window(S, from, n) = Window(S, 0, from + n)
         /\ Window(S, 0, from) \cap Window(S, from, n) = {}
         /\ Window(S, 0, 0) = {}
         /\ from >= Cardinality(S) => Window(S, 0, from) = S
<1>1. \A r \in S : Cardinality(Over(r, S)) \in Nat /\ Cardinality(Over(r, S)) < Cardinality(S)
  BY OverIsLess
<1>2. Cardinality(S) \in Nat
  BY FS_CardinalityType DEF RowSet
<1>3. Window(S, 0, from) \cup Window(S, from, n) = Window(S, 0, from + n)
      /\ Window(S, 0, from) \cap Window(S, from, n) = {}
  <2> SUFFICES ASSUME NEW r \in S
               PROVE  /\ r \in Window(S, 0, from) \/ r \in Window(S, from, n)
                            <=> r \in Window(S, 0, from + n)
                      /\ ~(r \in Window(S, 0, from) /\ r \in Window(S, from, n))
    BY DEF Window
  <2> QED BY <1>1 DEF Window
<1>4. Window(S, 0, 0) = {}
  <2> SUFFICES ASSUME NEW r \in S
               PROVE  ~(Cardinality(Over(r, S)) >= 0 /\ Cardinality(Over(r, S)) < 0 + 0)
    BY Zenon DEF Window
  <2> QED BY <1>1
<1>5. ASSUME from >= Cardinality(S)
      PROVE  Window(S, 0, from) = S
  <2>1. \A r \in S : Cardinality(Over(r, S)) >= 0 /\ Cardinality(Over(r, S)) < 0 + from
    BY <1>1, <1>2, <1>5
  <2> QED BY <2>1, Zenon DEF Window
<1> QED BY <1>3, <1>4, <1>5

-----------------------------------------------------------------------------
(* The rows of the pieces.                                                  *)

OfficeData ==
  /\ piece \in [Piece -> AuditState \cup {"none"}]
  /\ sort \in [Piece -> Sort \cup {"none"}]
  /\ halves \in [Piece -> 1 .. 2]

LEMMA OfficeConstants ==
  /\ LastPiece \in Nat /\ OfficePages \in Nat /\ OfficeTurns \in Nat
  /\ PiecesPerPage \in Nat /\ PiecesPerPage > 0
  /\ IsFiniteSet(Sort) /\ Sort # {} /\ Asked \subseteq (SUBSET AuditState) \ {{}}
  /\ IsFiniteSet(Piece) /\ \A p \in Piece : p \in Nat /\ p > 0
<1>1. LastPiece \in Nat
  BY OfficeAssumption
<1>2. IsFiniteSet(Piece)
  BY <1>1, FS_Interval DEF Piece
<1> QED BY <1>1, <1>2, OfficeAssumption DEF Piece

LEMMA SomePieces ==
  ASSUME NEW S, S \subseteq Piece
  PROVE  IsFiniteSet(S) /\ Cardinality(S) \in Nat /\ S \subseteq Nat /\ RowSet(S)
BY OfficeConstants, FS_Subset, FS_CardinalityType DEF RowSet

LEMMA RowsAre ==
  ASSUME NEW p \in Piece
  PROVE  /\ \A r \in RowsOf(p) : r \in Nat /\ PieceOf(r) = p
         /\ 2 * p \in RowsOf(p) /\ RowsOf(p) \subseteq {2 * p, 2 * p + 1}
         /\ halves[p] = 1 => RowsOf(p) = {2 * p}
<1>1. p \in Nat
  BY OfficeConstants
<1>2. (2 * p) \div 2 = p /\ (2 * p + 1) \div 2 = p
  BY <1>1
<1> QED BY <1>1, <1>2 DEF RowsOf, PieceOf

\* The queue: its rows are those of the pieces found, each piece has one or two.
LEMMA QueueIs ==
  ASSUME NEW states, NEW sorts
  PROVE  /\ IsFiniteSet(Queue(states, sorts)) /\ Queue(states, sorts) \subseteq Nat
         /\ RowSet(Queue(states, sorts))
         /\ Found(states, sorts) \subseteq Piece
         /\ \A r \in Nat : r \in Queue(states, sorts) <=>
              PieceOf(r) \in Found(states, sorts) /\ r \in RowsOf(PieceOf(r))
         /\ Pieces(Queue(states, sorts)) = Found(states, sorts)
<1> DEFINE F == Found(states, sorts)
           Q == Queue(states, sorts)
<1>1. F \subseteq Piece
  BY DEF Found
<1>2. Q = UNION {RowsOf(p) : p \in F}
  BY DEF Queue
<1>3. \A r : r \in Q <=> \E p \in F : r \in RowsOf(p)
  BY <1>2
<1>4. \A r \in Q : r \in Nat /\ PieceOf(r) \in F /\ r \in RowsOf(PieceOf(r))
  <2> TAKE r \in Q
  <2>1. PICK p \in F : r \in RowsOf(p)
    BY <1>3
  <2> QED BY <1>1, <2>1, RowsAre
<1>5. IsFiniteSet(Q)
  <2>1. LastPiece \in Nat
    BY OfficeConstants
  <2>2. PICK b \in Int : b = 2 * LastPiece + 1
    BY <2>1
  <2>3. IsFiniteSet(0 .. b)
    BY FS_Interval
  <2>4. \A r \in Q : r \in 0 .. b
    <3> TAKE r \in Q
    <3>1. PICK p \in F : r \in RowsOf(p)
      BY <1>3
    <3>2. p \in 1 .. LastPiece /\ r \in {2 * p, 2 * p + 1}
      BY <1>1, <3>1, RowsAre DEF Piece
    <3> QED BY <2>1, <2>2, <3>2
  <2> QED BY <2>3, <2>4, FS_Subset
<1>6. Pieces(Q) = F
  <2>1. \A p \in F : 2 * p \in Q /\ PieceOf(2 * p) = p
    BY <1>1, <1>3, RowsAre
  <2> QED BY <1>4, <2>1 DEF Pieces
<1>7. RowSet(Q)
  BY <1>4, <1>5 DEF RowSet
<1> QED BY <1>1, <1>3, <1>4, <1>5, <1>6, <1>7

\* A queue of two kinds of pieces is the two queues.
LEMMA QueueSplits ==
  ASSUME NEW states, NEW a, NEW b, a \cap b = {}
  PROVE  /\ Found(states, a \cup b) = Found(states, a) \cup Found(states, b)
         /\ Queue(states, a \cup b) = Queue(states, a) \cup Queue(states, b)
         /\ Cardinality(Queue(states, a \cup b))
              = Cardinality(Queue(states, a)) + Cardinality(Queue(states, b))
         /\ Cardinality(Found(states, a \cup b))
              = Cardinality(Found(states, a)) + Cardinality(Found(states, b))
<1>1. Found(states, a \cup b) = Found(states, a) \cup Found(states, b)
      /\ Found(states, a) \cap Found(states, b) = {}
  BY DEF Found
<1>2. Queue(states, a \cup b) = Queue(states, a) \cup Queue(states, b)
  BY <1>1 DEF Queue
<1>3. Queue(states, a) \cap Queue(states, b) = {}
  <2> SUFFICES ASSUME NEW r \in Queue(states, a), r \in Queue(states, b) PROVE FALSE
    OBVIOUS
  <2>1. r \in Nat
    BY QueueIs
  <2>2. PieceOf(r) \in Found(states, a) /\ PieceOf(r) \in Found(states, b)
    BY <2>1, QueueIs
  <2> QED BY <1>1, <2>2
<1>4. /\ IsFiniteSet(Queue(states, a)) /\ IsFiniteSet(Queue(states, b))
      /\ IsFiniteSet(Found(states, a)) /\ IsFiniteSet(Found(states, b))
  BY QueueIs, SomePieces
<1>5. Cardinality({}) = 0
  BY FS_EmptySet
<1>6. Cardinality(Queue(states, a) \cup Queue(states, b))
        = Cardinality(Queue(states, a)) + Cardinality(Queue(states, b)) - Cardinality({})
  BY <1>3, <1>4, FS_Union
<1>7. Cardinality(Found(states, a) \cup Found(states, b))
        = Cardinality(Found(states, a)) + Cardinality(Found(states, b)) - Cardinality({})
  BY <1>1, <1>4, FS_Union
<1>8. /\ Cardinality(Queue(states, a)) \in Nat /\ Cardinality(Queue(states, b)) \in Nat
      /\ Cardinality(Found(states, a)) \in Nat /\ Cardinality(Found(states, b)) \in Nat
  BY <1>4, FS_CardinalityType
<1>9. Cardinality(Queue(states, a) \cup Queue(states, b))
        = Cardinality(Queue(states, a)) + Cardinality(Queue(states, b))
  BY <1>5, <1>6, <1>8
<1>10. Cardinality(Found(states, a) \cup Found(states, b))
        = Cardinality(Found(states, a)) + Cardinality(Found(states, b))
  BY <1>5, <1>7, <1>8
<1> QED BY <1>1, <1>2, <1>9, <1>10

LEMMA QueueOfNothing ==
  ASSUME NEW states
  PROVE  Queue(states, {}) = {} /\ Found(states, {}) = {} /\ Cardinality({}) = 0
BY FS_EmptySet DEF Queue, Found

\* How many rows there are to a number of pieces.
LEMMA RowsPerPiece ==
  ASSUME OfficeData, NEW F, F \subseteq Piece
  PROVE  LET Q == UNION {RowsOf(p) : p \in F}
         IN  /\ IsFiniteSet(Q) /\ Cardinality(Q) \in Nat
             /\ Cardinality(F) <= Cardinality(Q) /\ Cardinality(Q) <= 2 * Cardinality(F)
             /\ (\A p \in F : halves[p] = 1) => Cardinality(Q) = Cardinality(F)
<1> DEFINE E == {2 * p : p \in F}
           G == {p \in F : halves[p] = 2}
           O == {2 * p + 1 : p \in G}
<1>1. IsFiniteSet(F) /\ Cardinality(F) \in Nat /\ F \subseteq Nat
      /\ IsFiniteSet(G) /\ Cardinality(G) \in Nat /\ G \subseteq Nat
      /\ Cardinality(G) <= Cardinality(F)
  BY SomePieces, FS_Subset
<1>2. IsFiniteSet(E) /\ Cardinality(E) = Cardinality(F)
  <2>1. PICK f : f = [p \in F |-> 2 * p]
    OBVIOUS
  <2>2. f \in Bijection(F, E)
    BY <1>1, <2>1 DEF Bijection, Injection, Surjection, IsInjective
  <2>3. ExistsBijection(F, E)
    BY <2>2 DEF ExistsBijection
  <2> HIDE DEF E
  <2> QED BY <1>1, <2>3, FS_Bijection
<1>3. IsFiniteSet(O) /\ Cardinality(O) = Cardinality(G)
  <2>1. PICK f : f = [p \in G |-> 2 * p + 1]
    OBVIOUS
  <2>2. f \in Bijection(G, O)
    BY <1>1, <2>1 DEF Bijection, Injection, Surjection, IsInjective
  <2>3. ExistsBijection(G, O)
    BY <2>2 DEF ExistsBijection
  <2> HIDE DEF O, G
  <2> QED BY <1>1, <2>3, FS_Bijection
<1>4. UNION {RowsOf(p) : p \in F} = E \cup O
  BY DEF RowsOf
<1>5. E \cap O = {}
  BY <1>1
<1>6. (\A p \in F : halves[p] = 1) => G = {}
  OBVIOUS
<1> HIDE DEF E, O, G
<1>7. IsFiniteSet(E \cup O)
      /\ Cardinality(E \cup O) = Cardinality(E) + Cardinality(O) - Cardinality(E \cap O)
  BY <1>2, <1>3, FS_Union
<1>8. Cardinality({}) = 0
  BY FS_EmptySet
<1>9. PICK f \in Nat : f = Cardinality(F)
  BY <1>1
<1>10. PICK g \in Nat : g = Cardinality(G)
  BY <1>1
<1>11. IsFiniteSet(E \cup O) /\ Cardinality(E \cup O) = f + g /\ g <= f
       /\ ((\A p \in F : halves[p] = 1) => g = 0)
  <2>1. Cardinality(E \cap O) = 0
    BY <1>5, <1>8
  <2>2. (\A p \in F : halves[p] = 1) => g = 0
    BY <1>6, <1>8, <1>10
  <2> QED BY <1>1, <1>2, <1>3, <1>7, <1>9, <1>10, <2>1, <2>2
<1>12. /\ f + g \in Nat /\ f <= f + g /\ f + g <= 2 * f /\ (g = 0 => f + g = f)
  BY <1>11
<1> QED BY <1>4, <1>9, <1>11, <1>12, Zenon

LEMMA TablesAre ==
  ASSUME NEW sorts
  PROVE  /\ UNION Tables(sorts) = sorts
         /\ \A t, u \in Tables(sorts) : t = u \/ t \cap u = {}
         /\ sorts \subseteq Sort => \A t \in Tables(sorts) : t \subseteq Sort
<1>1. CASE desk = "reports"
  <2>1. Tables(sorts) = {{k} : k \in sorts}
    BY <1>1 DEF Tables
  <2> QED BY <2>1
<1>2. CASE desk # "reports"
  <2>1. Tables(sorts) = {sorts}
    BY <1>2 DEF Tables
  <2> QED BY <2>1
<1> QED BY <1>1, <1>2

\* The rows that the tables T give for the page after c.page, and those of them all.
CutOf(c, t) ==
  IF desk = "reports" /\ c.sorts = Sort
  THEN Window(Queue(c.states, t), 0, (c.page + 1) * PiecesPerPage)
  ELSE Window(Queue(c.states, t), c.page * PiecesPerPage, PiecesPerPage)
CutsOf(c, T) == UNION {CutOf(c, t) : t \in T}

\* What several tables give holds the first rows of them all together.
LEMMA TopOfTables ==
  ASSUME NEW states, NEW T, NEW m \in Nat
  PROVE  LET cut == UNION {Window(Queue(states, t), 0, m) : t \in T}
         IN  /\ Window(Queue(states, UNION T), 0, m) \subseteq cut
             /\ cut \subseteq Queue(states, UNION T)
<1> DEFINE Q == Queue(states, UNION T)
<1>1. \A t \in T : Queue(states, t) \subseteq Q
  BY DEF Queue, Found
<1>2. \A t \in T : Window(Queue(states, t), 0, m) \subseteq Q
  BY <1>1 DEF Window
<1>3. ASSUME NEW r \in Window(Q, 0, m)
      PROVE  \E t \in T : r \in Window(Queue(states, t), 0, m)
  <2>1. r \in Q /\ r \in Nat /\ RowSet(Q)
    BY <1>3, QueueIs DEF Window
  <2>2. Cardinality(Over(r, Q)) \in Nat /\ IsFiniteSet(Over(r, Q))
    BY <2>1, OverIsLess
  <2>3. Cardinality(Over(r, Q)) < m
    BY <1>3, <2>2 DEF Window
  <2>4. PieceOf(r) \in Found(states, UNION T) /\ r \in RowsOf(PieceOf(r))
    BY <2>1, QueueIs
  <2>5. PICK t \in T : PieceOf(r) \in Found(states, t)
    BY <2>4 DEF Found
  <2>6. r \in Queue(states, t)
    BY <2>1, <2>4, <2>5, QueueIs
  <2>7. Over(r, Queue(states, t)) \subseteq Over(r, Q)
    BY <1>1 DEF Over
  <2>8. Cardinality(Over(r, Queue(states, t))) <= Cardinality(Over(r, Q))
        /\ Cardinality(Over(r, Queue(states, t))) \in Nat
    BY <2>2, <2>7, FS_Subset, FS_CardinalityType
  <2>9. Cardinality(Over(r, Queue(states, t))) >= 0
        /\ Cardinality(Over(r, Queue(states, t))) < 0 + m
    BY <2>2, <2>3, <2>8
  <2> QED BY <2>6, <2>9 DEF Window
<1> QED BY <1>2, <1>3

\* The latest messages of a conversation are found in twice as many rows.
LEMMA LatestInRows ==
  ASSUME OfficeData, NEW k
  PROVE  get_session_context(k) = Window(Found(AuditState, {k}), 0, PiecesPerPage)
<1> DEFINE F == Found(AuditState, {k})
           Q == Queue(AuditState, {k})
           n == PiecesPerPage
           U == Pieces(Window(Q, 0, 2 * n))
<1>1. /\ IsFiniteSet(F) /\ F \subseteq Nat /\ F \subseteq Piece /\ n \in Nat
      /\ RowSet(F) /\ RowSet(Q) /\ Q \subseteq Nat /\ Pieces(Q) = F
  BY QueueIs, SomePieces, OfficeConstants
<1>2. U \subseteq F
  <2>1. Window(Q, 0, 2 * n) \subseteq Q
    BY DEF Window
  <2> QED BY <1>1, <2>1 DEF Pieces
<1>3. ASSUME NEW p \in Window(F, 0, n)
      PROVE  p \in U
  <2>1. p \in F /\ p \in Piece /\ p \in Nat
    BY <1>1, <1>3 DEF Window
  <2> DEFINE A == Over(p, F)
             B == UNION {RowsOf(q) : q \in A}
             C == Over(2 * p, Q)
  <2>2. A \subseteq F /\ IsFiniteSet(A) /\ Cardinality(A) \in Nat /\ A \subseteq Piece
    BY <1>1, <2>1, OverIsLess
  <2>3. Cardinality(A) < n
    BY <1>1, <1>3, <2>2 DEF Window
  <2>4. IsFiniteSet(B) /\ Cardinality(B) \in Nat /\ Cardinality(B) <= 2 * Cardinality(A)
    <3> HIDE DEF A
    <3> QED BY <2>2, RowsPerPiece
  <2>5. 2 * p \in Q /\ PieceOf(2 * p) = p /\ 2 * p \in Nat
    <3>1. 2 * p \in RowsOf(p) /\ PieceOf(2 * p) = p /\ 2 * p \in Nat
      BY <2>1, RowsAre
    <3> QED BY <2>1, <3>1, QueueIs
  <2>6. C \subseteq B \cup {2 * p + 1}
    <3> SUFFICES ASSUME NEW r \in Q, r > 2 * p, r # 2 * p + 1
                 PROVE  r \in B
      BY DEF Over
    <3>1. r \in Nat /\ PieceOf(r) \in F /\ r \in RowsOf(PieceOf(r))
      BY <1>1, QueueIs
    <3>2. PICK q : q = PieceOf(r)
      OBVIOUS
    <3>3. q \in Piece /\ q \in Nat /\ q \in F
      BY <1>1, <3>1, <3>2
    <3>4. r \in {2 * q, 2 * q + 1}
      BY <3>1, <3>2, <3>3, RowsAre
    <3>5. q > p
      BY <2>1, <3>1, <3>3, <3>4
    <3> QED BY <3>1, <3>2, <3>3, <3>5 DEF Over
  <2>7. IsFiniteSet(B \cup {2 * p + 1}) /\ Cardinality(B \cup {2 * p + 1}) \in Nat
        /\ Cardinality(B \cup {2 * p + 1}) <= Cardinality(B) + 1
    <3>1. IsFiniteSet(B \cup {2 * p + 1})
          /\ Cardinality(B \cup {2 * p + 1})
               = IF 2 * p + 1 \in B THEN Cardinality(B) ELSE Cardinality(B) + 1
      <4> HIDE DEF B
      <4> QED BY <2>4, FS_AddElement
    <3> QED BY <2>4, <3>1
  <2>8. Cardinality(C) \in Nat /\ Cardinality(C) < 2 * n
    <3>1. Cardinality(C) <= Cardinality(B \cup {2 * p + 1}) /\ IsFiniteSet(C)
      <4> HIDE DEF B, C
      <4> QED BY <2>6, <2>7, FS_Subset
    <3>2. Cardinality(C) \in Nat
      BY <3>1, FS_CardinalityType
    <3> HIDE DEF A, B, C
    <3> QED BY <1>1, <2>2, <2>3, <2>4, <2>7, <3>1, <3>2
  <2>9. 2 * p \in Window(Q, 0, 2 * n)
    <3>1. Cardinality(C) >= 0 /\ Cardinality(C) < 0 + 2 * n
      BY <1>1, <2>8
    <3> QED BY <2>5, <3>1, Zenon DEF Window
  <2> QED BY <2>5, <2>9, Zenon DEF Pieces
<1>4. Window(U, 0, n) = Window(F, 0, n)
  <2>1. Window(F, 0, n) \subseteq U
    BY <1>3
  <2> HIDE DEF U, F, n
  <2> QED BY <1>1, <1>2, <2>1, TopIsSame
<1> QED BY <1>4 DEF get_session_context

-----------------------------------------------------------------------------
(* The desks of the administrators: types and invariant.                    *)

OfficeRow == {r \in Nat : PieceOf(r) \in Piece}
Clerk ==
  [at: {"idle", "open", "counted"}, page: 0 .. OfficePages, states: SUBSET AuditState,
   sorts: SUBSET Sort, tables: SUBSET SUBSET Sort, table: SUBSET Sort, total: Nat,
   rows: SUBSET OfficeRow, got: SUBSET Piece, again: SUBSET Piece, due: SUBSET Piece,
   decided: SUBSET Piece, times: [Sort -> Nat], ended: BOOLEAN]
Tally ==
  [of: {"", "statistics", "stats"}, tables: SUBSET SUBSET Sort, left: SUBSET AuditState,
   by: [AuditState -> Nat], total: Nat]
Batch ==
  [todo: SUBSET Piece, state: AuditState \cup {""}, ok: SUBSET Piece, bad: SUBSET Piece,
   given: SUBSET Piece, broken: BOOLEAN]

OfficeTypes ==
  /\ OfficeData
  /\ desk \in Desk /\ duty \in Duty /\ made \in 0 .. LastPiece
  /\ \A p \in Piece : p > made => piece[p] = "none"
  /\ root \in BOOLEAN /\ msgAdmin \in BOOLEAN /\ turns \in 0 .. OfficeTurns
  /\ clerk \in Clerk /\ tally \in Tally /\ batch \in Batch
  /\ context \in [items: SUBSET Piece, all: SUBSET Piece]
  /\ desk # "messages" => \A p \in Piece : halves[p] = 1

\* Where a clerk stands: what it asked for, of which tables, and who it is.
Working(c) == c.at # "idle" \/ c.page > 0
ClerkFits(c) ==
  /\ ~Working(c) => c = NoClerk
  /\ Working(c) => /\ c.states # {}
                   /\ \/ desk = "reports" /\ c.sorts = Sort
                      \/ Tables(c.sorts) = {c.sorts}
  /\ c.at # "idle" => c.tables \subseteq Tables(c.sorts) /\ c.page < OfficePages
  /\ c.at = "counted" => c.table \in c.tables
  /\ ~root => c.states \subseteq {"auditing"} /\ c.decided = {}
  /\ c.ended => c.at = "idle" /\ c.page > 0
  /\ c.again \subseteq c.got

\* What it has been shown, of what is in the list: pages from the first on; and
\* of a page at work the count and the rows of the tables that were read.
ReadOf(c) ==
  (UNION (Tables(c.sorts) \ c.tables)) \cup (IF c.at = "counted" THEN c.table ELSE {})
PagingFits(c) ==
  /\ c.due = Found(c.states, c.sorts)
  /\ c.got = Pieces(Window(Queue(c.states, c.sorts), 0, c.page * PiecesPerPage))
  /\ desk # "messages" => c.again = {}
  /\ c.at # "idle" =>
       /\ c.total = Cardinality(Queue(c.states, ReadOf(c)))
       /\ c.rows = CutsOf(c, Tables(c.sorts) \ c.tables)
  /\ c.at = "idle" =>
       /\ c.total = Cardinality(Queue(c.states, c.sorts))
       /\ c.ended => c.page * PiecesPerPage >= c.total
       /\ desk = "reports" => c.times = load_report_counts

Decided3 == {"auditing", "rejected", "hidden"}
TallyFits(y) ==
  /\ y.of = "statistics" =>
       /\ y.tables \subseteq Tables(Sort)
       /\ \A s \in AuditState :
            y.by[s] = Cardinality(Found({s}, UNION (Tables(Sort) \ y.tables)))
  /\ y.of = "stats" /\ desk = "messages" =>
       /\ y.total = Cardinality(Found(AuditState, Sort))
       /\ \A s \in Decided3 \ y.left : y.by[s] = Cardinality(Queue({s}, Sort))

BatchFits(b) ==
  /\ b.ok \subseteq b.given /\ b.given \subseteq b.ok \cup b.bad
  /\ b.ok \cap b.bad = {} /\ b.todo \cap (b.ok \cup b.bad) = {}
  /\ ~b.broken => b.bad \cap b.given = {}
  /\ \A p, q \in b.bad \cap b.given : p = q
  /\ b.todo # {} => b.state \in AuditState

OfficeInv ==
  /\ OfficeTypes
  /\ \A c : clerk = c => ClerkFits(c)
  /\ turns = 0 => \A c : clerk = c /\ Working(c) => PagingFits(c)
  /\ turns = 0 => \A y : tally = y => TallyFits(y)
  /\ \A x : context = x => x.items = Window(x.all, 0, PiecesPerPage)
  /\ \A b : batch = b => BatchFits(b)

LEMMA OfficeInvInit == OfficeInit => OfficeInv
<1> SUFFICES ASSUME OfficeInit PROVE OfficeInv
  OBVIOUS
<1>1. OfficeData
  BY DEF OfficeInit, OfficeData
<1>2. NoClerk \in Clerk
  BY OfficeConstants DEF NoClerk, Clerk
<1>3. NoTally \in Tally
  BY DEF NoTally, Tally
<1>4. NoBatch \in Batch
  BY DEF NoBatch, Batch
<1>5. NoContext \in [items: SUBSET Piece, all: SUBSET Piece]
  BY DEF NoContext
<1>6. OfficeTypes
  <2>1. made \in 0 .. LastPiece /\ turns \in 0 .. OfficeTurns
    BY OfficeConstants DEF OfficeInit
  <2>2. \A p \in Piece : piece[p] = "none" /\ (desk # "messages" => halves[p] = 1)
    BY DEF OfficeInit
  <2>3. /\ desk \in Desk /\ duty \in Duty /\ root \in BOOLEAN /\ msgAdmin \in BOOLEAN
        /\ clerk = NoClerk /\ tally = NoTally /\ batch = NoBatch /\ context = NoContext
    BY Zenon DEF OfficeInit
  <2> QED BY <1>1, <1>2, <1>3, <1>4, <1>5, <2>1, <2>2, <2>3, Zenon DEF OfficeTypes
<1>7. ~Working(NoClerk) /\ ClerkFits(NoClerk)
  BY DEF NoClerk, ClerkFits, Working
<1>8. TallyFits(NoTally)
  BY DEF NoTally, TallyFits
<1>9. BatchFits(NoBatch)
  BY DEF NoBatch, BatchFits
<1>10. NoContext.items = Window(NoContext.all, 0, PiecesPerPage)
  BY DEF NoContext, Window
<1>11. clerk = NoClerk /\ tally = NoTally /\ batch = NoBatch /\ context = NoContext
  BY DEF OfficeInit
<1> QED BY <1>6, <1>7, <1>8, <1>9, <1>10, <1>11, Zenon DEF OfficeInv

LEMMA OfficeFrame ==
  ASSUME UNCHANGED <<piece, sort, halves, desk, root>>, NEW c
  PROVE  /\ ClerkFits(c)' <=> ClerkFits(c)
         /\ PagingFits(c)' <=> PagingFits(c)
         /\ TallyFits(c)' <=> TallyFits(c)
<1>1. \A s, t : Found(s, t)' = Found(s, t)
  BY DEF Found
<1>2. \A p : RowsOf(p)' = RowsOf(p)
  BY DEF RowsOf
<1>3. \A s, t : Queue(s, t)' = Queue(s, t)
  BY <1>1, <1>2 DEF Queue
<1>4. \A s : Tables(s)' = Tables(s)
  BY DEF Tables
<1>5. \A t : CutOf(c, t)' = CutOf(c, t)
  BY <1>3 DEF CutOf
<1>6. \A T : CutsOf(c, T)' = CutsOf(c, T)
  BY <1>5 DEF CutsOf
<1>7. ReadOf(c)' = ReadOf(c)
  BY <1>4 DEF ReadOf
<1>8. load_report_counts' = load_report_counts
  BY <1>1 DEF load_report_counts
<1>9. ClerkFits(c)' <=> ClerkFits(c)
  BY <1>4 DEF ClerkFits
<1>10. PagingFits(c)' <=> PagingFits(c)
  BY <1>1, <1>3, <1>4, <1>6, <1>7, <1>8 DEF PagingFits
<1>11. TallyFits(c)' <=> TallyFits(c)
  BY <1>1, <1>3, <1>4 DEF TallyFits
<1> QED BY <1>9, <1>10, <1>11

\* What is left alone stays typed, and a step of the clerk keeps what it fits.
LEMMA ClerkSteps ==
  ASSUME OfficeInv,
         UNCHANGED <<desk, duty, made, piece, sort, halves, roleVars, tally, context,
                     batch, turns>>,
         NEW c, clerk' = c, c \in Clerk, ClerkFits(c),
         turns = 0 /\ Working(c) => PagingFits(c)
  PROVE  OfficeInv'
<1>1. UNCHANGED <<piece, sort, halves, desk, root>>
  BY DEF roleVars
<1>2. OfficeTypes'
  BY DEF OfficeInv, OfficeTypes, OfficeData, roleVars
<1>3. ClerkFits(c)' /\ (turns = 0 /\ Working(c) => PagingFits(c)')
  BY <1>1, OfficeFrame
<1>4. turns = 0 => \A y : tally = y => TallyFits(y)'
  BY <1>1, OfficeFrame DEF OfficeInv
<1>5. \A x : context = x => x.items = Window(x.all, 0, PiecesPerPage)
  BY DEF OfficeInv
<1>6. \A b : batch = b => BatchFits(b)
  BY DEF OfficeInv
<1> QED BY <1>2, <1>3, <1>4, <1>5, <1>6 DEF OfficeInv

LEMMA TallySteps ==
  ASSUME OfficeInv,
         UNCHANGED <<desk, duty, made, piece, sort, halves, roleVars, clerk, context,
                     batch, turns>>,
         NEW y, tally' = y, y \in Tally, turns = 0 => TallyFits(y)
  PROVE  OfficeInv'
<1>1. UNCHANGED <<piece, sort, halves, desk, root>>
  BY DEF roleVars
<1>2. OfficeTypes'
  BY DEF OfficeInv, OfficeTypes, OfficeData, roleVars
<1>3. turns = 0 => TallyFits(y)'
  BY <1>1, OfficeFrame
<1>4. \A c : clerk = c => ClerkFits(c)'
  BY <1>1, OfficeFrame DEF OfficeInv
<1>5. turns = 0 => \A c : clerk = c /\ Working(c) => PagingFits(c)'
  BY <1>1, OfficeFrame DEF OfficeInv
<1>6. \A x : context = x => x.items = Window(x.all, 0, PiecesPerPage)
  BY DEF OfficeInv
<1>7. \A b : batch = b => BatchFits(b)
  BY DEF OfficeInv
<1> QED BY <1>2, <1>3, <1>4, <1>5, <1>6, <1>7 DEF OfficeInv

\* Before a clerk begins there is nothing to fit; afterwards turns are counted.
LEMMA TurnGives ==
  ASSUME OfficeInv, Turn
  PROVE  /\ turns' \in 0 .. OfficeTurns
         /\ Begun => turns' # 0
         /\ ~Begun => /\ clerk = NoClerk /\ tally = NoTally /\ context = NoContext
                      /\ batch = NoBatch
<1>1. turns \in 0 .. OfficeTurns /\ OfficeTurns \in Nat
  BY OfficeConstants DEF OfficeInv, OfficeTypes
<1>2. ~Begun => clerk = NoClerk /\ tally = NoTally /\ context = NoContext /\ batch = NoBatch
  BY DEF Begun
<1> QED BY <1>1, <1>2 DEF Turn

LEMMA DataSteps ==
  ASSUME OfficeInv, Turn, OfficeData', UNCHANGED <<desk, duty, roleVars, clerkVars>>,
         made' \in 0 .. LastPiece, \A p \in Piece : p > made' => piece'[p] = "none",
         desk # "messages" => \A p \in Piece : halves'[p] = 1
  PROVE  OfficeInv'
<1>1. OfficeTypes'
  BY TurnGives DEF OfficeInv, OfficeTypes, roleVars, clerkVars
<1>2. \A c : clerk = c => ClerkFits(c)'
  <2>1. \A s : Tables(s)' = Tables(s)
    BY DEF Tables
  <2> QED BY <2>1 DEF OfficeInv, ClerkFits, roleVars
<1>3. CASE Begun
  BY <1>1, <1>2, <1>3, TurnGives DEF OfficeInv, clerkVars
<1>4. CASE ~Begun
  <2>1. ~Working(NoClerk) /\ TallyFits(NoTally)'
    BY DEF NoClerk, Working, NoTally, TallyFits
  <2>2. clerk' = NoClerk /\ tally' = NoTally
    BY <1>4, TurnGives DEF clerkVars
  <2> QED BY <1>1, <1>2, <2>1, <2>2 DEF OfficeInv, clerkVars
<1> QED BY <1>3, <1>4

LEMMA MadeKeeps ==
  ASSUME OfficeInv, NEW s \in AuditState, NEW k \in Sort, Made(s, k)
  PROVE  OfficeInv'
<1>1. OfficeTypes /\ OfficeData
  BY DEF OfficeInv, OfficeTypes
<1>2. made' = made + 1 /\ made < LastPiece /\ made \in Nat /\ LastPiece \in Nat
      /\ made + 1 \in Piece
  BY <1>1, OfficeConstants DEF Made, OfficeTypes, Piece
<1>3. /\ piece' = [piece EXCEPT ![made + 1] = s] /\ sort' = [sort EXCEPT ![made + 1] = k]
      /\ halves' = halves /\ Turn /\ UNCHANGED <<desk, duty, roleVars, clerkVars>>
  BY DEF Made
<1>4. OfficeData'
  BY <1>1, <1>3 DEF OfficeData
<1>5. \A p \in Piece : p > made' => piece'[p] = "none"
  BY <1>1, <1>2, <1>3 DEF OfficeTypes, OfficeData, Piece
<1>6. desk # "messages" => \A p \in Piece : halves'[p] = 1
  BY <1>1, <1>3 DEF OfficeTypes
<1> QED BY <1>2, <1>3, <1>4, <1>5, <1>6, DataSteps

LEMMA BecomesKeeps ==
  ASSUME OfficeInv, NEW p \in Piece, NEW s \in AuditState, Becomes(p, s)
  PROVE  OfficeInv'
<1>1. OfficeTypes /\ OfficeData
  BY DEF OfficeInv, OfficeTypes
<1>2. /\ piece' = [piece EXCEPT ![p] = s] /\ piece[p] # "none" /\ made' = made
      /\ UNCHANGED <<sort, halves>> /\ Turn /\ UNCHANGED <<desk, duty, roleVars, clerkVars>>
  BY DEF Becomes, MayBecome
<1>3. OfficeData'
  BY <1>1, <1>2 DEF OfficeData
<1>4. \A q \in Piece : q > made' => piece'[q] = "none"
  BY <1>1, <1>2 DEF OfficeTypes, OfficeData
<1>5. made' \in 0 .. LastPiece /\ (desk # "messages" => \A q \in Piece : halves'[q] = 1)
  BY <1>1, <1>2 DEF OfficeTypes
<1> QED BY <1>2, <1>3, <1>4, <1>5, DataSteps

LEMMA PurgedKeeps ==
  ASSUME OfficeInv, NEW p \in Piece, Purged(p)
  PROVE  OfficeInv'
<1>1. OfficeTypes /\ OfficeData
  BY DEF OfficeInv, OfficeTypes
<1>2. /\ piece' \in {piece, [piece EXCEPT ![p] = "none"]}
      /\ halves' \in {halves, [halves EXCEPT ![p] = 1]}
      /\ UNCHANGED <<sort, made>> /\ Turn /\ UNCHANGED <<desk, duty, roleVars, clerkVars>>
  BY DEF Purged
<1>3. OfficeData'
  BY <1>1, <1>2 DEF OfficeData
<1>4. \A q \in Piece : q > made' => piece'[q] = "none"
  BY <1>1, <1>2 DEF OfficeTypes, OfficeData
<1>5. made' \in 0 .. LastPiece /\ (desk # "messages" => \A q \in Piece : halves'[q] = 1)
  BY <1>1, <1>2 DEF OfficeTypes, OfficeData
<1> QED BY <1>2, <1>3, <1>4, <1>5, DataSteps

LEMMA GrantsKeeps ==
  ASSUME OfficeInv, NEW b \in BOOLEAN, Grants(b)
  PROVE  OfficeInv'
<1>1. UNCHANGED <<piece, sort, halves, desk, root>>
  BY DEF Grants
<1>2. OfficeTypes'
  BY DEF OfficeInv, OfficeTypes, OfficeData, Grants, clerkVars
<1>3. UNCHANGED <<clerk, tally, context, batch, turns>>
  BY DEF Grants, clerkVars
<1> QED BY <1>1, <1>2, <1>3, OfficeFrame DEF OfficeInv

LEMMA BatchSteps ==
  ASSUME OfficeInv,
         UNCHANGED <<desk, duty, made, piece, sort, halves, roleVars, clerk, tally, context,
                     turns>>,
         NEW b, batch' = b, b \in Batch, BatchFits(b)
  PROVE  OfficeInv'
<1>1. UNCHANGED <<piece, sort, halves, desk, root>>
  BY DEF roleVars
<1>2. OfficeTypes'
  BY DEF OfficeInv, OfficeTypes, OfficeData, roleVars
<1> QED BY <1>1, <1>2, OfficeFrame DEF OfficeInv

LEMMA BatchStartsKeeps ==
  ASSUME OfficeInv, NEW ids \in SUBSET Piece, NEW s \in AuditState, BatchStarts(ids, s)
  PROVE  OfficeInv'
<1>1. PICK b : b = [NoBatch EXCEPT !.todo = ids, !.state = s]
  OBVIOUS
<1>2. b \in Batch /\ BatchFits(b)
  BY <1>1 DEF NoBatch, Batch, BatchFits
<1>3. batch' = b
      /\ UNCHANGED <<desk, duty, made, piece, sort, halves, roleVars, clerk, tally, context,
                     turns>>
  BY <1>1 DEF BatchStarts
<1> QED BY <1>2, <1>3, BatchSteps

LEMMA BatchStepKeeps ==
  ASSUME OfficeInv, NEW p \in Piece, BatchStep(p)
  PROVE  OfficeInv'
<1>1. OfficeTypes /\ OfficeData /\ batch \in Batch
  BY DEF OfficeInv, OfficeTypes
<1>2. BatchFits(batch) /\ p \in batch.todo
  BY DEF OfficeInv, BatchStep
<1>3. PICK b : b = batch'
  OBVIOUS
<1>4. b \in Batch /\ BatchFits(b)
  <2>1. ASSUME NEW ok, NEW bad, NEW given, NEW broken \in BOOLEAN,
               b = [batch EXCEPT !.todo = @ \ {p}, !.ok = ok, !.bad = bad, !.given = given,
                                 !.broken = broken],
               \/ /\ ok = batch.ok /\ bad = batch.bad \cup {p}
                  /\ \/ given = batch.given /\ (batch.broken => broken)
                     \/ given = batch.given \cup {p} /\ ~batch.broken /\ broken
               \/ /\ ok = batch.ok \cup {p} /\ bad = batch.bad /\ given = batch.given \cup {p}
                  /\ broken = batch.broken /\ ~batch.broken
        PROVE  b \in Batch /\ BatchFits(b)
    <3>1. /\ b.todo = batch.todo \ {p} /\ b.ok = ok /\ b.bad = bad /\ b.given = given
          /\ b.broken = broken /\ b.state = batch.state
      BY <1>1, <2>1 DEF Batch
    <3>2. ok \subseteq Piece /\ bad \subseteq Piece /\ given \subseteq Piece
      BY <1>1, <2>1 DEF Batch
    <3>3. b \in Batch
      BY <1>1, <2>1, <3>2 DEF Batch
    <3>4. /\ p \notin batch.ok /\ p \notin batch.bad /\ p \notin batch.given
      BY <1>2 DEF BatchFits
    <3>5. b.ok \subseteq b.given /\ b.given \subseteq b.ok \cup b.bad
      BY <1>2, <2>1, <3>1, Zenon DEF BatchFits
    <3>6. b.ok \cap b.bad = {} /\ b.todo \cap (b.ok \cup b.bad) = {}
      BY <1>2, <2>1, <3>1, <3>4 DEF BatchFits
    <3>7. ~b.broken => b.bad \cap b.given = {}
      BY <1>2, <2>1, <3>1, <3>4 DEF BatchFits
    <3>8. \A x, y \in b.bad \cap b.given : x = y
      BY <1>2, <2>1, <3>1, <3>4 DEF BatchFits
    <3>9. b.todo # {} => b.state \in AuditState
      BY <1>2, <3>1 DEF BatchFits
    <3> QED BY <3>3, <3>5, <3>6, <3>7, <3>8, <3>9 DEF BatchFits
  <2>2. ASSUME NEW stored \in BOOLEAN, NEW broken \in BOOLEAN, NotDone(p, stored, broken),
               stored => ~batch.broken /\ broken, batch.broken => broken
        PROVE  b \in Batch /\ BatchFits(b)
    <3>1. PICK given : given = IF stored THEN batch.given \cup {p} ELSE batch.given
      OBVIOUS
    <3>2. b = [batch EXCEPT !.todo = @ \ {p}, !.ok = batch.ok, !.bad = batch.bad \cup {p},
                            !.given = given, !.broken = broken]
      BY <1>1, <1>3, <2>2, <3>1 DEF NotDone, Batch
    <3>3. \/ given = batch.given /\ (batch.broken => broken)
          \/ given = batch.given \cup {p} /\ ~batch.broken /\ broken
      BY <2>2, <3>1
    <3> QED BY <2>1, <3>2, <3>3
  <2>3. ASSUME batch' = [batch EXCEPT !.todo = @ \ {p}, !.ok = @ \cup {p},
                                      !.given = @ \cup {p}], ~batch.broken
        PROVE  b \in Batch /\ BatchFits(b)
    <3>1. b = [batch EXCEPT !.todo = @ \ {p}, !.ok = batch.ok \cup {p}, !.bad = batch.bad,
                            !.given = batch.given \cup {p}, !.broken = batch.broken]
      BY <1>1, <1>3, <2>3 DEF Batch
    <3>2. batch.broken \in BOOLEAN
      BY <1>1 DEF Batch
    <3> QED BY <2>1, <2>3, <3>1, <3>2
  <2> QED BY <2>2, <2>3 DEF BatchStep
<1>5. \/ UNCHANGED <<piece, turns>>
      \/ /\ piece[p] # "none" /\ piece' = [piece EXCEPT ![p] = batch.state] /\ Turn
  BY DEF BatchStep
<1>6. UNCHANGED <<desk, duty, made, sort, halves, roleVars, clerk, tally, context>>
  BY DEF BatchStep
<1>7. CASE UNCHANGED <<piece, turns>>
  BY <1>3, <1>4, <1>6, <1>7, BatchSteps
<1>8. CASE piece[p] # "none" /\ piece' = [piece EXCEPT ![p] = batch.state] /\ Turn
  <2>1. Begun
    <3>1. NoBatch.todo = {}
      BY DEF NoBatch
    <3>2. batch # NoBatch
      BY <1>2, <3>1
    <3> QED BY <3>2 DEF Begun
  <2>2. turns' \in 0 .. OfficeTurns /\ turns' # 0
    BY <1>8, <2>1, TurnGives
  <2>3. batch.state \in AuditState
    BY <1>2 DEF BatchFits
  <2>4. OfficeTypes'
    BY <1>1, <1>3, <1>4, <1>6, <1>8, <2>2, <2>3 DEF OfficeTypes, OfficeData, roleVars
  <2>5. \A c : clerk = c => ClerkFits(c)'
    <3>1. \A s : Tables(s)' = Tables(s)
      BY <1>6 DEF Tables
    <3> QED BY <1>6, <3>1 DEF OfficeInv, ClerkFits, roleVars
  <2> QED BY <1>3, <1>4, <1>6, <2>2, <2>4, <2>5 DEF OfficeInv
<1> QED BY <1>5, <1>7, <1>8

LEMMA ContextKeeps ==
  ASSUME OfficeInv, NEW k \in Sort, session_context(k)
  PROVE  OfficeInv'
<1>1. UNCHANGED <<piece, sort, halves, desk, root>>
  BY DEF session_context, roleVars
<1>2. PICK x : x = [items |-> Window(Found(AuditState, {k}), 0, PiecesPerPage),
                    all |-> Found(AuditState, {k})]
  OBVIOUS
<1>3. context' = x
  BY <1>2, LatestInRows DEF session_context, OfficeInv, OfficeTypes
<1>4. x \in [items: SUBSET Piece, all: SUBSET Piece]
      /\ x.items = Window(x.all, 0, PiecesPerPage)
  BY <1>2 DEF Found, Window
<1>5. UNCHANGED <<desk, duty, made, piece, sort, halves, roleVars, clerk, tally, batch, turns>>
  BY DEF session_context
<1>6. OfficeTypes'
  BY <1>3, <1>4, <1>5 DEF OfficeInv, OfficeTypes, OfficeData, roleVars
<1> QED BY <1>1, <1>3, <1>4, <1>5, <1>6, OfficeFrame DEF OfficeInv

-----------------------------------------------------------------------------
(* The desks of the administrators: pages and statistics.                   *)

LEMMA MayAskGives ==
  ASSUME desk \in Desk, NEW states, NEW sorts, MayAsk(states, sorts)
  PROVE  (desk = "reports" /\ sorts = Sort) \/ Tables(sorts) = {sorts}
<1>1. CASE desk = "reports"
  <2>1. list_reports(states, sorts)
    BY <1>1 DEF MayAsk
  <2>2. sorts = Sort \/ \E k \in Sort : sorts = {k}
    BY <2>1 DEF list_reports, AllOrOne
  <2>3. \A k : {{j} : j \in {k}} = {{k}}
    OBVIOUS
  <2> QED BY <1>1, <2>2, <2>3 DEF Tables
<1>2. CASE desk # "reports"
  BY <1>2 DEF Tables
<1> QED BY <1>1, <1>2

LEMMA AsksPageKeeps ==
  ASSUME OfficeInv, NEW states \in Asked, NEW sorts \in SUBSET Sort, AsksPage(states, sorts)
  PROVE  OfficeInv'
<1> DEFINE visible == VisibleStates(states)
<1>1. PICK k : k = clerk
  OBVIOUS
<1>2. k \in Clerk /\ ClerkFits(k) /\ desk \in Desk /\ root \in BOOLEAN
      /\ (turns = 0 /\ Working(k) => PagingFits(k))
  BY <1>1 DEF OfficeInv, OfficeTypes
<1>3. k.at = "idle" /\ ~k.ended /\ k.page < OfficePages /\ MayAsk(states, sorts)
      /\ (k.page > 0 => states = k.states /\ sorts = k.sorts)
  BY <1>1 DEF AsksPage
<1>4. states \in SUBSET AuditState /\ states # {}
  BY OfficeConstants
<1>5. visible \in SUBSET AuditState /\ visible # {} /\ (~root => visible \subseteq {"auditing"})
  BY <1>4 DEF VisibleStates, AuditState
<1>6. k.page > 0 => visible = k.states /\ sorts = k.sorts
  <2>1. ASSUME k.page > 0, ~root
        PROVE  k.states = {"auditing"}
    BY <1>2, <1>3, <1>4, <2>1 DEF ClerkFits
  <2> QED BY <1>3, <2>1 DEF VisibleStates
<1>7. \A t \in Tables(sorts) : t \subseteq Sort
  BY TablesAre
<1> HIDE DEF visible
<1>8. PICK c : c = [k EXCEPT !.at = "open", !.states = visible, !.sorts = sorts,
                      !.tables = Tables(sorts), !.total = 0, !.rows = {},
                      !.due = IF k.page = 0 THEN Found(visible, sorts) ELSE @]
  OBVIOUS
<1>9. /\ c.at = "open" /\ c.page = k.page /\ c.states = visible /\ c.sorts = sorts
      /\ c.tables = Tables(sorts) /\ c.total = 0 /\ c.rows = {} /\ c.got = k.got
      /\ c.again = k.again /\ c.decided = k.decided /\ c.ended = k.ended
      /\ c.due = IF k.page = 0 THEN Found(visible, sorts) ELSE k.due
  BY <1>2, <1>8 DEF Clerk
<1>10. c \in Clerk
  <2>1. Found(visible, sorts) \subseteq Piece
    BY QueueIs
  <2>2. Tables(sorts) \in SUBSET SUBSET Sort
    BY <1>7
  <2> QED BY <1>2, <1>5, <1>8, <2>1, <2>2 DEF Clerk
<1>11. ClerkFits(c)
  <2>1. (desk = "reports" /\ sorts = Sort) \/ Tables(sorts) = {sorts}
    BY <1>2, <1>3, MayAskGives
  <2>2. c.ended = FALSE
    BY <1>2, <1>3, <1>9 DEF Clerk
  <2>3. Working(c) /\ c.at = "open" /\ c.tables = Tables(c.sorts) /\ c.page < OfficePages
    BY <1>3, <1>9 DEF Working
  <2>4. c.states # {} /\ (~root => c.states \subseteq {"auditing"})
        /\ ((desk = "reports" /\ c.sorts = Sort) \/ Tables(c.sorts) = {c.sorts})
    BY <1>5, <1>9, <2>1
  <2>5. (~root => c.decided = {}) /\ c.again \subseteq c.got
    BY <1>2, <1>9 DEF ClerkFits
  <2> QED BY <2>2, <2>3, <2>4, <2>5 DEF ClerkFits
<1>12. turns = 0 => PagingFits(c)
  <2> SUFFICES ASSUME turns = 0 PROVE PagingFits(c)
    OBVIOUS
  <2>1. c.total = Cardinality(Queue(c.states, ReadOf(c)))
        /\ c.rows = CutsOf(c, Tables(c.sorts) \ c.tables)
    <3>1. ReadOf(c) = {} /\ Tables(c.sorts) \ c.tables = {}
      BY <1>9 DEF ReadOf
    <3> QED BY <1>9, <3>1, QueueOfNothing DEF CutsOf
  <2>2. CASE k.page > 0
    <3>1. PagingFits(k)
      BY <1>2, <2>2 DEF Working
    <3>2. k.states = visible /\ k.sorts = sorts /\ c.due = k.due
      BY <1>2, <1>6, <1>9, <2>2 DEF Clerk
    <3> QED BY <1>9, <2>1, <3>1, <3>2 DEF PagingFits
  <2>3. CASE ~(k.page > 0)
    <3>1. k.page = 0
      BY <1>2, <2>3, OfficeConstants DEF Clerk
    <3>2. k = NoClerk
      BY <1>2, <1>3, <2>3 DEF ClerkFits, Working
    <3>3. k.got = {} /\ k.again = {}
      BY <3>2 DEF NoClerk
    <3>4. Window(Queue(visible, sorts), 0, 0 * PiecesPerPage) = {}
      <4>1. 0 * PiecesPerPage = 0
        BY OfficeConstants
      <4>2. RowSet(Queue(visible, sorts))
        BY QueueIs
      <4>3. Window(Queue(visible, sorts), 0, 0) = {}
        BY <4>2, WindowsJoin
      <4> QED BY <4>1, <4>3
    <3>5. c.got = Pieces(Window(Queue(c.states, c.sorts), 0, c.page * PiecesPerPage))
      BY <1>9, <3>1, <3>3, <3>4 DEF Pieces
    <3> QED BY <1>9, <2>1, <3>1, <3>3, <3>5 DEF PagingFits
  <2> QED BY <2>2, <2>3
<1>13. clerk' = c
       /\ UNCHANGED <<desk, duty, made, piece, sort, halves, roleVars, tally, context, batch, turns>>
  BY <1>1, <1>8 DEF AsksPage, visible
<1> QED BY <1>10, <1>11, <1>12, <1>13, ClerkSteps

LEMMA CountsKeeps ==
  ASSUME OfficeInv, NEW t \in SUBSET Sort, Counts(t)
  PROVE  OfficeInv'
<1>1. PICK k : k = clerk
  OBVIOUS
<1>2. k \in Clerk /\ ClerkFits(k) /\ (turns = 0 /\ Working(k) => PagingFits(k))
  BY <1>1 DEF OfficeInv, OfficeTypes
<1>3. k.at = "open" /\ t \in k.tables
  BY <1>1 DEF Counts
<1>4. PICK n : n = Cardinality(Queue(k.states, t))
  OBVIOUS
<1>5. n \in Nat
  BY <1>4, QueueIs, FS_CardinalityType
<1>6. PICK c : c = [k EXCEPT !.at = "counted", !.table = t, !.total = @ + n]
  OBVIOUS
<1>7. /\ c.at = "counted" /\ c.table = t /\ c.total = k.total + n /\ c.page = k.page
      /\ c.states = k.states /\ c.sorts = k.sorts /\ c.tables = k.tables /\ c.rows = k.rows
      /\ c.got = k.got /\ c.again = k.again /\ c.decided = k.decided /\ c.ended = k.ended
      /\ c.due = k.due /\ k.total \in Nat
  BY <1>2, <1>6 DEF Clerk
<1>8. c \in Clerk
  <2>1. k.total + n \in Nat
    BY <1>5, <1>7
  <2>2. c = [k EXCEPT !.at = "counted", !.table = t, !.total = k.total + n]
    BY <1>2, <1>6 DEF Clerk
  <2> QED BY <1>2, <2>1, <2>2 DEF Clerk
<1>9. ClerkFits(c)
  BY <1>2, <1>3, <1>7 DEF ClerkFits, Working
<1>10. turns = 0 => PagingFits(c)
  <2> SUFFICES ASSUME turns = 0 PROVE PagingFits(c)
    OBVIOUS
  <2>1. PagingFits(k)
    BY <1>2, <1>3 DEF Working
  <2> DEFINE R == UNION (Tables(k.sorts) \ k.tables)
  <2>2. ReadOf(k) = R /\ ReadOf(c) = R \cup t
    <3>1. ReadOf(k) = R \cup (IF k.at = "counted" THEN k.table ELSE {})
      BY Zenon DEF ReadOf
    <3>2. ReadOf(c) = R \cup (IF c.at = "counted" THEN c.table ELSE {})
      BY <1>7, Zenon DEF ReadOf
    <3> HIDE DEF R
    <3> QED BY <1>3, <1>7, <3>1, <3>2
  <2>3. R \cap t = {}
    <3>1. t \in Tables(k.sorts)
      BY <1>2, <1>3 DEF ClerkFits
    <3>2. \A u \in Tables(k.sorts) \ k.tables : u \cap t = {}
      BY <1>3, <3>1, TablesAre
    <3> QED BY <3>2
  <2> HIDE DEF R
  <2>4. Cardinality(Queue(k.states, R \cup t)) = Cardinality(Queue(k.states, R)) + n
    BY <1>4, <2>3, QueueSplits
  <2>5. k.total = Cardinality(Queue(k.states, R))
    BY <1>3, <2>1, <2>2 DEF PagingFits
  <2>6. c.total = Cardinality(Queue(c.states, ReadOf(c)))
    BY <1>7, <2>2, <2>4, <2>5
  <2>7. CutsOf(c, Tables(c.sorts) \ c.tables) = CutsOf(k, Tables(k.sorts) \ k.tables)
    BY <1>7 DEF CutsOf, CutOf
  <2> QED BY <1>3, <1>7, <2>1, <2>6, <2>7 DEF PagingFits
<1>11. clerk' = c
       /\ UNCHANGED <<desk, duty, made, piece, sort, halves, roleVars, tally, context, batch, turns>>
  BY <1>1, <1>4, <1>6 DEF Counts
<1> QED BY <1>8, <1>9, <1>10, <1>11, ClerkSteps

LEMMA ListsKeeps ==
  ASSUME OfficeInv, Lists
  PROVE  OfficeInv'
<1>1. PICK k : k = clerk
  OBVIOUS
<1>2. k \in Clerk /\ ClerkFits(k) /\ (turns = 0 /\ Working(k) => PagingFits(k))
  BY <1>1 DEF OfficeInv, OfficeTypes
<1>3. k.at = "counted" /\ k.table \in k.tables
  BY <1>1, <1>2 DEF Lists, ClerkFits
<1>4. PICK cut : cut = CutOf(k, k.table)
  OBVIOUS
<1>5. PICK bad : bad = {p \in Pieces(cut) : piece[p] # "auditing"}
  OBVIOUS
<1>6. cut \subseteq Queue(k.states, k.table)
  BY <1>4 DEF CutOf, Window
<1>7. cut \subseteq OfficeRow /\ \A r \in cut : PieceOf(r) \in Found(k.states, k.table)
  BY <1>6, QueueIs DEF OfficeRow
<1>8. bad \subseteq Piece /\ (k.states \subseteq {"auditing"} => bad = {})
  BY <1>5, <1>7 DEF Pieces, Found
<1>9. PICK c : c = [k EXCEPT !.at = "open", !.tables = @ \ {k.table}, !.table = {},
                      !.rows = @ \cup cut, !.decided = @ \cup bad]
  OBVIOUS
<1>10. /\ c.at = "open" /\ c.tables = k.tables \ {k.table} /\ c.rows = k.rows \cup cut
       /\ c.decided = k.decided \cup bad /\ c.total = k.total /\ c.page = k.page
       /\ c.states = k.states /\ c.sorts = k.sorts
       /\ c.got = k.got /\ c.again = k.again /\ c.ended = k.ended /\ c.due = k.due
  BY <1>2, <1>9 DEF Clerk
<1>11. c \in Clerk
  BY <1>2, <1>7, <1>8, <1>9 DEF Clerk
<1>12. ClerkFits(c)
  BY <1>2, <1>3, <1>8, <1>10 DEF ClerkFits, Working
<1>13. turns = 0 => PagingFits(c)
  <2> SUFFICES ASSUME turns = 0 PROVE PagingFits(c)
    OBVIOUS
  <2>1. PagingFits(k)
    BY <1>2, <1>3 DEF Working
  <2>2. k.table \in Tables(k.sorts)
    BY <1>2, <1>3 DEF ClerkFits
  <2>3. Tables(c.sorts) \ c.tables = (Tables(k.sorts) \ k.tables) \cup {k.table}
    BY <1>10, <2>2
  <2>4. ReadOf(c) = ReadOf(k)
    <3> DEFINE T == Tables(k.sorts) \ k.tables
    <3>1. ReadOf(k) = (UNION T) \cup (IF k.at = "counted" THEN k.table ELSE {})
      BY Zenon DEF ReadOf
    <3>2. ReadOf(c) = (UNION (T \cup {k.table})) \cup (IF c.at = "counted" THEN c.table ELSE {})
      BY <2>3, Zenon DEF ReadOf
    <3> HIDE DEF T
    <3>3. UNION (T \cup {k.table}) = (UNION T) \cup k.table
      OBVIOUS
    <3>4. ReadOf(k) = (UNION T) \cup k.table
      BY <1>3, <3>1
    <3>5. ReadOf(c) = UNION (T \cup {k.table})
      BY <1>10, <3>2
    <3> QED BY <3>3, <3>4, <3>5
  <2>5. \A t : CutOf(c, t) = CutOf(k, t)
    BY <1>10 DEF CutOf
  <2>6. CutsOf(c, Tables(c.sorts) \ c.tables)
          = CutsOf(k, Tables(k.sorts) \ k.tables) \cup cut
    BY <1>4, <2>3, <2>5 DEF CutsOf
  <2> QED BY <1>3, <1>10, <2>1, <2>4, <2>6 DEF PagingFits
<1>14. clerk' = c
       /\ UNCHANGED <<desk, duty, made, piece, sort, halves, roleVars, tally, context, batch, turns>>
  <2>1. (IF Merged THEN UpToPage(Queue(clerk.states, clerk.table))
                   ELSE ThisPage(Queue(clerk.states, clerk.table))) = cut
    BY <1>1, <1>4 DEF Merged, UpToPage, ThisPage, CutOf
  <2> QED BY <1>1, <1>5, <1>9, <2>1 DEF Lists
<1> QED BY <1>11, <1>12, <1>13, <1>14, ClerkSteps

LEMMA PageAnsweredKeeps ==
  ASSUME OfficeInv, PageAnswered
  PROVE  OfficeInv'
<1>1. PICK k : k = clerk
  OBVIOUS
<1>2. k \in Clerk /\ ClerkFits(k) /\ (turns = 0 /\ Working(k) => PagingFits(k))
      /\ (desk # "messages" => \A p \in Piece : halves[p] = 1)
  BY <1>1 DEF OfficeInv, OfficeTypes
<1>3. k.at = "open" /\ k.tables = {} /\ k.page \in Nat /\ k.page + 1 \in Nat
  BY <1>1, <1>2, OfficeConstants DEF PageAnswered, Clerk
<1> DEFINE P == PiecesPerPage
           Q == Queue(k.states, k.sorts)
           from == k.page * P
           rows == IF Merged THEN ThisPage(clerk.rows) ELSE clerk.rows
<1>4. PICK items : items = Pieces(rows)
  OBVIOUS
<1>5. PICK times : times = IF desk = "reports" THEN load_report_counts ELSE k.times
  OBVIOUS
<1>6. PICK c : c = [k EXCEPT !.at = "idle", !.page = @ + 1, !.rows = {}, !.got = @ \cup items,
                      !.again = @ \cup (k.got \cap items), !.times = times,
                      !.ended = (k.page + 1) * P >= k.total]
  OBVIOUS
<1>7. /\ c.at = "idle" /\ c.page = k.page + 1 /\ c.got = k.got \cup items
      /\ c.again = k.again \cup (k.got \cap items) /\ c.times = times
      /\ c.ended = ((k.page + 1) * P >= k.total) /\ c.total = k.total /\ c.due = k.due
      /\ c.states = k.states /\ c.sorts = k.sorts /\ c.decided = k.decided
  BY <1>2, <1>6 DEF Clerk
<1>8. /\ IsFiniteSet(Q) /\ RowSet(Q) /\ Q \subseteq Nat /\ Pieces(Q) = Found(k.states, k.sorts)
      /\ Cardinality(Q) \in Nat
  BY QueueIs, FS_CardinalityType
<1>9. P \in Nat /\ P > 0 /\ from \in Nat /\ (k.page + 1) * P = from + P /\ from + P \in Nat
  <2>1. P \in Nat /\ P > 0
    BY OfficeConstants
  <2>2. from \in Nat /\ (k.page + 1) * P = from + P
    BY <1>3, <2>1
  <2> QED BY <2>1, <2>2
<1>10. turns = 0 => items = Pieces(Window(Q, from, P)) /\ k.total = Cardinality(Q)
  <2> SUFFICES ASSUME turns = 0
               PROVE  items = Pieces(Window(Q, from, P)) /\ k.total = Cardinality(Q)
    OBVIOUS
  <2>1. PagingFits(k)
    BY <1>2, <1>3 DEF Working
  <2>2. k.rows = CutsOf(k, Tables(k.sorts))
    <3>1. Tables(k.sorts) \ k.tables = Tables(k.sorts)
      BY <1>3
    <3> QED BY <1>3, <2>1, <3>1 DEF PagingFits
  <2>3. k.total = Cardinality(Q)
    <3>1. ReadOf(k) = UNION Tables(k.sorts)
      <4>1. ReadOf(k) = (UNION (Tables(k.sorts) \ k.tables))
                          \cup (IF k.at = "counted" THEN k.table ELSE {})
        BY Zenon DEF ReadOf
      <4>2. Tables(k.sorts) \ k.tables = Tables(k.sorts)
        BY <1>3
      <4>3. (UNION Tables(k.sorts)) \cup {} = UNION Tables(k.sorts)
        OBVIOUS
      <4> QED BY <1>3, <4>1, <4>2, <4>3
    <3>2. ReadOf(k) = k.sorts
      BY <3>1, TablesAre
    <3> QED BY <1>3, <2>1, <3>2 DEF PagingFits
  <2>4. CASE desk = "reports" /\ k.sorts = Sort
    <3> DEFINE m == from + P
               cut == UNION {Window(Queue(k.states, t), 0, m) : t \in Tables(k.sorts)}
    <3>1. \A t : CutOf(k, t) = Window(Queue(k.states, t), 0, m)
      BY <1>9, <2>4 DEF CutOf
    <3>2. k.rows = cut
      BY <2>2, <3>1 DEF CutsOf
    <3>3. UNION Tables(k.sorts) = k.sorts
      BY TablesAre
    <3>4. Window(Q, 0, m) \subseteq cut /\ cut \subseteq Q
      <4>1. PICK T : T = Tables(k.sorts)
        OBVIOUS
      <4>2. PICK n \in Nat : n = m
        BY <1>9
      <4>3. /\ Window(Queue(k.states, UNION T), 0, n)
                 \subseteq UNION {Window(Queue(k.states, t), 0, n) : t \in T}
            /\ UNION {Window(Queue(k.states, t), 0, n) : t \in T}
                 \subseteq Queue(k.states, UNION T)
        BY TopOfTables
      <4> QED BY <3>3, <4>1, <4>2, <4>3
    <3> HIDE DEF cut
    <3>5. \A x, n \in Nat : x + n <= m => Window(cut, x, n) = Window(Q, x, n)
      <4>1. m \in Nat
        BY <1>9
      <4>2. RowSet(Q) /\ Window(Q, 0, m) \subseteq cut /\ cut \subseteq Q
        BY <1>8, <3>4
      <4> HIDE DEF m, Q
      <4> QED BY <4>1, <4>2, TopIsEnough
    <3>6. Window(cut, from, P) = Window(Q, from, P)
      <4>1. from + P <= m /\ from \in Nat /\ P \in Nat
        BY <1>9
      <4> HIDE DEF m, Q, from, P
      <4> QED BY <3>5, <4>1
    <3>7. rows = Window(k.rows, from, P)
      BY <1>1, <2>4 DEF Merged, ThisPage
    <3> QED BY <1>4, <2>3, <3>2, <3>6, <3>7
  <2>5. CASE ~(desk = "reports" /\ k.sorts = Sort)
    <3>1. Tables(k.sorts) = {k.sorts}
      BY <1>2, <1>3, <2>5 DEF ClerkFits, Working
    <3>2. CutOf(k, k.sorts) = Window(Q, from, P)
      BY <2>5 DEF CutOf
    <3>3. k.rows = Window(Q, from, P)
      BY <2>2, <3>1, <3>2 DEF CutsOf
    <3>4. rows = k.rows
      BY <1>1, <2>5 DEF Merged
    <3> QED BY <1>4, <2>3, <3>3, <3>4
  <2> QED BY <2>4, <2>5
<1>11. items \subseteq Piece
  <2>1. rows \subseteq k.rows
    BY <1>1 DEF ThisPage, Window
  <2>2. k.rows \subseteq OfficeRow
    BY <1>2 DEF Clerk
  <2> QED BY <1>4, <2>1, <2>2 DEF Pieces, OfficeRow
<1>12. load_report_counts \in [Sort -> Nat]
  <2>1. \A j \in Sort : Cardinality(Found(AuditState, {j})) \in Nat
    BY QueueIs, SomePieces
  <2> QED BY <2>1 DEF load_report_counts
<1>13. c \in Clerk
  <2>1. times \in [Sort -> Nat]
    BY <1>2, <1>5, <1>12 DEF Clerk
  <2>2. k.page + 1 \in 0 .. OfficePages
    <3>1. k.page < OfficePages /\ OfficePages \in Nat
      BY <1>2, <1>3, OfficeConstants DEF ClerkFits
    <3> QED BY <1>3, <3>1
  <2>3. ((k.page + 1) * P >= k.total) \in BOOLEAN
    OBVIOUS
  <2> HIDE DEF P
  <2>4. c = [k EXCEPT !.at = "idle", !.page = k.page + 1, !.rows = {}, !.got = k.got \cup items,
                      !.again = k.again \cup (k.got \cap items), !.times = times,
                      !.ended = (k.page + 1) * P >= k.total]
    BY <1>2, <1>6 DEF Clerk
  <2> QED BY <1>2, <1>11, <2>1, <2>2, <2>3, <2>4 DEF Clerk
<1>14. ClerkFits(c)
  <2>1. Working(c) /\ c.at = "idle" /\ c.page > 0
    BY <1>3, <1>7 DEF Working
  <2>2. c.states # {} /\ (~root => c.states \subseteq {"auditing"} /\ c.decided = {})
        /\ ((desk = "reports" /\ c.sorts = Sort) \/ Tables(c.sorts) = {c.sorts})
    BY <1>2, <1>3, <1>7 DEF ClerkFits, Working
  <2>3. c.again \subseteq c.got
    BY <1>2, <1>7 DEF ClerkFits
  <2> QED BY <2>1, <2>2, <2>3 DEF ClerkFits
<1>15. turns = 0 => PagingFits(c)
  <2> SUFFICES ASSUME turns = 0 PROVE PagingFits(c)
    OBVIOUS
  <2>1. PagingFits(k)
    BY <1>2, <1>3 DEF Working
  <2>2. items = Pieces(Window(Q, from, P)) /\ k.total = Cardinality(Q)
    BY <1>10
  <2>3. /\ Window(Q, 0, from) \cup Window(Q, from, P) = Window(Q, 0, from + P)
        /\ Window(Q, 0, from) \cap Window(Q, from, P) = {}
    <3> HIDE DEF Q, from, P
    <3> QED BY <1>8, <1>9, WindowsJoin
  <2>4. k.got = Pieces(Window(Q, 0, from))
    BY <2>1 DEF PagingFits
  <2>5. c.got = Pieces(Window(Q, 0, from + P))
    <3>1. \A A, B : Pieces(A \cup B) = Pieces(A) \cup Pieces(B)
      BY DEF Pieces
    <3> HIDE DEF Q, from, P
    <3> QED BY <1>7, <2>2, <2>3, <2>4, <3>1
  <2>6. c.got = Pieces(Window(Queue(c.states, c.sorts), 0, c.page * P))
    <3>1. Queue(c.states, c.sorts) = Q /\ c.page * P = from + P
      BY <1>7, <1>9
    <3> HIDE DEF Q, from, P
    <3> QED BY <2>5, <3>1
  <2>7. desk # "messages" => c.again = {}
    <3> SUFFICES ASSUME desk # "messages" PROVE k.again = {} /\ k.got \cap items = {}
      BY <1>7
    <3>1. k.again = {}
      BY <2>1 DEF PagingFits
    <3>2. \A r \in Q : r = 2 * PieceOf(r)
      <4> TAKE r \in Q
      <4>1. PieceOf(r) \in Found(k.states, k.sorts) /\ r \in RowsOf(PieceOf(r))
        BY <1>8, QueueIs
      <4>2. PieceOf(r) \in Piece
        BY <4>1 DEF Found
      <4>3. halves[PieceOf(r)] = 1
        BY <1>2, <4>2
      <4>4. RowsOf(PieceOf(r)) = {2 * PieceOf(r)}
        BY <4>2, <4>3, RowsAre
      <4> QED BY <4>1, <4>4
    <3>3. Window(Q, 0, from) \subseteq Q /\ Window(Q, from, P) \subseteq Q
      BY DEF Window
    <3> HIDE DEF Q, from, P
    <3>4. ASSUME NEW p \in k.got, p \in items
          PROVE  FALSE
      <4>1. PICK r \in Window(Q, 0, from) : p = PieceOf(r)
        BY <2>4, <3>4 DEF Pieces
      <4>2. PICK q \in Window(Q, from, P) : p = PieceOf(q)
        BY <2>2, <3>4 DEF Pieces
      <4>3. r = q
        BY <3>2, <3>3, <4>1, <4>2
      <4> QED BY <2>3, <4>3
    <3> QED BY <3>1, <3>4
  <2>8. c.total = Cardinality(Queue(c.states, c.sorts)) /\ c.due = Found(c.states, c.sorts)
    BY <1>7, <2>1, <2>2 DEF PagingFits
  <2>9. c.ended => c.page * P >= c.total
    BY <1>7
  <2>10. desk = "reports" => c.times = load_report_counts
    BY <1>5, <1>7
  <2> QED BY <1>7, <2>6, <2>7, <2>8, <2>9, <2>10 DEF PagingFits
<1>16. clerk' = c
       /\ UNCHANGED <<desk, duty, made, piece, sort, halves, roleVars, tally, context, batch, turns>>
  <2>1. (IF Merged THEN ThisPage(clerk.rows) ELSE clerk.rows) = rows
    OBVIOUS
  <2>2. (IF desk = "reports" THEN load_report_counts ELSE clerk.times) = times
    BY <1>1, <1>5
  <2> HIDE DEF rows
  <2> QED BY <1>1, <1>4, <1>6, <2>1, <2>2 DEF PageAnswered
<1> QED BY <1>13, <1>14, <1>15, <1>16, ClerkSteps

LEMMA AsksStatisticsKeeps ==
  ASSUME OfficeInv, AsksStatistics
  PROVE  OfficeInv'
<1>1. PICK y : y = [NoTally EXCEPT !.of = "statistics", !.tables = Tables(Sort)]
  OBVIOUS
<1>2. /\ y.of = "statistics" /\ y.tables = Tables(Sort) /\ \A s \in AuditState : y.by[s] = 0
  BY <1>1 DEF NoTally
<1>3. y \in Tally
  <2>1. Tables(Sort) \in SUBSET SUBSET Sort
    BY TablesAre
  <2> QED BY <1>1, <2>1 DEF NoTally, Tally
<1>4. TallyFits(y)
  <2>1. UNION (Tables(Sort) \ y.tables) = {}
    BY <1>2
  <2>2. \A s \in AuditState : y.by[s] = Cardinality(Found({s}, UNION (Tables(Sort) \ y.tables)))
    BY <1>2, <2>1, QueueOfNothing
  <2> QED BY <1>2, <2>2 DEF TallyFits
<1>5. tally' = y
      /\ UNCHANGED <<desk, duty, made, piece, sort, halves, roleVars, clerk, context, batch, turns>>
  BY <1>1 DEF AsksStatistics
<1> QED BY <1>3, <1>4, <1>5, TallySteps

\* The pieces of a kind counted beside those of the others.
LEMMA CountSplits ==
  ASSUME NEW states, NEW a, NEW b, a \cap b = {}
  PROVE  Cardinality(Found(states, a \cup b))
           = Cardinality(Found(states, a)) + Cardinality(Found(states, b))
<1>1. PICK both : both = Found(states, a \cup b)
  OBVIOUS
<1>2. Cardinality(both) = Cardinality(Found(states, a)) + Cardinality(Found(states, b))
  <2>1. /\ IsFiniteSet(Found(states, a)) /\ IsFiniteSet(Found(states, b))
        /\ Cardinality(Found(states, a)) \in Nat /\ Cardinality(Found(states, b)) \in Nat
    BY QueueIs, SomePieces
  <2>2. Found(states, a) \cap Found(states, b) = {}
    BY DEF Found
  <2>3. both = Found(states, a) \cup Found(states, b)
    BY <1>1 DEF Found
  <2>4. Cardinality(Found(states, a) \cup Found(states, b))
          = Cardinality(Found(states, a)) + Cardinality(Found(states, b)) - Cardinality({})
    BY <2>1, <2>2, FS_Union
  <2>5. Cardinality({}) = 0
    BY FS_EmptySet
  <2> QED BY <2>1, <2>3, <2>4, <2>5
<1> QED BY <1>1, <1>2, Zenon

LEMMA AggregatesKeeps ==
  ASSUME OfficeInv, NEW t \in SUBSET Sort, Aggregates(t)
  PROVE  OfficeInv'
<1>1. PICK k : k = tally
  OBVIOUS
<1>2. k \in Tally /\ (turns = 0 => TallyFits(k)) /\ k.of = "statistics" /\ t \in k.tables
  BY <1>1 DEF OfficeInv, OfficeTypes, Aggregates
<1>3. PICK by : by = ByState(t)
  OBVIOUS
<1>4. by \in [AuditState -> Nat]
  <2>1. \A s \in AuditState : Cardinality(Found({s}, t)) \in Nat
    BY QueueIs, SomePieces
  <2> QED BY <1>3, <2>1 DEF ByState
<1>5. PICK total : total = k.total + by["auditing"] + by["normal"] + by["rejected"]
                             + by["hidden"] + by["deleted"]
  OBVIOUS
<1>6. total \in Nat
  <2>1. k.total \in Nat
    BY <1>2 DEF Tally
  <2>2. /\ by["auditing"] \in Nat /\ by["normal"] \in Nat /\ by["rejected"] \in Nat
        /\ by["hidden"] \in Nat /\ by["deleted"] \in Nat
    BY <1>4 DEF AuditState
  <2> QED BY <1>5, <2>1, <2>2
<1>7. PICK sum : sum = [s \in AuditState |-> k.by[s] + by[s]]
  OBVIOUS
<1>8. sum \in [AuditState -> Nat]
  <2>1. \A s \in AuditState : k.by[s] \in Nat /\ by[s] \in Nat
    BY <1>2, <1>4 DEF Tally
  <2>2. \A s \in AuditState : k.by[s] + by[s] \in Nat
    BY <2>1
  <2> QED BY <1>7, <2>2
<1>9. PICK y : y = [k EXCEPT !.tables = @ \ {t}, !.by = sum, !.total = total]
  OBVIOUS
<1>10. y.of = k.of /\ y.tables = k.tables \ {t} /\ y.by = sum
  BY <1>2, <1>9 DEF Tally
<1>11. y \in Tally
  BY <1>2, <1>6, <1>8, <1>9 DEF Tally
<1>12. turns = 0 => TallyFits(y)
  <2> SUFFICES ASSUME turns = 0 PROVE TallyFits(y)
    OBVIOUS
  <2>1. TallyFits(k) /\ k.tables \subseteq Tables(Sort)
    BY <1>2 DEF TallyFits
  <2> DEFINE R == UNION (Tables(Sort) \ k.tables)
  <2>2. R \cap t = {}
    <3>1. t \in Tables(Sort)
      BY <1>2, <2>1
    <3>2. \A u \in Tables(Sort) \ k.tables : u \cap t = {}
      BY <1>2, <3>1, TablesAre
    <3> QED BY <3>2
  <2>3. UNION (Tables(Sort) \ y.tables) = R \cup t
    <3>1. Tables(Sort) \ y.tables = (Tables(Sort) \ k.tables) \cup {t}
      BY <1>2, <1>10, <2>1
    <3> QED BY <3>1
  <2>4. \A s \in AuditState : k.by[s] = Cardinality(Found({s}, R))
    BY <1>2, <2>1 DEF TallyFits
  <2> HIDE DEF R
  <2>5. ASSUME NEW s \in AuditState
        PROVE  y.by[s] = Cardinality(Found({s}, R \cup t))
    <3>1. y.by[s] = k.by[s] + by[s] /\ by[s] = Cardinality(Found({s}, t))
      BY <1>3, <1>7, <1>10 DEF ByState
    <3>2. PICK a : a = R
      OBVIOUS
    <3>3. PICK b : b = t
      OBVIOUS
    <3>4. PICK one : one = {s}
      OBVIOUS
    <3>5. a \cap b = {}
      BY <2>2, <3>2, <3>3
    <3>6. Cardinality(Found(one, a \cup b))
            = Cardinality(Found(one, a)) + Cardinality(Found(one, b))
      BY <3>5, CountSplits
    <3>7. Cardinality(Found({s}, R \cup t))
            = Cardinality(Found({s}, R)) + Cardinality(Found({s}, t))
      BY <3>2, <3>3, <3>4, <3>6
    <3> QED BY <2>4, <3>1, <3>7
  <2> QED BY <1>2, <1>10, <2>1, <2>3, <2>5 DEF TallyFits
<1>13. tally' = y
       /\ UNCHANGED <<desk, duty, made, piece, sort, halves, roleVars, clerk, context, batch, turns>>
  <2>1. agg_rows_to_resp(by, t) = y
    BY <1>1, <1>2, <1>5, <1>7, <1>9 DEF agg_rows_to_resp, Tally
  <2> QED BY <1>3, <2>1 DEF Aggregates
<1> QED BY <1>11, <1>12, <1>13, TallySteps

LEMMA AsksStatsKeeps ==
  ASSUME OfficeInv, AsksStats
  PROVE  OfficeInv'
<1>1. PICK by : by = IF desk = "messages" THEN NoTally.by ELSE ByState(Sort)
  OBVIOUS
<1>2. PICK total : total = IF desk = "messages" THEN Cardinality(Found(AuditState, Sort))
                           ELSE Cardinality(Found(AuditState \ {"deleted"}, Sort))
  OBVIOUS
<1>3. PICK left : left = IF desk = "messages" THEN Decided3 ELSE {}
  OBVIOUS
<1>4. by \in [AuditState -> Nat]
  <2>1. \A s \in AuditState : Cardinality(Found({s}, Sort)) \in Nat
    BY QueueIs, SomePieces
  <2>2. ByState(Sort) \in [AuditState -> Nat]
    BY <2>1 DEF ByState
  <2>3. NoTally.by \in [AuditState -> Nat]
    BY DEF NoTally
  <2> QED BY <1>1, <2>2, <2>3
<1>5. total \in Nat
  BY <1>2, QueueIs, SomePieces
<1>6. left \in SUBSET AuditState
  BY <1>3 DEF Decided3, AuditState
<1>7. PICK y : y = [NoTally EXCEPT !.of = "stats", !.left = left, !.by = by, !.total = total]
  OBVIOUS
<1>8. y.of = "stats" /\ y.left = left /\ y.by = by /\ y.total = total
  BY <1>7 DEF NoTally
<1>9. y \in Tally
  BY <1>4, <1>5, <1>6, <1>7 DEF NoTally, Tally
<1>10. TallyFits(y)
  BY <1>2, <1>3, <1>8 DEF TallyFits
<1>11. tally' = y
       /\ UNCHANGED <<desk, duty, made, piece, sort, halves, roleVars, clerk, context, batch, turns>>
  <2>1. y = [NoTally EXCEPT !.of = "stats",
               !.left = IF desk = "messages" THEN {"auditing", "rejected", "hidden"} ELSE {},
               !.by = IF desk = "messages" THEN @ ELSE ByState(Sort),
               !.total = IF desk = "messages" THEN Cardinality(Found(AuditState, Sort))
                         ELSE Cardinality(Found(AuditState \ {"deleted"}, Sort))]
    BY <1>1, <1>2, <1>3, <1>7 DEF Decided3, NoTally
  <2> QED BY <2>1 DEF AsksStats
<1> QED BY <1>9, <1>10, <1>11, TallySteps

LEMMA CountsStateKeeps ==
  ASSUME OfficeInv, NEW s \in AuditState, CountsState(s)
  PROVE  OfficeInv'
<1>1. PICK k : k = tally
  OBVIOUS
<1>2. k \in Tally /\ (turns = 0 => TallyFits(k)) /\ k.of = "stats" /\ s \in k.left
  BY <1>1 DEF OfficeInv, OfficeTypes, CountsState
<1>3. PICK n : n = Cardinality(Queue({s}, Sort))
  OBVIOUS
<1>4. n \in Nat
  BY <1>3, QueueIs, FS_CardinalityType
<1>5. PICK y : y = [k EXCEPT !.left = @ \ {s}, !.by = [@ EXCEPT ![s] = n]]
  OBVIOUS
<1>6. /\ y.of = k.of /\ y.left = k.left \ {s} /\ y.total = k.total
      /\ \A q \in AuditState : y.by[q] = IF q = s THEN n ELSE k.by[q]
  BY <1>2, <1>5 DEF Tally
<1>7. y \in Tally
  BY <1>2, <1>4, <1>5 DEF Tally
<1>8. turns = 0 => TallyFits(y)
  BY <1>2, <1>3, <1>6 DEF TallyFits, Decided3, AuditState
<1>9. tally' = y
      /\ UNCHANGED <<desk, duty, made, piece, sort, halves, roleVars, clerk, context, batch, turns>>
  BY <1>1, <1>3, <1>5 DEF CountsState
<1> QED BY <1>7, <1>8, <1>9, TallySteps

LEMMA OfficeInvNext == OfficeInv /\ [OfficeNext]_officeVars => OfficeInv'
<1> SUFFICES ASSUME OfficeInv, [OfficeNext]_officeVars PROVE OfficeInv'
  OBVIOUS
<1>1. CASE UNCHANGED officeVars
  <2>1. PICK c : c = clerk
    OBVIOUS
  <2>2. c \in Clerk /\ ClerkFits(c) /\ (turns = 0 /\ Working(c) => PagingFits(c))
    BY <2>1 DEF OfficeInv, OfficeTypes
  <2>3. clerk' = c
       /\ UNCHANGED <<desk, duty, made, piece, sort, halves, roleVars, tally, context, batch, turns>>
    BY <1>1, <2>1 DEF officeVars, roleVars
  <2> QED BY <2>2, <2>3, ClerkSteps
<1>2. ASSUME NEW s \in AuditState,
             \/ \E k \in Sort : Made(s, k)
             \/ \E p \in Piece : Becomes(p, s)
             \/ CountsState(s)
             \/ \E ids \in SUBSET Piece : BatchStarts(ids, s)
      PROVE  OfficeInv'
  BY <1>2, MadeKeeps, BecomesKeeps, CountsStateKeeps, BatchStartsKeeps
<1>3. ASSUME NEW p \in Piece, Purged(p) \/ BatchStep(p)
      PROVE  OfficeInv'
  BY <1>3, PurgedKeeps, BatchStepKeeps
<1>4. ASSUME NEW b \in BOOLEAN, Grants(b)
      PROVE  OfficeInv'
  BY <1>4, GrantsKeeps
<1>5. ASSUME NEW states \in Asked, NEW sorts \in SUBSET Sort, AsksPage(states, sorts)
      PROVE  OfficeInv'
  BY <1>5, AsksPageKeeps
<1>6. ASSUME NEW t \in SUBSET Sort, Counts(t) \/ Aggregates(t)
      PROVE  OfficeInv'
  BY <1>6, CountsKeeps, AggregatesKeeps
<1>7. Lists \/ PageAnswered \/ AsksStatistics \/ AsksStats => OfficeInv'
  BY ListsKeeps, PageAnsweredKeeps, AsksStatisticsKeeps, AsksStatsKeeps
<1>8. ASSUME NEW k \in Sort, session_context(k)
      PROVE  OfficeInv'
  BY <1>8, ContextKeeps
<1> QED BY <1>1, <1>2, <1>3, <1>4, <1>5, <1>6, <1>7, <1>8, Zenon DEF OfficeNext

-----------------------------------------------------------------------------
(* The desks of the administrators: what the invariant gives.               *)

LEMMA RowsOfQueue ==
  ASSUME OfficeTypes, NEW states, NEW sorts
  PROVE  LET n == Cardinality(Found(states, sorts))
             q == Cardinality(Queue(states, sorts))
         IN  n \in Nat /\ q \in Nat /\ n <= q /\ q <= 2 * n /\ (desk # "messages" => q = n)
<1>1. PICK F : F = Found(states, sorts)
  OBVIOUS
<1>2. F \subseteq Piece /\ Cardinality(F) \in Nat
  BY <1>1, QueueIs, SomePieces
<1>3. PICK Q : Q = UNION {RowsOf(p) : p \in F}
  OBVIOUS
<1>4. Q = Queue(states, sorts)
  BY <1>1, <1>3 DEF Queue
<1>5. /\ Cardinality(Q) \in Nat
      /\ Cardinality(F) <= Cardinality(Q) /\ Cardinality(Q) <= 2 * Cardinality(F)
      /\ (\A p \in F : halves[p] = 1) => Cardinality(Q) = Cardinality(F)
  BY <1>2, <1>3, RowsPerPiece DEF OfficeTypes
<1>6. desk # "messages" => \A p \in F : halves[p] = 1
  BY <1>2 DEF OfficeTypes
<1> QED BY <1>1, <1>2, <1>4, <1>5, <1>6

LEMMA CoverGiven ==
  ASSUME OfficeInv, turns = 0, clerk.ended
  PROVE  /\ clerk.got = clerk.due /\ (desk # "messages" => clerk.again = {})
         /\ clerk.total = Cardinality(Queue(clerk.states, clerk.sorts))
<1>1. PICK k : k = clerk
  OBVIOUS
<1>2. k \in Clerk /\ ClerkFits(k) /\ k.ended
  BY <1>1 DEF OfficeInv, OfficeTypes
<1>3. k.at = "idle" /\ k.page > 0
  BY <1>2 DEF ClerkFits
<1>4. PagingFits(k)
  BY <1>1, <1>3 DEF OfficeInv, Working
<1> DEFINE Q == Queue(k.states, k.sorts)
           n == k.page * PiecesPerPage
<1>5. RowSet(Q) /\ Pieces(Q) = Found(k.states, k.sorts) /\ Cardinality(Q) \in Nat
  BY QueueIs, FS_CardinalityType
<1>6. n \in Nat
  <2>1. k.page \in Nat /\ PiecesPerPage \in Nat
    BY <1>2, OfficeConstants DEF Clerk
  <2> QED BY <2>1
<1>7. k.total = Cardinality(Q) /\ n >= k.total /\ k.got = Pieces(Window(Q, 0, n))
  BY <1>2, <1>3, <1>4 DEF PagingFits
<1>8. Window(Q, 0, n) = Q
  <2> HIDE DEF Q, n
  <2> QED BY <1>5, <1>6, <1>7, WindowsJoin
<1>9. k.got = k.due
  BY <1>4, <1>5, <1>7, <1>8 DEF PagingFits
<1> QED BY <1>1, <1>4, <1>7, <1>9 DEF PagingFits

LEMMA OfficeInvGives == OfficeInv => OfficeHolds /\ OfficeTypeOK
<1> SUFFICES ASSUME OfficeInv PROVE OfficeHolds /\ OfficeTypeOK
  OBVIOUS
<1>1. OfficeTypes /\ ClerkFits(clerk) /\ BatchFits(batch)
      /\ (turns = 0 => TallyFits(tally))
      /\ (turns = 0 /\ Working(clerk) => PagingFits(clerk))
      /\ context.items = Window(context.all, 0, PiecesPerPage)
  BY DEF OfficeInv
<1>2. PagesCoverQueue
  BY CoverGiven DEF PagesCoverQueue
<1>3. TotalsAgree
  <2> SUFFICES ASSUME NEW s \in AuditState,
                      clerk.ended, turns = 0, clerk.states = {s}, clerk.sorts = Sort,
                      tally.of = "statistics", tally.tables = {}
               PROVE  /\ tally.by[s] <= clerk.total /\ clerk.total <= 2 * tally.by[s]
                      /\ desk # "messages" => clerk.total = tally.by[s]
    BY DEF TotalsAgree
  <2>1. clerk.total = Cardinality(Queue({s}, Sort))
    BY CoverGiven
  <2>2. tally.by[s] = Cardinality(Found({s}, Sort))
    <3>1. tally.by[s] = Cardinality(Found({s}, UNION (Tables(Sort) \ tally.tables)))
      BY <1>1 DEF TallyFits
    <3>2. Tables(Sort) \ tally.tables = Tables(Sort)
      OBVIOUS
    <3>3. UNION Tables(Sort) = Sort
      BY TablesAre
    <3> QED BY <3>1, <3>2, <3>3
  <2> QED BY <1>1, <2>1, <2>2, RowsOfQueue
<1>4. StatsFit
  <2> SUFFICES ASSUME tally.of = "stats", tally.left = {}, turns = 0, desk = "messages"
               PROVE  tally.by["auditing"] + tally.by["rejected"] + tally.by["hidden"]
                        <= 2 * tally.total
    BY DEF StatsFit
  <2> DEFINE F(s) == Found({s}, Sort)
             all == Found(AuditState, Sort)
             x == F("auditing")
             y == F("rejected")
             z == F("hidden")
  <2>1. /\ tally.total = Cardinality(all)
        /\ tally.by["auditing"] = Cardinality(Queue({"auditing"}, Sort))
        /\ tally.by["rejected"] = Cardinality(Queue({"rejected"}, Sort))
        /\ tally.by["hidden"] = Cardinality(Queue({"hidden"}, Sort))
    BY <1>1 DEF TallyFits, Decided3
  <2>2. /\ tally.by["auditing"] <= 2 * Cardinality(x) /\ tally.by["auditing"] \in Nat
        /\ tally.by["rejected"] <= 2 * Cardinality(y) /\ tally.by["rejected"] \in Nat
        /\ tally.by["hidden"] <= 2 * Cardinality(z) /\ tally.by["hidden"] \in Nat
    BY <1>1, <2>1, RowsOfQueue
  <2>3. /\ x \subseteq all /\ y \subseteq all /\ z \subseteq all
        /\ x \cap y = {} /\ (x \cup y) \cap z = {}
    BY DEF Found, AuditState
  <2>4. /\ IsFiniteSet(x) /\ IsFiniteSet(y) /\ IsFiniteSet(z) /\ IsFiniteSet(all)
        /\ Cardinality(x) \in Nat /\ Cardinality(y) \in Nat /\ Cardinality(z) \in Nat
        /\ Cardinality(all) \in Nat
    BY QueueIs, SomePieces
  <2> HIDE DEF x, y, z, all
  <2>5. IsFiniteSet(x \cup y) /\ Cardinality(x \cup y) = Cardinality(x) + Cardinality(y)
    <3>1. IsFiniteSet(x \cup y)
          /\ Cardinality(x \cup y) = Cardinality(x) + Cardinality(y) - Cardinality(x \cap y)
      BY <2>4, FS_Union
    <3>2. Cardinality(x \cap y) = 0
      BY <2>3, FS_EmptySet
    <3> QED BY <2>4, <3>1, <3>2
  <2>6. Cardinality((x \cup y) \cup z) = Cardinality(x) + Cardinality(y) + Cardinality(z)
    <3>1. Cardinality((x \cup y) \cup z)
            = Cardinality(x \cup y) + Cardinality(z) - Cardinality((x \cup y) \cap z)
      BY <2>4, <2>5, FS_Union
    <3>2. Cardinality((x \cup y) \cap z) = 0
      BY <2>3, FS_EmptySet
    <3> QED BY <2>4, <2>5, <3>1, <3>2
  <2>7. Cardinality((x \cup y) \cup z) <= Cardinality(all)
    <3>1. (x \cup y) \cup z \subseteq all
      BY <2>3
    <3> QED BY <2>4, <3>1, FS_Subset
  <2> QED BY <2>1, <2>2, <2>4, <2>6, <2>7
<1>5. TimesFit
  <2> SUFFICES ASSUME desk = "reports", clerk.at = "idle", turns = 0, NEW k \in Sort
               PROVE  Cardinality({p \in clerk.got : sort[p] = k}) <= clerk.times[k]
    BY DEF TimesFit
  <2> DEFINE seen == {p \in clerk.got : sort[p] = k}
  <2>1. CASE Working(clerk)
    <3>1. PagingFits(clerk) /\ clerk.times = load_report_counts
      BY <1>1, <2>1 DEF PagingFits
    <3>2. clerk.got \subseteq Found(clerk.states, clerk.sorts)
      <4>1. Window(Queue(clerk.states, clerk.sorts), 0, clerk.page * PiecesPerPage)
              \subseteq Queue(clerk.states, clerk.sorts)
        BY DEF Window
      <4>2. clerk.got \subseteq Pieces(Queue(clerk.states, clerk.sorts))
        BY <3>1, <4>1 DEF PagingFits, Pieces
      <4> QED BY <4>2, QueueIs
    <3>3. clerk.states \subseteq AuditState
      BY <1>1 DEF OfficeTypes, Clerk
    <3>4. seen \subseteq Found(AuditState, {k})
      BY <3>2, <3>3 DEF Found
    <3>5. clerk.times[k] = Cardinality(Found(AuditState, {k}))
      BY <3>1 DEF load_report_counts
    <3>6. IsFiniteSet(Found(AuditState, {k}))
      BY QueueIs, SomePieces
    <3> HIDE DEF seen
    <3>7. Cardinality(seen) <= Cardinality(Found(AuditState, {k}))
      BY <3>4, <3>6, FS_Subset
    <3> QED BY <3>5, <3>7 DEF seen
  <2>2. CASE ~Working(clerk)
    <3>1. clerk.got = {} /\ clerk.times[k] = 0
      BY <1>1, <2>2 DEF ClerkFits, NoClerk
    <3>2. seen = {}
      BY <3>1
    <3> QED BY <3>1, <3>2, FS_EmptySet
  <2> QED BY <2>1, <2>2
<1>6. LimitedSeeQueue /\ ContextIsLatest /\ BatchTellsTruth
  BY <1>1 DEF LimitedSeeQueue, ContextIsLatest, BatchTellsTruth, ClerkFits, BatchFits
<1>7. OfficeTypeOK
  <2>1. context.items \subseteq context.all /\ context.all \subseteq Piece
    <3>1. context.all \subseteq Piece
      BY <1>1 DEF OfficeTypes
    <3> QED BY <1>1, <3>1 DEF Window
  <2>2. clerk.again \subseteq clerk.got
    BY <1>1 DEF ClerkFits
  <2> QED BY <1>1, <2>1, <2>2 DEF OfficeTypes, OfficeTypeOK, OfficeData, Clerk, Tally, Batch
<1> QED BY <1>2, <1>3, <1>4, <1>5, <1>6, <1>7 DEF OfficeHolds

\* The desks of the administrators, for any number of pieces, kinds, pages and
\* pieces on a page: a clerk who pages to the end has been shown all that waits, also
\* from several tables; totals, statistics and counters agree; who is not root sees
\* only what waits; around a message come the latest; a batch tells what it did.
THEOREM OfficesShowWhatWaits == OfficeSpec => []OfficeHolds
<1> QED BY OfficeInvInit, OfficeInvNext, OfficeInvGives, PTL DEF OfficeSpec

-----------------------------------------------------------------------------
(* The desk as it is checked: each behaviour is one of a single component. *)

LEMMA DeskRunsAudits == DeskSpec => AuditSpec
<1>1. DeskInit => AuditInit
  BY DEF DeskInit
<1>2. [DeskNext]_<<part, auditVars, reportVars, growthVars, signVars, officeVars>>
        => [AuditNext]_auditVars
  BY Zenon DEF DeskNext, NoAudits
<1> QED BY <1>1, <1>2, PTL DEF DeskSpec, AuditSpec

LEMMA DeskRunsReports == DeskSpec => ReportsSpec
<1>1. DeskInit => ReportsInit
  BY DEF DeskInit
<1>2. [DeskNext]_<<part, auditVars, reportVars, growthVars, signVars, officeVars>>
        => [ReportsNext]_reportVars
  BY Zenon DEF DeskNext, NoReports
<1> QED BY <1>1, <1>2, PTL DEF DeskSpec, ReportsSpec

LEMMA DeskRunsOffice == DeskSpec => OfficeSpec
<1>1. DeskInit => OfficeInit
  BY DEF DeskInit
<1>2. [DeskNext]_<<part, auditVars, reportVars, growthVars, signVars, officeVars>>
        => [OfficeNext]_officeVars
  BY Zenon DEF DeskNext, NoOffice
<1> QED BY <1>1, <1>2, PTL DEF DeskSpec, OfficeSpec

\* Reviews by the team, of pictures and topics and of what users reported, and
\* what its members are shown of both: what AuditsAreDecided, ReportsAreDecided and
\* OfficesShowWhatWaits say of each, of the specification that is checked.
THEOREM ReviewsAreDecided == DeskSpec => []ReviewsHold
<1>1. AuditsHold /\ ReportsHold /\ OfficeHolds => ReviewsHold
  BY DEF ReviewsHold
<1> QED BY <1>1, DeskRunsAudits, DeskRunsReports, DeskRunsOffice, AuditsAreDecided,
           ReportsAreDecided, OfficesShowWhatWaits, PTL

LEMMA DeskRunsGrowth == DeskSpec => GrowthSpec
<1>1. DeskInit => GrowthInit
  BY DEF DeskInit
<1>2. [DeskNext]_<<part, auditVars, reportVars, growthVars, signVars, officeVars>>
        => [GrowthNext]_growthVars
  BY Zenon DEF DeskNext, NoGrowth
<1> QED BY <1>1, <1>2, PTL DEF DeskSpec, GrowthSpec

LEMMA DeskRunsSignIns == DeskSpec => SignInSpec
<1>1. DeskInit => SignInInit
  BY DEF DeskInit
<1>2. [DeskNext]_<<part, auditVars, reportVars, growthVars, signVars, officeVars>>
        => [SignInNext]_signVars
  BY Zenon DEF DeskNext, NoSignIns
<1> QED BY <1>1, <1>2, PTL DEF DeskSpec, SignInSpec

\* Accounts, their growth and the sign-ins that make them: what
\* AccountsGrowAsEarned and SignInsFindTheirOwn say of each, of the
\* specification that is checked.
THEOREM AccountsAreKept == DeskSpec => AccountsHold
<1>1. DeskSpec => GrowthHolds
  BY DeskRunsGrowth, AccountsGrowAsEarned
<1>2. DeskSpec => []SignInHolds
  BY DeskRunsSignIns, SignInsFindTheirOwn
<1> QED BY <1>1, <1>2, PTL DEF AccountsHold

-----------------------------------------------------------------------------
(* The types of the desk: what the invariants above leave out are bounds of  *)
(* requests and days, and the names of accounts.                             *)

\* The part of AuditTypeOK that the decisions do not depend on.
AuditMeters == folderGone \in BOOLEAN /\ audits \in 0 .. AuditRequests

LEMMA AuditMetersNext == AuditMeters /\ [AuditNext]_auditVars => AuditMeters'
<1> SUFFICES ASSUME AuditMeters, [AuditNext]_auditVars PROVE AuditMeters'
  OBVIOUS
<1>1. \A w, job : Begins(w, job) => AuditMeters'
  BY AuditAssumption DEF AuditMeters, Begins
<1>2. UNCHANGED <<folderGone, audits>> => AuditMeters'
  BY DEF AuditMeters
<1>3. ASSUME NEW w \in AuditWorker,
             \/ \E kind \in Picture : SubmitReads(w, kind)
             \/ TopicChecks(w)
             \/ \E n \in TicketId : DecideReads(w, n)
      PROVE  AuditMeters'
  BY <1>1, <1>3, Zenon DEF SubmitReads, TopicChecks, DecideReads
<1>4. ASSUME NEW w \in AuditWorker,
             \/ \E n \in TicketId : SubmitCommits(w, n) \/ TopicInserts(w, n)
             \/ ApproveAvatar(w) \/ ApproveCover(w) \/ ApproveCoverFails(w)
             \/ ApproveTopic(w) \/ Rejects(w)
             \/ \E ok \in BOOLEAN : PublishAvatar(w, ok) \/ TellsUser(w, ok)
      PROVE  AuditMeters'
  BY <1>2, <1>4, Zenon DEF SubmitCommits, TopicInserts, ApproveAvatar, ApproveCover,
     ApproveCoverFails, ApproveTopic, Rejects, PublishAvatar, TellsUser, Continues
<1>5. CASE FolderGoes
  <2>1. folderGone' = TRUE /\ audits' = audits
    BY <1>5 DEF FolderGoes
  <2> QED BY <2>1 DEF AuditMeters
<1>6. CASE WritesAvatar
  <2>1. folderGone' = folderGone /\ audits < AuditRequests /\ audits' = audits + 1
    BY <1>6 DEF WritesAvatar
  <2>2. folderGone \in BOOLEAN /\ audits \in 0 .. AuditRequests
    BY DEF AuditMeters
  <2>3. audits' \in 0 .. AuditRequests
    BY <2>1, <2>2, AuditAssumption
  <2>4. folderGone' \in BOOLEAN
    BY <2>1, <2>2, Zenon
  <2> QED BY <2>3, <2>4, Zenon DEF AuditMeters
<1>7. CASE UNCHANGED auditVars
  BY <1>2, <1>7, Zenon DEF auditVars
<1> QED BY <1>3, <1>4, <1>5, <1>6, <1>7, Zenon DEF AuditNext

LEMMA AuditsTyped == AuditSpec => []AuditTypeOK
<1>1. AuditInit => AuditMeters
  <2>1. AuditInit => folderGone \in BOOLEAN
    BY Zenon DEF AuditInit
  <2>2. AuditInit => audits \in 0 .. AuditRequests
    BY AuditAssumption DEF AuditInit
  <2> QED BY <2>1, <2>2 DEF AuditMeters
<1>2. AuditInv /\ AuditMeters => AuditTypeOK
  BY DEF AuditInv, AuditTypes, AuditMeters, AuditTypeOK, Word
<1> QED BY <1>1, <1>2, AuditMetersNext, AuditInvInit, AuditInvNext, PTL DEF AuditSpec

AskedBounded == reportsAsked \in 0 .. ReportRequests

LEMMA AskedNext == AskedBounded /\ [ReportsNext]_reportVars => AskedBounded'
<1> SUFFICES ASSUME reportsAsked \in 0 .. ReportRequests, [ReportsNext]_reportVars
             PROVE  reportsAsked' \in 0 .. ReportRequests
  BY DEF AskedBounded
<1>1. \A w, job : Received(w, job) => reportsAsked' \in 0 .. ReportRequests
  BY ReportAssumption DEF Received
<1>2. ASSUME NEW w \in ReportWorker,
             \/ \E r \in Report : ReportArrives(w, r)
             \/ \E r \in Report, d \in Decision, h \in BOOLEAN : ReviewArrives(w, r, d, h)
      PROVE  reportsAsked' \in 0 .. ReportRequests
  BY <1>1, <1>2, Zenon DEF ReportArrives, ReviewArrives
<1>3. ASSUME NEW w \in ReportWorker,
             \/ FiledIn(w) \/ Counted(w) \/ Judges(w) \/ TellsReporter(w)
             \/ Hides(w) \/ HidesRemotely(w) \/ RequestEnds(w)
      PROVE  UNCHANGED reportsAsked
  BY <1>3, Zenon DEF FiledIn, Counted, Judges, TellsReporter, Hides, HidesRemotely,
     RequestEnds, Goes
<1>4. ASSUME NEW t \in Thing, ThingGoes(t)
      PROVE  UNCHANGED reportsAsked
  BY <1>4, Zenon DEF ThingGoes
<1>5. CASE UNCHANGED reportVars
  BY <1>5, Zenon DEF reportVars
<1> QED BY <1>2, <1>3, <1>4, <1>5, Zenon DEF ReportsNext

LEMMA ReportsTyped == ReportsSpec => []ReportsTypeOK
<1>1. ReportsInit => AskedBounded
  BY ReportAssumption DEF ReportsInit, AskedBounded
<1>2. ReportInv /\ AskedBounded => ReportsTypeOK
  <2> SUFFICES ASSUME ReportInv, reportsAsked \in 0 .. ReportRequests
               PROVE  ReportsTypeOK
    BY DEF AskedBounded
  <2>1. ReportTypes /\ KeysFit(report, key)
    BY DEF ReportInv
  <2>2. Rows = RowsIn(report)
    BY DEF Rows, RowsIn
  <2>3. PICK R : R = RowsIn(report)
    OBVIOUS
  <2>4. IsFiniteSet(R)
    BY <2>1, <2>3 DEF KeysFit
  <2>5. Cardinality(R) \in Nat
    BY <2>4, FS_CardinalityType
  <2>6. \A r \in R : key[r] <= Cardinality(R)
    <3> SUFFICES ASSUME NEW r \in R PROVE key[r] <= Cardinality(R)
      OBVIOUS
    <3>1. PICK S : S = {x \in R : Together(r, x)}
      OBVIOUS
    <3>2. S \subseteq R /\ Cardinality(S) <= Cardinality(R) /\ Cardinality(S) \in Nat
      BY <2>4, <3>1, FS_Subset, FS_CardinalityType
    <3>3. key[r] <= Cardinality(S)
      BY <2>1, <2>3, <3>1 DEF KeysFit
    <3>4. key[r] \in Nat
      BY <2>1, <2>3 DEF ReportTypes, RowsIn
    <3> QED BY <2>5, <3>2, <3>3, <3>4
  <2>7. \A r \in Rows : key[r] <= Cardinality(Rows)
    BY <2>2, <2>3, <2>6
  <2> QED BY <2>1, <2>7 DEF ReportTypes, ReportsTypeOK
<1> QED BY <1>1, <1>2, AskedNext, ReportInvInit, ReportInvNext, PTL DEF ReportsSpec

\* The part of GrowthTypeOK that the experience does not depend on.
GrowthMeters == grown \in 0 .. GrowthRequests /\ growthStops \in 0 .. GrowthStops

LEMMA GrowthMetersNext == GrowthMeters /\ [GrowthNext]_growthVars => GrowthMeters'
<1> SUFFICES ASSUME GrowthMeters, [GrowthNext]_growthVars PROVE GrowthMeters'
  OBVIOUS
<1> USE DEF GrowthMeters
<1>1. \A w, req : Opens(w, req) => GrowthMeters'
  BY GrowthAssumption DEF Opens, Arrives
<1>2. UNCHANGED <<grown, growthStops>> => GrowthMeters'
  OBVIOUS
<1> HIDE DEF GrowthMeters
<1>3. ASSUME NEW w \in GrowthWorker, Login(w) \/ Grant(w) \/ SetRole(w)
      PROVE  GrowthMeters'
  BY <1>1, <1>3, Zenon DEF Login, Grant, SetRole
<1>4. ASSUME NEW l \in Level, CreateAgain(l) \/ \E e \in GivenExp : SetLevel(e, l)
      PROVE  GrowthMeters'
  <2>1. grown < GrowthRequests /\ grown' = grown + 1 /\ growthStops' = growthStops
    BY <1>4, Zenon DEF CreateAgain, SetLevel, Arrives
  <2> QED BY <2>1, GrowthAssumption DEF GrowthMeters
<1>5. ASSUME NEW w \in GrowthWorker,
             \/ Check(w) \/ ReadLevel(w) \/ WriteLevel(w) \/ WriteRecord(w)
             \/ ReadRole(w) \/ WriteRole(w)
      PROVE  UNCHANGED <<grown, growthStops>>
  BY <1>5, Zenon DEF Check, ReadLevel, WriteLevel, WriteRecord, ReadRole, WriteRole
<1>6. ASSUME NEW w \in GrowthWorker, Stops(w)
      PROVE  GrowthMeters'
  <2>1. growthStops < GrowthStops /\ growthStops' = growthStops + 1 /\ grown' = grown
    BY <1>6, Zenon DEF Stops
  <2> QED BY <2>1, GrowthAssumption DEF GrowthMeters
<1>7. NextLoginDay \/ UNCHANGED growthVars => UNCHANGED <<grown, growthStops>>
  BY Zenon DEF NextLoginDay, growthVars
<1> QED BY <1>2, <1>3, <1>4, <1>5, <1>6, <1>7, Zenon DEF GrowthNext

LEMMA GrowthTyped == GrowthSpec => []GrowthTypeOK
<1>1. GrowthInit => GrowthMeters
  BY GrowthAssumption DEF GrowthInit, GrowthMeters
<1>2. GrowthInv /\ GrowthMeters => GrowthTypeOK
  BY DEF GrowthInv, GrowthTypes, GrowerRec, GrowthMeters, GrowthTypeOK
<1> QED BY <1>1, <1>2, GrowthMetersNext, GrowthInvInit, GrowthInvNext, PTL DEF GrowthSpec

\* The parts of SignInTypeOK that claims do not depend on: bounds, and the unique
\* constraint of user_name.
NamesUnique(acc) ==
  \A u, v \in Uid : acc[u].name = acc[v].name /\ acc[u].name # 0 => u = v
SignMeters ==
  /\ signDay \in 0 .. LastSignDay /\ signAsks \in 0 .. SignInRequests
  /\ \A b \in Browser : browser[b].nr <= SignInRequests /\ cookie[b].day <= LastSignDay
  /\ crossed \subseteq Person
  /\ NamesUnique(account)

LEMMA SignMetersNext == SignInv /\ SignMeters /\ [SignInNext]_signVars => SignMeters'
<1> SUFFICES ASSUME SignInv, SignMeters, [SignInNext]_signVars PROVE SignMeters'
  OBVIOUS
<1>1. SignTypes
  BY DEF SignInv
<1>2. /\ \A u \in Uid : account[u] \in Account /\ owner[u] \in Mail
      /\ \A b \in Browser : browser[b] \in Signing /\ cookie[b] \in SignToken
  BY <1>1 DEF SignTypes
<1>3. \A b \in Browser : browser[b].at # "idle" => browser[b].person \in Person
  BY DEF SignInv, DrawnFit
<1>4. signDay' \in 0 .. LastSignDay /\ signAsks' \in 0 .. SignInRequests
  <2>1. \/ UNCHANGED <<signDay, signAsks>>
        \/ Asks /\ UNCHANGED signDay
        \/ signDay < LastSignDay /\ signDay' = signDay + 1 /\ UNCHANGED signAsks
    BY Zenon DEF SignInNext, NextSignDay, Callback, LookByMail, LookByName, CreateLooks,
       CreateInserts, Issue, Nav, Refresh, AdminSetsRole, OutsideCreate, PurgeAccount,
       SetDetail, OutsideRole, OnlyAccounts, OnlyBrowser, signVars
  <2> QED BY <2>1, SignInAssumption DEF Asks, SignMeters
<1>5. \A b \in Browser : browser'[b].nr <= SignInRequests
  <2>1. \A b \in Browser : browser[b].nr <= SignInRequests
    BY DEF SignMeters
  <2>2. ASSUME NEW b \in Browser, NEW s, Step(b, s), s.nr <= SignInRequests
        PROVE  \A c \in Browser : browser'[c].nr <= SignInRequests
    BY <1>1, <2>1, <2>2 DEF SignTypes, Step
  <2>3. ASSUME NEW b \in Browser, NEW p \in Person, Callback(b, p)
        PROVE  \A c \in Browser : browser'[c].nr <= SignInRequests
    <3>1. PICK s : s = [NotSigning EXCEPT !.at = "mail", !.person = p, !.nr = signAsks + 1]
      OBVIOUS
    <3>2. Step(b, s)
      BY <2>3, <3>1, Zenon DEF Callback
    <3>3. s.nr <= SignInRequests
      BY <2>3, <3>1, SignInAssumption DEF Callback, Asks, SignMeters, NotSigning
    <3> QED BY <2>2, <3>2, <3>3
  <2>4. ASSUME NEW b \in Browser,
               LookByMail(b) \/ LookByName(b) \/ CreateLooks(b) \/ CreateInserts(b)
                 \/ Issue(b)
        PROVE  \A c \in Browser : browser'[c].nr <= SignInRequests
    <3>1. PICK s : (Step(b, s) /\ s.nr \in {0, browser[b].nr}) \/ browser' = browser
      <4>1. browser[b] \in Signing
        BY <1>2
      <4>2. NotSigning.nr = 0
        BY DEF NotSigning
      <4>3. \A at : GoesTo(b, at) => \E s : Step(b, s) /\ s.nr \in {0, browser[b].nr}
        <5> TAKE at
        <5>1. [browser[b] EXCEPT !.at = at].nr = browser[b].nr
          BY <4>1 DEF Signing
        <5> QED BY <5>1, Zenon DEF GoesTo
      <4>4. Fails(b) => \E s : Step(b, s) /\ s.nr \in {0, browser[b].nr}
        BY <4>2, Zenon DEF Fails
      <4>5. CASE LookByMail(b)
        <5>1. \A u : [browser[b] EXCEPT !.at = "record", !.uid = u,
                                        !.role = account[u].role].nr = browser[b].nr
          BY <4>1 DEF Signing
        <5>2. \A n : [browser[b] EXCEPT !.at = "name", !.name = n].nr = browser[b].nr
          BY <4>1 DEF Signing
        <5> QED BY <4>5, <5>1, <5>2, Zenon DEF LookByMail
      <4>6. CASE LookByName(b)
        <5>1. \A at, n : [browser[b] EXCEPT !.at = at, !.name = n].nr = browser[b].nr
          BY <4>1 DEF Signing
        <5>2. [browser[b] EXCEPT !.at = "prefixed", !.name = Prefixed(@)].nr = browser[b].nr
          BY <4>1 DEF Signing
        <5> QED BY <4>3, <4>6, <5>1, <5>2, Zenon DEF LookByName
      <4>7. CASE CreateLooks(b)
        BY <4>3, <4>4, <4>7, Zenon DEF CreateLooks
      <4>8. CASE CreateInserts(b)
        <5>1. [browser[b] EXCEPT !.at = "record", !.uid = uids + 1].nr = browser[b].nr
          BY <4>1 DEF Signing
        <5> QED BY <4>4, <4>8, <5>1, Zenon DEF CreateInserts
      <4>9. CASE Issue(b)
        BY <4>4, <4>9, Zenon DEF Issue
      <4> QED BY <2>4, <4>5, <4>6, <4>7, <4>8, <4>9
    <3> QED BY <2>1, <2>2, <3>1, SignInAssumption
  <2>5. CASE browser' = browser
    BY <2>1, <2>5
  <2>6. \/ browser' = browser
        \/ \E b \in Browser : \/ \E p \in Person : Callback(b, p)
                              \/ LookByMail(b) \/ LookByName(b) \/ CreateLooks(b)
                              \/ CreateInserts(b) \/ Issue(b)
    BY Zenon DEF SignInNext, NextSignDay, Nav, Refresh, AdminSetsRole, OutsideCreate,
       PurgeAccount, SetDetail, OutsideRole, OnlyAccounts, signVars
  <2> QED BY <2>3, <2>4, <2>5, <2>6
<1>6. \A b \in Browser : cookie'[b].day <= LastSignDay
  <2>1. /\ cookie \in [Browser -> SignToken] /\ signDay <= LastSignDay
        /\ \A b \in Browser : cookie[b].day <= LastSignDay
    BY <1>1 DEF SignTypes, SignMeters
  <2>2. \/ cookie' = cookie
        \/ \E b \in Browser : \E u, p, r : cookie' = [cookie EXCEPT ![b] = Token(u, p, r)]
        \/ \E b \in Browser : cookie' = [cookie EXCEPT ![b] = Renewed(@)]
    BY Zenon DEF SignInNext, NextSignDay, Callback, LookByMail, LookByName, CreateLooks,
       CreateInserts, Issue, Nav, Refresh, AdminSetsRole, OutsideCreate, PurgeAccount,
       SetDetail, OutsideRole, OnlyAccounts, OnlyBrowser, signVars
  <2>3. ASSUME NEW b \in Browser, NEW u, NEW p, NEW r,
               cookie' = [cookie EXCEPT ![b] = Token(u, p, r)]
        PROVE  \A c \in Browser : cookie'[c].day <= LastSignDay
    BY <2>1, <2>3 DEF Token
  <2>4. ASSUME NEW b \in Browser, cookie' = [cookie EXCEPT ![b] = Renewed(@)]
        PROVE  \A c \in Browser : cookie'[c].day <= LastSignDay
    BY <2>1, <2>4 DEF Renewed, SignToken
  <2> QED BY <2>1, <2>2, <2>3, <2>4
<1>7. crossed' \subseteq Person
  <2>1. crossed \subseteq Person
    BY DEF SignMeters
  <2>2. \A u \in Uid, m \in Mail : Interferes(u, m) \subseteq Person
    BY <1>2 DEF Interferes, Mail, Account
  <2>3. \A p \in Mail : MailOf(p) \in Mail
    BY SignConstants
  <2>4. \/ crossed' = crossed
        \/ \E b \in Browser : /\ browser[b].at = "mail"
                              /\ crossed' = crossed \cup {browser[b].person}
        \/ \E u \in Uid, m \in Mail : crossed' = crossed \cup Interferes(u, m)
        \/ \E m \in Mail : crossed' = crossed \cup ({m} \ {NoMail})
    <3>1. ASSUME NEW b \in Browser, CreateLooks(b)
          PROVE  \/ crossed' = crossed
                 \/ \E u \in Uid, m \in Mail : crossed' = crossed \cup Interferes(u, m)
      <4>1. MailOf(browser[b].person) \in Mail
        BY <1>2, <2>3 DEF Signing
      <4>2. \A n : Named(n) \subseteq Uid
        BY DEF Named
      <4> QED BY <3>1, <4>1, <4>2, Zenon DEF CreateLooks
    <3>2. ASSUME NEW n, NEW m \in Mail, OutsideCreate(n, m)
          PROVE  \/ \E u \in Uid, x \in Mail : crossed' = crossed \cup Interferes(u, x)
                 \/ \E x \in Mail : crossed' = crossed \cup ({x} \ {NoMail})
      <4>1. Named(n) \subseteq Uid
        BY DEF Named
      <4> QED BY <3>2, <4>1, Zenon DEF OutsideCreate
    <3>3. ASSUME NEW b \in Browser, LookByMail(b)
          PROVE  \/ crossed' = crossed
                 \/ /\ browser[b].at = "mail"
                    /\ crossed' = crossed \cup {browser[b].person}
      BY <3>3, Zenon DEF LookByMail
    <3>4. ASSUME NEW b \in Browser,
                 \/ \E p \in Person : Callback(b, p)
                 \/ LookByName(b) \/ CreateInserts(b) \/ Issue(b) \/ Nav(b) \/ Refresh(b)
                 \/ \E u \in Uid, r \in AccountRole : AdminSetsRole(b, u, r)
          PROVE  crossed' = crossed
      BY <3>4, Zenon DEF Callback, LookByName, CreateInserts, Issue, Nav, Refresh,
         AdminSetsRole
    <3>5. ASSUME NEW u \in Uid,
                 PurgeAccount(u) \/ \E r \in AccountRole : OutsideRole(u, r)
          PROVE  crossed' = crossed
      BY <3>5, Zenon DEF PurgeAccount, OutsideRole
    <3>6. ASSUME NEW u \in Uid, NEW m \in Mail, SetDetail(u, m)
          PROVE  crossed' = crossed \cup Interferes(u, m)
      BY <3>6, Zenon DEF SetDetail
    <3>7. NextSignDay \/ UNCHANGED signVars => crossed' = crossed
      BY Zenon DEF NextSignDay, signVars
    <3> QED BY <3>1, <3>2, <3>3, <3>4, <3>5, <3>6, <3>7, Zenon DEF SignInNext
  <2> QED BY <1>3, <2>1, <2>2, <2>4 DEF Mail
<1>8. NamesUnique(account')
  <2>1. account \in [Uid -> Account] /\ NamesUnique(account)
    BY <1>1 DEF SignTypes, SignMeters
  <2>2. \A u \in Uid : \A m : account' = Upserted(u, m) => NamesUnique(account')
    BY <2>1 DEF Upserted, NamesUnique, Account
  <2>3. \A u \in Uid : \A r : account' = WithRole(u, r) => NamesUnique(account')
    BY <2>1 DEF WithRole, NamesUnique, Account
  <2>4. \A u \in Uid : \A n, m :
          ~Taken(n) /\ account' = [account EXCEPT ![u] = NewAccount(n, m)]
            => NamesUnique(account')
    BY <2>1 DEF Taken, Named, Exists, NewAccount, NamesUnique
  <2>5. \A u \in Uid : account' = [account EXCEPT ![u] = NoAccount] => NamesUnique(account')
    BY <2>1 DEF NoAccount, NamesUnique
  <2>6. uids < LastUid => uids + 1 \in Uid
    BY <1>1, SignInAssumption DEF SignTypes, Uid
  <2>7. \A n : Named(n) \subseteq Uid
    BY DEF Named
  <2>8. \/ account' = account
        \/ \E u \in Uid : \E m : account' = Upserted(u, m)
        \/ \E u \in Uid : \E r : account' = WithRole(u, r)
        \/ \E u \in Uid : \E n, m :
              ~Taken(n) /\ account' = [account EXCEPT ![u] = NewAccount(n, m)]
        \/ \E u \in Uid : account' = [account EXCEPT ![u] = NoAccount]
    <3>1. ASSUME NEW b \in Browser, CreateLooks(b)
          PROVE  account' = account \/ \E u \in Uid : \E m : account' = Upserted(u, m)
      BY <2>7, <3>1, Zenon DEF CreateLooks
    <3>2. ASSUME NEW b \in Browser, CreateInserts(b)
          PROVE  \/ account' = account
                 \/ \E u \in Uid : \E n, m :
                       ~Taken(n) /\ account' = [account EXCEPT ![u] = NewAccount(n, m)]
      BY <2>6, <3>2, Zenon DEF CreateInserts
    <3>3. ASSUME NEW n, NEW m \in Mail, OutsideCreate(n, m)
          PROVE  \/ \E u \in Uid : \E x : account' = Upserted(u, x)
                 \/ \E u \in Uid : \E k, x :
                       ~Taken(k) /\ account' = [account EXCEPT ![u] = NewAccount(k, x)]
      BY <2>6, <2>7, <3>3, Zenon DEF OutsideCreate
    <3>4. ASSUME NEW b \in Browser,
                 \/ \E p \in Person : Callback(b, p)
                 \/ LookByMail(b) \/ LookByName(b) \/ Issue(b) \/ Nav(b) \/ Refresh(b)
          PROVE  account' = account
      BY <3>4, Zenon DEF Callback, LookByMail, LookByName, Issue, Nav, Refresh
    <3>5. ASSUME NEW b \in Browser, NEW u \in Uid, NEW r \in AccountRole,
                 AdminSetsRole(b, u, r)
          PROVE  account' = WithRole(u, r)
      BY <3>5, Zenon DEF AdminSetsRole
    <3>6. ASSUME NEW u \in Uid, PurgeAccount(u)
          PROVE  account' = [account EXCEPT ![u] = NoAccount]
      BY <3>6, Zenon DEF PurgeAccount
    <3>7. ASSUME NEW u \in Uid, NEW m \in Mail, SetDetail(u, m)
          PROVE  account' = Upserted(u, m)
      BY <3>7, Zenon DEF SetDetail
    <3>8. ASSUME NEW u \in Uid, NEW r \in AccountRole, OutsideRole(u, r)
          PROVE  account' = WithRole(u, r)
      BY <3>8, Zenon DEF OutsideRole
    <3>9. NextSignDay \/ UNCHANGED signVars => account' = account
      BY Zenon DEF NextSignDay, signVars
    <3>10. CASE \E b \in Browser :
                  \/ \E p \in Person : Callback(b, p)
                  \/ LookByMail(b) \/ LookByName(b) \/ CreateLooks(b) \/ CreateInserts(b)
                  \/ Issue(b) \/ Nav(b) \/ Refresh(b)
                  \/ \E u \in Uid, r \in AccountRole : AdminSetsRole(b, u, r)
      <4>1. PICK b \in Browser :
                  \/ \E p \in Person : Callback(b, p)
                  \/ LookByMail(b) \/ LookByName(b) \/ CreateLooks(b) \/ CreateInserts(b)
                  \/ Issue(b) \/ Nav(b) \/ Refresh(b)
                  \/ \E u \in Uid, r \in AccountRole : AdminSetsRole(b, u, r)
        BY <3>10
      <4> QED BY <3>1, <3>2, <3>4, <3>5, <4>1
    <3>11. CASE \E p \in Person, m \in Mail : OutsideCreate(CasName[p], m)
      BY <3>3, <3>11
    <3>12. CASE \E u \in Uid :
                  \/ PurgeAccount(u)
                  \/ \E m \in Mail : SetDetail(u, m)
                  \/ \E r \in AccountRole : OutsideRole(u, r)
      BY <3>6, <3>7, <3>8, <3>12
    <3> QED BY <3>9, <3>10, <3>11, <3>12, Zenon DEF SignInNext
  <2> QED BY <2>1, <2>2, <2>3, <2>4, <2>5, <2>8
<1> QED BY <1>4, <1>5, <1>6, <1>7, <1>8 DEF SignMeters, NamesUnique

LEMMA SignInsTyped == SignInSpec => []SignInTypeOK
<1>1. SignInInit => SignMeters
  BY SignInAssumption DEF SignInInit, SignMeters, NamesUnique, NoAccount, NoToken, NotSigning
<1>2. SignInv /\ SignMeters => SignInTypeOK
  <2> SUFFICES ASSUME SignInv, SignMeters PROVE SignInTypeOK
    OBVIOUS
  <2>1. SignTypes
    BY DEF SignInv
  <2>2. \A b \in Browser :
          /\ browser[b] \in
               [at : {"idle", "mail", "name", "prefixed", "create", "insert", "record"},
                person : Mail, nr : 0 .. SignInRequests, name : Int, uid : {0} \cup Uid,
                role : AccountRole \cup {NewClaim}]
          /\ cookie[b] \in [uid : {0} \cup Uid, person : Mail,
                            role : AccountRole \cup {NewClaim}, day : 0 .. LastSignDay]
    BY <2>1, SignInAssumption DEF SignTypes, SignMeters, Signing, SignToken
  <2> QED BY <2>1, <2>2 DEF SignTypes, SignMeters, NamesUnique, SignInTypeOK, Account
<1> QED BY <1>1, <1>2, SignMetersNext, SignInvInit, SignInvNext, PTL DEF SignInSpec

\* The variables of the desk keep their types: rows, requests and tokens are what
\* their tables and records hold, keys stay below the number of reports and
\* names of accounts are unique; and what an administrator is shown are pieces there are.
THEOREM DesksAreTyped == DeskSpec => []DeskTypeOK
<1>1. AuditTypeOK /\ ReportsTypeOK /\ GrowthTypeOK /\ SignInTypeOK /\ OfficeTypeOK
        => DeskTypeOK
  BY DEF DeskTypeOK
<1>2. OfficeInv => OfficeTypeOK
  BY OfficeInvGives
<1>3. OfficeSpec => []OfficeTypeOK
  BY <1>2, OfficeInvInit, OfficeInvNext, PTL DEF OfficeSpec
<1> QED BY <1>1, <1>3, DeskRunsAudits, DeskRunsReports, DeskRunsGrowth, DeskRunsSignIns,
           DeskRunsOffice, AuditsTyped, ReportsTyped, GrowthTyped, SignInsTyped, PTL

=============================================================================
