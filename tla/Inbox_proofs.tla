---------------------------- MODULE Inbox_proofs ----------------------------
(***************************************************************************)
(* Proofs about what lies in a user's inbox, for any number of notices,    *)
(* messages, limits, any page size and any number of requests at a time.   *)
(* Of the notices: each is delivered to those it is for.  Of the private   *)
(* messages: a recall reaches both users and is final and takes the text   *)
(* out of the session rows, a message is counted once, who is known stays  *)
(* known; and, for sends one at a time, what protects from strangers.      *)
(***************************************************************************)
EXTENDS MCInbox, FiniteSetTheorems, TLAPS

-----------------------------------------------------------------------------
(* The largest of a finite set of numbers.                                 *)

LEMMA LargestIsThere ==
  ASSUME NEW S \in SUBSET Int, IsFiniteSet(S), S # {}
  PROVE  LargestOf(S) \in S /\ \A x \in S : x <= LargestOf(S)
<1> DEFINE Above(n) == {x \in S : x > n}
           T == {Above(n) : n \in S}
<1>1. IsWellFoundedOn(StrictSubsetOrdering(S), FiniteSubsetsOf(S))
  BY FS_StrictSubsetOrderingWellFounded
<1>2. T \subseteq FiniteSubsetsOf(S) /\ T # {}
  <2>1. \A n \in S : Above(n) \in SUBSET S /\ IsFiniteSet(Above(n))
    BY FS_Subset
  <2> QED BY <2>1 DEF FiniteSubsetsOf
<1>3. PICK A \in T : \A B \in T : <<B, A>> \notin StrictSubsetOrdering(S)
  BY <1>1, <1>2, WFMin
<1>4. PICK n \in S : A = Above(n)
  BY <1>3
<1>5. \A x \in S : x <= n
  <2>1. SUFFICES ASSUME NEW x \in S, x > n PROVE FALSE
    OBVIOUS
  <2>2. /\ Above(x) \subseteq Above(n) /\ x \in Above(n) /\ x \notin Above(x)
        /\ Above(n) \subseteq S
    <3>1. x \in Int /\ n \in Int /\ \A y \in S : y \in Int
      OBVIOUS
    <3>2. \A y \in S : y > x => y > n
      BY <2>1, <3>1
    <3>3. ~(x > x)
      BY <3>1
    <3> QED BY <2>1, <3>2, <3>3
  <2>3. <<Above(x), Above(n)>> \in StrictSubsetOrdering(S)
    BY <2>2 DEF StrictSubsetOrdering
  <2> QED BY <1>3, <1>4, <2>1, <2>3
<1> QED BY <1>4, <1>5, Zenon DEF LargestOf

-----------------------------------------------------------------------------

NoticeJob ==
  {NoNoticeJob}
    \cup [op : {"publish"}, key : NoticeKey \cup {NoKey},
          made : NoticeKey \cup {NoKey}, target : Target]
    \cup [op : {"commit"}, n : Id, made : NoticeKey \cup {NoKey}]
    \cup [op : {"pull", "move"}, loaded : 0 .. LastNotice, from : 0 .. LastNotice,
          items : SUBSET Id]
    \cup [op : {"list"}, items : SUBSET Id]

NoticeTypes ==
  /\ notice \in [Id -> NoticeRow]
  /\ readRow \in [Id -> {"none", "read", "deleted"}]
  /\ cursor \in 0 .. LastNotice
  /\ given \subseteq 0 .. LastNotice
  /\ pulled \subseteq Id
  /\ noticeJob \in [NoticeWorker -> NoticeJob]

OfAPull == {"pull", "move"}
Hand(jobs) == UNION {jobs[w].items : w \in {v \in NoticeWorker : jobs[v].op \in OfAPull}}
Reached(c, g, jobs) == {c} \cup g \cup Hand(jobs)

\* The cursor, and what a pull starts from, are cursors a client was given.
CursorsWereGiven ==
  /\ cursor \in given \cup {0}
  /\ \A w \in NoticeWorker : noticeJob[w].op \in OfAPull =>
       noticeJob[w].from \in given \cup {0}

MovesAreRead ==
  \A w \in NoticeWorker : noticeJob[w].op = "move" =>
    \A n \in noticeJob[w].items : readRow[n] # "none"

\* What is visible and not above anything a pull has reached was pulled, is
\* being pulled, or became visible too late.
Accounted(n, hand, drawn, late) ==
  n \in drawn \/ n \in hand \/ [kind |-> "late", of |-> n] \in late
ReachedIsAccounted ==
  \A n \in Shown, y \in Reached(cursor, given, noticeJob) : n <= y =>
    Accounted(n, Hand(noticeJob), pulled, slips)

\* Of a request whose deliveries did not overlap and whose notice kept its key,
\* one delivery at most is under way, and only before there is a notice.
Calm(k, met) ==
  {[kind |-> "doubled", of |-> k], [kind |-> "edited", of |-> k]} \cap met = {}
OnceInv ==
  /\ \A w \in NoticeWorker : noticeJob[w].op = "publish" =>
        noticeJob[w].made \in {NoKey, noticeJob[w].key}
  /\ \A k \in NoticeKey : Calm(k, slips) =>
        /\ \A n \in Id : notice[n].made = k => notice[n].key = k
        /\ \A x, y \in Id : notice[x].made = k /\ notice[y].made = k => x = y
        /\ \A w \in NoticeWorker : noticeJob[w].op = "publish" /\ noticeJob[w].made = k =>
              \A n \in Id : notice[n].made # k
        /\ \A v, w \in NoticeWorker : Publishes(v, k) /\ Publishes(w, k) => v = w
        /\ \A n \in Id : notice[n].made = k /\ ~Committed(n) =>
              \E w \in NoticeWorker : noticeJob[w].op = "commit" /\ noticeJob[w].n = n
                                       /\ noticeJob[w].made = k

NoticeInv ==
  /\ NoticeTypes /\ CursorsWereGiven /\ MovesAreRead
  /\ PulledIsRead /\ OnceInv /\ ReachedIsAccounted

LEMMA NoticeJobParts ==
  \A j \in NoticeJob :
    /\ j.op \in OfAPull => /\ j.loaded \in 0 .. LastNotice
                           /\ j.from \in 0 .. LastNotice
                           /\ j.items \subseteq Id
    /\ j.op = "list" => j.items \subseteq Id
    /\ j.op = "commit" => j.n \in Id /\ j.made \in NoticeKey \cup {NoKey}
    /\ j.op = "publish" => /\ {j.key, j.made} \subseteq NoticeKey \cup {NoKey}
                           /\ j.target \in Target
BY DEF NoticeJob, OfAPull, NoNoticeJob

LEMMA ReachedIsFinite ==
  ASSUME NoticeTypes
  PROVE  /\ Hand(noticeJob) \subseteq Id
         /\ Reached(cursor, given, noticeJob) \subseteq 0 .. LastNotice
         /\ \A y \in Reached(cursor, given, noticeJob) : y <= Passed
         /\ Passed \in Reached(cursor, given, noticeJob)
<1>1. Hand(noticeJob) \subseteq Id
  BY NoticeJobParts DEF NoticeTypes, Hand
<1>2. Reached(cursor, given, noticeJob) \subseteq 0 .. LastNotice
  <2>1. Id \subseteq 0 .. LastNotice
    BY NoticeAssumption DEF Id
  <2> QED BY <1>1, <2>1 DEF NoticeTypes, Reached
<1>3. IsFiniteSet(0 .. LastNotice)
  BY NoticeAssumption, FS_Interval
<1>4. PICK R : R = Reached(cursor, given, noticeJob)
  OBVIOUS
<1>5. Passed = LargestOf(R)
  BY <1>4, Zenon DEF Passed, Reached, Hand, OfAPull
<1>6. IsFiniteSet(R) /\ R \in SUBSET Int /\ R # {}
  BY <1>2, <1>3, <1>4, FS_Subset, NoticeAssumption DEF Reached
<1> QED BY <1>1, <1>2, <1>4, <1>5, <1>6, LargestIsThere

\* The rows, the level or the marks change, and no pull is at work.
LEMMA RowsStep ==
  ASSUME NoticeInv, UNCHANGED <<cursor, given, pulled>>, slips \subseteq slips',
         notice' \in [Id -> NoticeRow],
         noticeJob' \in [NoticeWorker -> NoticeJob],
         readRow' \in [Id -> {"none", "read", "deleted"}],
         \A w \in NoticeWorker :
            noticeJob'[w].op \in OfAPull \/ noticeJob[w].op \in OfAPull
              => noticeJob'[w] = noticeJob[w],
         \A n \in Id : readRow[n] # "none" => readRow'[n] # "none",
         \A n \in Shown' : n \notin Shown /\ n <= Passed
            => [kind |-> "late", of |-> n] \in slips',
         OnceInv'
  PROVE  NoticeInv'
<1>1. NoticeTypes /\ NoticeTypes'
  BY DEF NoticeInv, NoticeTypes
<1>2. Hand(noticeJob') = Hand(noticeJob)
  BY DEF Hand
<1>3. Reached(cursor', given', noticeJob') = Reached(cursor, given, noticeJob)
  BY <1>2 DEF Reached
<1>4. CursorsWereGiven'
  BY DEF NoticeInv, CursorsWereGiven
<1>5. MovesAreRead'
  BY <1>1, NoticeJobParts DEF NoticeInv, MovesAreRead, NoticeTypes, OfAPull
<1>6. PulledIsRead'
  BY DEF NoticeInv, PulledIsRead, NoticeTypes
<1>7. ReachedIsAccounted'
  <2>1. SUFFICES ASSUME NEW n \in Shown', NEW y \in Reached(cursor, given, noticeJob),
                        n <= y
                 PROVE  Accounted(n, Hand(noticeJob), pulled, slips')
    BY <1>2, <1>3 DEF ReachedIsAccounted
  <2>2. CASE n \in Shown
    BY <2>1, <2>2 DEF NoticeInv, ReachedIsAccounted, Accounted
  <2>3. CASE n \notin Shown
    <3>1. y <= Passed /\ y \in Int /\ Passed \in Int /\ n \in Int
      BY <1>1, <2>1, ReachedIsFinite, NoticeAssumption DEF Shown, ShownIn, Id
    <3>2. n <= Passed
      BY <2>1, <3>1
    <3> QED BY <2>3, <3>2 DEF Accounted
  <2> QED BY <2>2, <2>3
<1> QED BY <1>1, <1>4, <1>5, <1>6, <1>7 DEF NoticeInv

\* No notice and no publication is touched that a request asks about.
OfAPublication == {"publish", "commit"}
SameJobs(ops) ==
  \A w \in NoticeWorker : noticeJob'[w].op \in ops \/ noticeJob[w].op \in ops
    => noticeJob'[w] = noticeJob[w]

LEMMA OnceStays ==
  ASSUME OnceInv, slips \subseteq slips', SameJobs(OfAPublication),
         \A n \in Id : notice'[n].made = notice[n].made /\ (Committed(n) <=> Committed(n)'),
         \A n \in Id : notice'[n].key # notice[n].key /\ notice[n].made \in NoticeKey
            => ~Calm(notice[n].made, slips') \/ notice'[n].key = notice[n].made
  PROVE  OnceInv'
<1>1. \A w \in NoticeWorker : \A k : Publishes(w, k)' <=> Publishes(w, k)
  BY DEF SameJobs, OfAPublication, Publishes
<1>2. \A w \in NoticeWorker : noticeJob'[w].op = "publish" =>
        noticeJob'[w].made \in {NoKey, noticeJob'[w].key}
  BY DEF SameJobs, OfAPublication, OnceInv
<1>3. ASSUME NEW k \in NoticeKey, Calm(k, slips')
      PROVE  /\ \A n \in Id : notice'[n].made = k => notice'[n].key = k
             /\ \A x, y \in Id : notice'[x].made = k /\ notice'[y].made = k => x = y
             /\ \A w \in NoticeWorker : noticeJob'[w].op = "publish" /\ noticeJob'[w].made = k =>
                   \A n \in Id : notice'[n].made # k
             /\ \A v, w \in NoticeWorker : Publishes(v, k)' /\ Publishes(w, k)' => v = w
             /\ \A n \in Id : notice'[n].made = k /\ ~Committed(n)' =>
                   \E w \in NoticeWorker : noticeJob'[w].op = "commit" /\ noticeJob'[w].n = n
                                            /\ noticeJob'[w].made = k
  <2>1. Calm(k, slips)
    BY <1>3 DEF Calm
  <2>2. \A n \in Id : notice[n].made = k => notice[n].key = k
    BY <2>1 DEF OnceInv
  <2>3. \A n \in Id : notice'[n].made = k => notice'[n].key = k
    BY <1>3, <2>2
  <2>4. \A x, y \in Id : notice'[x].made = k /\ notice'[y].made = k => x = y
    BY <2>1 DEF OnceInv
  <2>5. \A w \in NoticeWorker : noticeJob'[w].op = "publish" /\ noticeJob'[w].made = k =>
          \A n \in Id : notice'[n].made # k
    BY <2>1 DEF OnceInv, SameJobs, OfAPublication
  <2>6. \A v, w \in NoticeWorker : Publishes(v, k)' /\ Publishes(w, k)' => v = w
    BY <1>1, <2>1 DEF OnceInv
  <2>7. ASSUME NEW n \in Id, notice'[n].made = k, ~Committed(n)'
        PROVE  \E w \in NoticeWorker : noticeJob'[w].op = "commit" /\ noticeJob'[w].n = n
                                         /\ noticeJob'[w].made = k
    <3>1. PICK w \in NoticeWorker : noticeJob[w].op = "commit" /\ noticeJob[w].n = n
                                      /\ noticeJob[w].made = k
      BY <2>1, <2>7 DEF OnceInv
    <3>2. noticeJob'[w] = noticeJob[w]
      BY <3>1 DEF SameJobs, OfAPublication
    <3> QED BY <3>1, <3>2
  <2> QED BY <2>3, <2>4, <2>5, <2>6, <2>7
<1> QED BY <1>2, <1>3 DEF OnceInv, Calm

LEMMA OnceIsOnce == OnceInv => PublishedOnce
BY DEF OnceInv, PublishedOnce, Calm

\* Nothing that RowsStep asks about moves.
LEMMA MarksStep ==
  ASSUME NoticeInv, UNCHANGED <<notice, levelled, cursor, given, pulled, slips>>,
         noticeJob' \in [NoticeWorker -> NoticeJob],
         readRow' \in [Id -> {"none", "read", "deleted"}],
         SameJobs(OfAPull), SameJobs(OfAPublication),
         \A n \in Id : readRow[n] # "none" => readRow'[n] # "none"
  PROVE  NoticeInv'
<1>1. Shown' = Shown /\ notice' \in [Id -> NoticeRow]
  BY DEF Shown, ShownIn, InEffect, TargetsOf, NoticeInv, NoticeTypes
<1>2. OnceInv'
  BY OnceStays DEF NoticeInv, Committed
<1>3. \A w \in NoticeWorker :
        noticeJob'[w].op \in OfAPull \/ noticeJob[w].op \in OfAPull
          => noticeJob'[w] = noticeJob[w]
  BY DEF SameJobs
<1> QED BY <1>1, <1>2, <1>3, RowsStep

\* The rows change as Notify says, or the level does.
LEMMA NotifyStep ==
  ASSUME NoticeInv, UNCHANGED <<cursor, given, pulled, readRow>>,
         slips \subseteq slips', Late(notice', levelled') \subseteq slips',
         notice' \in [Id -> NoticeRow],
         noticeJob' \in [NoticeWorker -> NoticeJob],
         \A w \in NoticeWorker :
            noticeJob'[w].op \in OfAPull \/ noticeJob[w].op \in OfAPull
              => noticeJob'[w] = noticeJob[w],
         OnceInv'
  PROVE  NoticeInv'
<1>1. \A n \in Shown' : n \notin Shown /\ n <= Passed
        => [kind |-> "late", of |-> n] \in slips'
  <2>1. \A n \in ShownIn(notice', levelled') \ Shown : n <= Passed =>
          [kind |-> "late", of |-> n] \in Late(notice', levelled')
    BY DEF Late
  <2>2. Shown' = ShownIn(notice', levelled')
    BY Zenon DEF Shown, ShownIn, InEffect, TargetsOf
  <2> QED BY <2>1, <2>2
<1>2. readRow' \in [Id -> {"none", "read", "deleted"}]
  BY DEF NoticeInv, NoticeTypes
<1> QED BY <1>1, <1>2, RowsStep

-----------------------------------------------------------------------------
(* What changes the notices.                                               *)

LEMMA PublishChecksStep ==
  ASSUME NoticeInv, NEW w \in NoticeWorker,
         NEW k \in NoticeKey \cup {NoKey}, NEW t \in Target, NEW once \in BOOLEAN,
         PublishChecks(w, k, t, once)
  PROVE  NoticeInv'
<1>1. PICK made : made = IF once THEN k ELSE NoKey
  OBVIOUS
<1>2. PICK j : j = [op |-> "publish", key |-> k, made |-> made, target |-> t]
  OBVIOUS
<1>3. /\ j \in NoticeJob /\ j.op = "publish" /\ j.key = k /\ j.made = made
      /\ made \in {NoKey, k}
  BY <1>1, <1>2 DEF NoticeJob
<1>4. /\ noticeJob[w] = NoNoticeJob /\ noticeJob' = [noticeJob EXCEPT ![w] = j]
      /\ UNCHANGED <<notice, levelled, readRow, cursor, given, pulled>>
      /\ NoNoticeJob.op \notin OfAPull \cup OfAPublication
  BY <1>1, <1>2 DEF PublishChecks, Takes, NoNoticeJob, OfAPull, OfAPublication
<1>5. PICK met : met = {[kind |-> "doubled", of |-> k] :
                          v \in {x \in NoticeWorker : once /\ Publishes(x, k)}}
  OBVIOUS
<1>6. slips' = slips \cup met
  BY <1>5, Zenon DEF PublishChecks
<1>7. \A v \in NoticeWorker : noticeJob'[v] = IF v = w THEN j ELSE noticeJob[v]
  BY <1>4 DEF NoticeInv, NoticeTypes
<1>8. noticeJob' \in [NoticeWorker -> NoticeJob] /\ notice' \in [Id -> NoticeRow]
      /\ readRow' \in [Id -> {"none", "read", "deleted"}]
  BY <1>3, <1>4 DEF NoticeInv, NoticeTypes
<1>9. \A v \in NoticeWorker :
        noticeJob'[v].op \in OfAPull \/ noticeJob[v].op \in OfAPull
          => noticeJob'[v] = noticeJob[v]
  BY <1>3, <1>4, <1>7 DEF OfAPull
<1>10. Shown' = Shown
  BY <1>4 DEF Shown, ShownIn, InEffect, TargetsOf
<1>11. \A n \in Id : Committed(n)' <=> Committed(n)
  BY <1>4 DEF Committed
<1>12. \A v \in NoticeWorker : noticeJob'[v].op = "publish" =>
         noticeJob'[v].made \in {NoKey, noticeJob'[v].key}
  BY <1>3, <1>7 DEF NoticeInv, OnceInv
<1>13. ASSUME NEW q \in NoticeKey, Calm(q, slips')
       PROVE  /\ \A v \in NoticeWorker : noticeJob'[v].op = "publish" /\ noticeJob'[v].made = q =>
                    \A n \in Id : notice[n].made # q
              /\ \A u, v \in NoticeWorker : Publishes(u, q)' /\ Publishes(v, q)' => u = v
              /\ \A n \in Id : notice[n].made = q /\ ~Committed(n) =>
                    \E v \in NoticeWorker : noticeJob'[v].op = "commit" /\ noticeJob'[v].n = n
                                             /\ noticeJob'[v].made = q
  <2>1. Calm(q, slips)
    BY <1>6, <1>13 DEF Calm
  <2>2. /\ \A n \in Id : notice[n].made = q => notice[n].key = q
        /\ \A v \in NoticeWorker : noticeJob[v].op = "publish" /\ noticeJob[v].made = q =>
              \A n \in Id : notice[n].made # q
        /\ \A u, v \in NoticeWorker : Publishes(u, q) /\ Publishes(v, q) => u = v
        /\ \A n \in Id : notice[n].made = q /\ ~Committed(n) =>
              \E v \in NoticeWorker : noticeJob[v].op = "commit" /\ noticeJob[v].n = n
                                       /\ noticeJob[v].made = q
    BY <2>1 DEF NoticeInv, OnceInv
  <2>3. \A v \in NoticeWorker : Publishes(v, q)' <=> IF v = w THEN made = q ELSE Publishes(v, q)
    BY <1>3, <1>7 DEF Publishes
  <2>4. made = q => once /\ k = q /\ IsNew(q)
    BY <1>1, NoticeAssumption DEF PublishChecks
  <2>5. made = q => \A v \in NoticeWorker : ~Publishes(v, q)
    BY <1>5, <1>6, <1>13, <2>4 DEF Calm
  <2>6. made = q => \A n \in Id : notice[n].made # q
    <3> SUFFICES ASSUME made = q, NEW n \in Id, notice[n].made = q PROVE FALSE
      OBVIOUS
    <3>1. CASE Committed(n)
      BY <2>2, <2>4, <3>1 DEF IsNew
    <3>2. CASE ~Committed(n)
      BY <2>2, <2>5, <3>2 DEF Publishes
    <3> QED BY <3>1, <3>2
  <2>7. \A v \in NoticeWorker : noticeJob'[v].op = "publish" /\ noticeJob'[v].made = q =>
          \A n \in Id : notice[n].made # q
    BY <1>3, <1>7, <2>2, <2>6
  <2>8. \A u, v \in NoticeWorker : Publishes(u, q)' /\ Publishes(v, q)' => u = v
    BY <2>2, <2>3, <2>5
  <2>9. \A n \in Id : notice[n].made = q /\ ~Committed(n) =>
          \E v \in NoticeWorker : noticeJob'[v].op = "commit" /\ noticeJob'[v].n = n
                                   /\ noticeJob'[v].made = q
    <3> SUFFICES ASSUME NEW n \in Id, notice[n].made = q, ~Committed(n)
                 PROVE  \E v \in NoticeWorker : noticeJob'[v].op = "commit" /\ noticeJob'[v].n = n
                                                 /\ noticeJob'[v].made = q
      OBVIOUS
    <3>1. PICK v \in NoticeWorker : noticeJob[v].op = "commit" /\ noticeJob[v].n = n
                                      /\ noticeJob[v].made = q
      BY <2>2
    <3>2. noticeJob'[v] = noticeJob[v]
      BY <1>4, <1>7, <3>1 DEF OfAPublication
    <3> QED BY <3>1, <3>2
  <2> QED BY <2>7, <2>8, <2>9
<1>14. ASSUME NEW q \in NoticeKey, Calm(q, slips')
       PROVE  /\ \A n \in Id : notice[n].made = q => notice[n].key = q
              /\ \A x, y \in Id : notice[x].made = q /\ notice[y].made = q => x = y
  <2>1. Calm(q, slips)
    BY <1>6, <1>14 DEF Calm
  <2> QED BY <2>1 DEF NoticeInv, OnceInv
<1>15. OnceInv'
  BY <1>4, <1>11, <1>12, <1>13, <1>14 DEF OnceInv, Calm
<1>16. slips \subseteq slips'
  BY <1>6
<1> QED BY <1>4, <1>8, <1>9, <1>10, <1>15, <1>16, RowsStep

LEMMA PublishInsertsStep ==
  ASSUME NoticeInv, NEW w \in NoticeWorker, NEW n \in Id,
         NEW s \in {"draft", "published"}, NEW at \in {"early", "due"},
         PublishInserts(w, n, s, at)
  PROVE  NoticeInv'
<1>1. PICK own : own = noticeJob[w]
  OBVIOUS
<1>2. PICK row : row = [NoNotice EXCEPT !.status = "inserted", !.publish = s,
                          !.target = own.target, !.key = own.key,
                          !.made = own.made, !.at = at]
  OBVIOUS
<1>3. own.op = "publish" /\ own \in NoticeJob
  BY <1>1 DEF PublishInserts, NoticeInv, NoticeTypes
<1>4. /\ row \in NoticeRow /\ row.status = "inserted"
      /\ row.key = own.key /\ row.made = own.made
  BY <1>2, <1>3, NoticeJobParts DEF NoNotice, NoticeRow
<1>5. PICK j : j = [op |-> "commit", n |-> n, made |-> own.made]
  OBVIOUS
<1>6. /\ notice' = [notice EXCEPT ![n] = row] /\ notice[n].status = "none"
      /\ noticeJob' = [noticeJob EXCEPT ![w] = j]
      /\ UNCHANGED <<levelled, readRow, cursor, given, pulled, slips>>
  BY <1>1, <1>2, <1>5, Zenon DEF PublishInserts
<1>7. j \in NoticeJob /\ j.op = "commit" /\ j.n = n /\ j.made = own.made
  BY <1>3, <1>5, NoticeJobParts DEF NoticeJob
<1>8. noticeJob' \in [NoticeWorker -> NoticeJob] /\ notice' \in [Id -> NoticeRow]
  BY <1>4, <1>6, <1>7 DEF NoticeInv, NoticeTypes
<1>9. \A v \in NoticeWorker : noticeJob'[v] = IF v = w THEN j ELSE noticeJob[v]
  BY <1>6 DEF NoticeInv, NoticeTypes
<1>10. \A v \in NoticeWorker :
         noticeJob'[v].op \in OfAPull \/ noticeJob[v].op \in OfAPull
           => noticeJob'[v] = noticeJob[v]
  BY <1>1, <1>3, <1>7, <1>9 DEF OfAPull
<1>11. \A x \in Id : notice'[x] = IF x = n THEN row ELSE notice[x]
  BY <1>6 DEF NoticeInv, NoticeTypes
<1>12. Shown' \subseteq Shown
  BY <1>4, <1>6, <1>11 DEF Shown, ShownIn, InEffect, TargetsOf
<1>13. \A x \in Id : Committed(x)' => Committed(x)
  BY <1>4, <1>11 DEF Committed
<1>14. \A v \in NoticeWorker : \A q : Publishes(v, q)' <=> Publishes(v, q)
  BY <1>1, <1>3, <1>7, <1>9 DEF Publishes
<1>15. \A v \in NoticeWorker : noticeJob'[v].op = "publish" =>
         noticeJob'[v].made \in {NoKey, noticeJob'[v].key}
  BY <1>7, <1>9 DEF NoticeInv, OnceInv
<1>16. ASSUME NEW q \in NoticeKey, Calm(q, slips)
       PROVE  /\ \A x \in Id : notice'[x].made = q => notice'[x].key = q
              /\ \A x, y \in Id : notice'[x].made = q /\ notice'[y].made = q => x = y
              /\ \A v \in NoticeWorker : noticeJob'[v].op = "publish" /\ noticeJob'[v].made = q =>
                    \A x \in Id : notice'[x].made # q
              /\ \A x \in Id : notice'[x].made = q /\ ~Committed(x)' =>
                    \E v \in NoticeWorker : noticeJob'[v].op = "commit" /\ noticeJob'[v].n = x
                                             /\ noticeJob'[v].made = q
  <2>1. /\ \A x \in Id : notice[x].made = q => notice[x].key = q
        /\ \A x, y \in Id : notice[x].made = q /\ notice[y].made = q => x = y
        /\ \A v \in NoticeWorker : noticeJob[v].op = "publish" /\ noticeJob[v].made = q =>
              \A x \in Id : notice[x].made # q
        /\ \A u, v \in NoticeWorker : Publishes(u, q) /\ Publishes(v, q) => u = v
        /\ \A x \in Id : notice[x].made = q /\ ~Committed(x) =>
              \E v \in NoticeWorker : noticeJob[v].op = "commit" /\ noticeJob[v].n = x
                                       /\ noticeJob[v].made = q
    BY <1>16 DEF NoticeInv, OnceInv
  <2>2. own.made \in {NoKey, own.key}
    BY <1>1, <1>3 DEF NoticeInv, OnceInv
  <2>3. own.made = q => own.key = q
    BY <2>2, NoticeAssumption
  <2>4. own.made = q => /\ \A x \in Id : notice[x].made # q
                        /\ \A v \in NoticeWorker \ {w} : ~Publishes(v, q)
    BY <1>1, <1>3, <2>1 DEF Publishes
  <2>5. \A x \in Id : notice'[x].made = q => notice'[x].key = q
    BY <1>4, <1>11, <2>1, <2>3
  <2>6. \A x, y \in Id : notice'[x].made = q /\ notice'[y].made = q => x = y
    BY <1>4, <1>11, <2>1, <2>4
  <2>7. \A v \in NoticeWorker : noticeJob'[v].op = "publish" /\ noticeJob'[v].made = q =>
          \A x \in Id : notice'[x].made # q
    BY <1>4, <1>7, <1>9, <1>11, <2>1, <2>4 DEF Publishes
  <2>8. ASSUME NEW x \in Id, notice'[x].made = q, ~Committed(x)'
        PROVE  \E v \in NoticeWorker : noticeJob'[v].op = "commit" /\ noticeJob'[v].n = x
                                         /\ noticeJob'[v].made = q
    <3>1. CASE x = n
      BY <1>4, <1>7, <1>9, <1>11, <2>8, <3>1
    <3>2. CASE x # n
      <4>1. notice'[x] = notice[x] /\ ~Committed(x)
        BY <1>11, <2>8, <3>2 DEF Committed
      <4>2. PICK v \in NoticeWorker : noticeJob[v].op = "commit" /\ noticeJob[v].n = x
                                        /\ noticeJob[v].made = q
        BY <2>1, <2>8, <4>1
      <4>3. noticeJob'[v] = noticeJob[v]
        BY <1>1, <1>3, <1>9, <4>2
      <4> QED BY <4>2, <4>3
    <3> QED BY <3>1, <3>2
  <2> QED BY <2>5, <2>6, <2>7, <2>8
<1>17. \A q \in NoticeKey : Calm(q, slips) =>
         \A u, v \in NoticeWorker : Publishes(u, q)' /\ Publishes(v, q)' => u = v
  BY <1>14 DEF NoticeInv, OnceInv
<1>18. OnceInv'
  BY <1>6, <1>15, <1>16, <1>17 DEF OnceInv, Calm
<1>19. readRow' \in [Id -> {"none", "read", "deleted"}]
  BY <1>6 DEF NoticeInv, NoticeTypes
<1> QED BY <1>6, <1>8, <1>10, <1>12, <1>18, <1>19, RowsStep

LEMMA PublishCommitsStep ==
  ASSUME NoticeInv, NEW w \in NoticeWorker, PublishCommits(w)
  PROVE  NoticeInv'
<1>1. PICK n : n = noticeJob[w].n
  OBVIOUS
<1>2. noticeJob[w].op = "commit" /\ n \in Id
  BY <1>1, NoticeJobParts DEF PublishCommits, NoticeInv, NoticeTypes
<1>3. PICK row : row = [notice[n] EXCEPT !.status = notice[n].publish]
  OBVIOUS
<1>4. /\ row \in NoticeRow /\ row.key = notice[n].key /\ row.made = notice[n].made
      /\ row.status \in {"draft", "published"}
  BY <1>2, <1>3 DEF NoticeInv, NoticeTypes, NoticeRow
<1>5. notice' = [notice EXCEPT ![n] = row] /\ slips' = slips \cup Late(notice', levelled)
  BY <1>1, <1>3, Zenon DEF PublishCommits, Notify
<1>6. /\ noticeJob' = [noticeJob EXCEPT ![w] = NoNoticeJob]
      /\ UNCHANGED <<levelled, readRow, cursor, given, pulled>>
      /\ NoNoticeJob \in NoticeJob /\ NoNoticeJob.op = "idle"
  BY DEF PublishCommits, Answers, NoticeJob, NoNoticeJob
<1>7. noticeJob' \in [NoticeWorker -> NoticeJob] /\ notice' \in [Id -> NoticeRow]
  BY <1>2, <1>4, <1>5, <1>6 DEF NoticeInv, NoticeTypes
<1>8. \A v \in NoticeWorker : noticeJob'[v] = IF v = w THEN NoNoticeJob ELSE noticeJob[v]
  BY <1>6 DEF NoticeInv, NoticeTypes
<1>9. \A v \in NoticeWorker :
        noticeJob'[v].op \in OfAPull \/ noticeJob[v].op \in OfAPull
          => noticeJob'[v] = noticeJob[v]
  BY <1>2, <1>6, <1>8 DEF OfAPull
<1>10. \A x \in Id : notice'[x] = IF x = n THEN row ELSE notice[x]
  BY <1>2, <1>5 DEF NoticeInv, NoticeTypes
<1>11. \A x \in Id : notice'[x].made = notice[x].made /\ notice'[x].key = notice[x].key
  BY <1>4, <1>10
<1>12. \A v \in NoticeWorker : \A q : Publishes(v, q)' => Publishes(v, q)
  BY <1>6, <1>8 DEF Publishes
<1>13. \A v \in NoticeWorker : noticeJob'[v].op = "publish" => noticeJob'[v] = noticeJob[v]
  BY <1>6, <1>8
<1>14. ASSUME NEW q \in NoticeKey, Calm(q, slips')
       PROVE  /\ \A x \in Id : notice'[x].made = q => notice'[x].key = q
              /\ \A x, y \in Id : notice'[x].made = q /\ notice'[y].made = q => x = y
              /\ \A v \in NoticeWorker : noticeJob'[v].op = "publish" /\ noticeJob'[v].made = q =>
                    \A x \in Id : notice'[x].made # q
              /\ \A u, v \in NoticeWorker : Publishes(u, q)' /\ Publishes(v, q)' => u = v
              /\ \A x \in Id : notice'[x].made = q /\ ~Committed(x)' =>
                    \E v \in NoticeWorker : noticeJob'[v].op = "commit" /\ noticeJob'[v].n = x
                                             /\ noticeJob'[v].made = q
  <2>1. Calm(q, slips)
    BY <1>5, <1>14 DEF Calm
  <2>2. /\ \A x \in Id : notice[x].made = q => notice[x].key = q
        /\ \A x, y \in Id : notice[x].made = q /\ notice[y].made = q => x = y
        /\ \A v \in NoticeWorker : noticeJob[v].op = "publish" /\ noticeJob[v].made = q =>
              \A x \in Id : notice[x].made # q
        /\ \A u, v \in NoticeWorker : Publishes(u, q) /\ Publishes(v, q) => u = v
        /\ \A x \in Id : notice[x].made = q /\ ~Committed(x) =>
              \E v \in NoticeWorker : noticeJob[v].op = "commit" /\ noticeJob[v].n = x
                                       /\ noticeJob[v].made = q
    BY <2>1 DEF NoticeInv, OnceInv
  <2>3. ASSUME NEW x \in Id, notice'[x].made = q, ~Committed(x)'
        PROVE  \E v \in NoticeWorker : noticeJob'[v].op = "commit" /\ noticeJob'[v].n = x
                                         /\ noticeJob'[v].made = q
    <3>1. x # n
      BY <1>4, <1>10, <2>3 DEF Committed
    <3>2. notice'[x] = notice[x] /\ ~Committed(x)
      BY <1>10, <2>3, <3>1 DEF Committed
    <3>3. PICK v \in NoticeWorker : noticeJob[v].op = "commit" /\ noticeJob[v].n = x
                                      /\ noticeJob[v].made = q
      BY <2>2, <2>3, <3>2
    <3>4. noticeJob'[v] = noticeJob[v]
      BY <1>1, <1>8, <3>1, <3>3
    <3> QED BY <3>3, <3>4
  <2>4. \A x \in Id : notice'[x].made = q => notice'[x].key = q
    BY <1>11, <2>2
  <2>5. \A x, y \in Id : notice'[x].made = q /\ notice'[y].made = q => x = y
    BY <1>11, <2>2
  <2>6. \A v \in NoticeWorker : noticeJob'[v].op = "publish" /\ noticeJob'[v].made = q =>
          \A x \in Id : notice'[x].made # q
    BY <1>11, <1>13, <2>2
  <2>7. \A u, v \in NoticeWorker : Publishes(u, q)' /\ Publishes(v, q)' => u = v
    BY <1>12, <2>2
  <2> QED BY <2>3, <2>4, <2>5, <2>6, <2>7
<1>15. \A v \in NoticeWorker : noticeJob'[v].op = "publish" =>
         noticeJob'[v].made \in {NoKey, noticeJob'[v].key}
  BY <1>13 DEF NoticeInv, OnceInv
<1>16. OnceInv'
  BY <1>14, <1>15 DEF OnceInv, Calm
<1>17. slips \subseteq slips' /\ Late(notice', levelled') \subseteq slips'
  BY <1>5, <1>6
<1> QED BY <1>6, <1>7, <1>9, <1>16, <1>17, NotifyStep

LEMMA OneRowStep ==
  ASSUME NoticeInv, NEW n \in Id, Committed(n), NEW row \in NoticeRow,
         row.status \notin {"none", "inserted"}, row.made = notice[n].made,
         notice' = [notice EXCEPT ![n] = row],
         slips \subseteq slips', Late(notice', levelled) \subseteq slips',
         row.key # notice[n].key /\ notice[n].made \in NoticeKey =>
           ~Calm(notice[n].made, slips') \/ row.key = notice[n].made,
         UNCHANGED <<levelled, readRow, cursor, given, pulled, noticeJob>>
  PROVE  NoticeInv'
<1>1. \A x \in Id : notice'[x] = IF x = n THEN row ELSE notice[x]
  BY DEF NoticeInv, NoticeTypes
<1>2. \A x \in Id : /\ notice'[x].made = notice[x].made
                    /\ Committed(x) <=> Committed(x)'
  BY <1>1 DEF Committed
<1>3. \A x \in Id : notice'[x].key # notice[x].key /\ notice[x].made \in NoticeKey
        => ~Calm(notice[x].made, slips') \/ notice'[x].key = notice[x].made
  BY <1>1
<1>4. SameJobs(OfAPublication)
  BY DEF SameJobs
<1>5. OnceInv'
  BY <1>2, <1>3, <1>4, OnceStays DEF NoticeInv
<1>6. /\ Late(notice', levelled') \subseteq slips'
      /\ notice' \in [Id -> NoticeRow] /\ noticeJob' \in [NoticeWorker -> NoticeJob]
  BY DEF NoticeInv, NoticeTypes
<1> QED BY <1>5, <1>6, NotifyStep

LEMMA UpdateNoticeStep ==
  ASSUME NoticeInv, NEW n \in Id, NEW row \in Updates(notice[n]), UpdateNotice(n, row)
  PROVE  NoticeInv'
<1>1. notice[n] \in NoticeRow /\ Committed(n)
  BY DEF NoticeInv, NoticeTypes, UpdateNotice
<1>2. notice[n].status \notin {"none", "inserted"}
  BY <1>1 DEF Committed
<1>3. /\ row \in NoticeRow /\ row.made = notice[n].made
      /\ row.status \notin {"none", "inserted"}
  <2>1. CASE \E s \in {"draft", "published", "revoked"} :
               row = [notice[n] EXCEPT !.status = s]
    BY <1>1, <2>1 DEF NoticeRow
  <2>2. CASE \E t \in Target : row = [notice[n] EXCEPT !.target = t, !.key = NoKey]
    BY <1>1, <1>2, <2>2 DEF NoticeRow
  <2>3. CASE \E k \in NoticeKey : row = [notice[n] EXCEPT !.target = "mine", !.key = k]
    BY <1>1, <1>2, <2>3 DEF NoticeRow, Target
  <2>4. CASE \E t \in {"early", "due"} : row = [notice[n] EXCEPT !.at = t]
    BY <1>1, <1>2, <2>4 DEF NoticeRow
  <2> QED BY <2>1, <2>2, <2>3, <2>4 DEF Updates
<1>4. PICK edit : edit = IF notice[n].made \notin {NoKey, row.key}
                         THEN {[kind |-> "edited", of |-> notice[n].made]} ELSE {}
  OBVIOUS
<1>5. /\ notice' = [notice EXCEPT ![n] = row]
      /\ slips' = slips \cup Late(notice', levelled) \cup edit
      /\ UNCHANGED <<levelled, readRow, cursor, given, pulled, noticeJob>>
  BY <1>4, Zenon DEF UpdateNotice, AsksOnce
<1>6. row.key # notice[n].key /\ notice[n].made \in NoticeKey =>
        ~Calm(notice[n].made, slips') \/ row.key = notice[n].made
  <2> SUFFICES ASSUME notice[n].made \in NoticeKey, row.key # notice[n].made
               PROVE  ~Calm(notice[n].made, slips')
    OBVIOUS
  <2>1. [kind |-> "edited", of |-> notice[n].made] \in slips'
    BY <1>4, <1>5, NoticeAssumption
  <2> QED BY <2>1 DEF Calm
<1>7. slips \subseteq slips' /\ Late(notice', levelled) \subseteq slips'
  BY <1>5
<1> QED BY <1>1, <1>3, <1>5, <1>6, <1>7, OneRowStep

LEMMA TimePassesStep ==
  ASSUME NoticeInv, NEW n \in Id, TimePasses(n)
  PROVE  NoticeInv'
<1>1. PICK at : at = IF notice[n].at = "early" THEN "due" ELSE "over"
  OBVIOUS
<1>2. PICK row : row = [notice[n] EXCEPT !.at = at]
  OBVIOUS
<1>3. /\ row \in NoticeRow /\ row.key = notice[n].key /\ row.made = notice[n].made
      /\ row.status = notice[n].status
  BY <1>1, <1>2 DEF NoticeInv, NoticeTypes, NoticeRow
<1>4. notice' = [notice EXCEPT ![n] = row] /\ slips' = slips \cup Late(notice', levelled)
  BY <1>1, <1>2, Zenon DEF TimePasses, Notify
<1>5. Committed(n) /\ row.status \notin {"none", "inserted"}
  BY <1>3 DEF TimePasses, Committed
<1>6. slips \subseteq slips' /\ Late(notice', levelled) \subseteq slips'
  BY <1>4
<1> QED BY <1>3, <1>4, <1>5, <1>6, OneRowStep DEF TimePasses

LEMMA LevelUpStep ==
  ASSUME NoticeInv, LevelUp
  PROVE  NoticeInv'
<1>1. /\ slips' = slips \cup Late(notice', levelled')
      /\ UNCHANGED <<notice, readRow, cursor, given, pulled, noticeJob>>
  BY DEF LevelUp, Late, ShownIn, InEffect, TargetsOf
<1>2. OnceInv'
  <2>1. slips \subseteq slips' /\ SameJobs(OfAPublication)
    BY <1>1 DEF SameJobs
  <2> QED BY <1>1, <2>1, OnceStays DEF NoticeInv, Committed
<1> QED BY <1>1, <1>2, NotifyStep DEF NoticeInv, NoticeTypes

-----------------------------------------------------------------------------
(* What reads and marks them.                                              *)

LEMMA MarkedParts ==
  ASSUME NEW items,
         readRow \in [Id -> {"none", "read", "deleted"}], readRow' = Marked(readRow, items)
  PROVE  /\ readRow' \in [Id -> {"none", "read", "deleted"}]
         /\ \A n \in Id : readRow[n] # "none" => readRow'[n] = readRow[n]
         /\ \A n \in Id : n \in items => readRow'[n] # "none"
BY DEF Marked

LEMMA ListReadsStep ==
  ASSUME NoticeInv, NEW w \in NoticeWorker, NEW p, ListReads(w, p)
  PROVE  NoticeInv'
<1>1. PICK j : j = [op |-> "list", items |-> Listed(p)]
  OBVIOUS
<1>2. Listed(p) \subseteq Id
  BY DEF Listed, Shown, ShownIn
<1>3. j \in NoticeJob /\ j.op = "list" /\ noticeJob[w].op = "idle"
  BY <1>1, <1>2 DEF NoticeJob, ListReads, Asks, Takes, NoNoticeJob
<1>4. noticeJob' = [noticeJob EXCEPT ![w] = j]
  BY <1>1 DEF ListReads, Asks, Takes
<1>5. UNCHANGED <<notice, levelled, readRow, cursor, given, pulled, slips>>
  BY DEF ListReads
<1>6. SameJobs(OfAPull) /\ SameJobs(OfAPublication)
  BY <1>3, <1>4 DEF SameJobs, OfAPull, OfAPublication, NoticeInv, NoticeTypes
<1> QED BY <1>3, <1>4, <1>5, <1>6, MarksStep DEF NoticeInv, NoticeTypes

LEMMA ListMarksStep ==
  ASSUME NoticeInv, NEW w \in NoticeWorker, ListMarks(w)
  PROVE  NoticeInv'
<1>1. /\ noticeJob[w].op = "list"
      /\ noticeJob' = [noticeJob EXCEPT ![w] = NoNoticeJob]
      /\ readRow' = Marked(readRow, noticeJob[w].items)
      /\ UNCHANGED <<notice, levelled, cursor, given, pulled, slips>>
  BY DEF ListMarks, Answers
<1>2. NoNoticeJob \in NoticeJob /\ NoNoticeJob.op = "idle"
  BY DEF NoticeJob, NoNoticeJob
<1>3. /\ readRow' \in [Id -> {"none", "read", "deleted"}]
      /\ \A n \in Id : readRow[n] # "none" => readRow'[n] # "none"
  BY <1>1, MarkedParts DEF NoticeInv, NoticeTypes
<1>4. SameJobs(OfAPull) /\ SameJobs(OfAPublication)
  BY <1>1, <1>2 DEF SameJobs, NoticeInv, NoticeTypes, OfAPull, OfAPublication
<1>5. noticeJob' \in [NoticeWorker -> NoticeJob]
  BY <1>1, <1>2 DEF NoticeInv, NoticeTypes
<1> QED BY <1>1, <1>3, <1>4, <1>5, MarksStep

LEMMA DeleteNoticeStep ==
  ASSUME NoticeInv, NEW n \in Id, DeleteNotice(n)
  PROVE  NoticeInv'
<1>1. /\ readRow' = [readRow EXCEPT ![n] = "deleted"] /\ noticeJob' = noticeJob
      /\ UNCHANGED <<notice, levelled, cursor, given, pulled, slips>>
  BY DEF DeleteNotice, AsksOnce
<1>2. /\ readRow' \in [Id -> {"none", "read", "deleted"}]
      /\ \A x \in Id : readRow[x] # "none" => readRow'[x] # "none"
      /\ noticeJob' \in [NoticeWorker -> NoticeJob]
      /\ SameJobs(OfAPull) /\ SameJobs(OfAPublication)
  BY <1>1 DEF NoticeInv, NoticeTypes, SameJobs
<1> QED BY <1>1, <1>2, MarksStep

-----------------------------------------------------------------------------
(* A pull.                                                                 *)

\* A page has no gap: what is below one of its notices is on it.
LEMMA PageHasNoGap ==
  ASSUME NEW S \in SUBSET Id, NEW x \in PageOf(S), NEW n \in S, n <= x
  PROVE  n \in PageOf(S)
<1> DEFINE Below(y) == {z \in S : z < y}
<1>1. IsFiniteSet(S)
  <2>1. IsFiniteSet(Id)
    BY NoticeAssumption, FS_Interval DEF Id
  <2> QED BY <2>1, FS_Subset
<1>2. x \in S /\ Cardinality(Below(x)) < NoticeLimit
  BY DEF PageOf
<1>3. \A z \in S : z \in Int
  BY DEF Id
<1>4. Below(n) \subseteq Below(x) /\ Below(x) \subseteq S /\ Below(n) \subseteq S
  BY <1>2, <1>3
<1>5. IsFiniteSet(Below(x)) /\ IsFiniteSet(Below(n))
  BY <1>1, <1>4, FS_Subset
<1>6. Cardinality(Below(n)) <= Cardinality(Below(x))
  BY <1>4, <1>5, FS_Subset
<1>7. Cardinality(Below(n)) \in Nat /\ Cardinality(Below(x)) \in Nat
  BY <1>5, FS_CardinalityType
<1>8. Cardinality(Below(n)) < NoticeLimit
  BY <1>2, <1>6, <1>7, NoticeAssumption
<1> QED BY <1>8 DEF PageOf

LEMMA PullReadsStep ==
  ASSUME NoticeInv, NEW w \in NoticeWorker, NEW from, PullReads(w, from)
  PROVE  NoticeInv'
<1>1. PICK page : page = PageOf({n \in Shown : n > from})
  OBVIOUS
<1>2. PICK j : j = [op |-> "pull", loaded |-> cursor, from |-> from, items |-> page]
  OBVIOUS
<1>3. NoticeTypes
  BY DEF NoticeInv
<1>4. /\ from \in given \cup {cursor} /\ noticeJob[w] = NoNoticeJob
      /\ noticeJob' = [noticeJob EXCEPT ![w] = j]
      /\ UNCHANGED <<notice, levelled, readRow, cursor, given, pulled, slips>>
  BY <1>1, <1>2 DEF PullReads, Asks, Takes
<1>5. page \subseteq Shown /\ page \subseteq Id
  BY <1>1 DEF PageOf, Shown, ShownIn
<1>6. /\ j.op = "pull" /\ j.from = from /\ j.items = page /\ j \in NoticeJob
      /\ NoNoticeJob.op \notin OfAPull
  BY <1>2, <1>3, <1>4, <1>5 DEF NoticeTypes, NoticeJob, NoNoticeJob, OfAPull
<1>7. \A v \in NoticeWorker : noticeJob'[v] = IF v = w THEN j ELSE noticeJob[v]
  BY <1>3, <1>4 DEF NoticeTypes
<1>8. NoticeTypes'
  BY <1>3, <1>4, <1>6 DEF NoticeTypes
<1>9. CursorsWereGiven' /\ MovesAreRead'
  BY <1>4, <1>6, <1>7 DEF NoticeInv, CursorsWereGiven, MovesAreRead
<1>10. Hand(noticeJob') = Hand(noticeJob) \cup page
  BY <1>4, <1>6, <1>7 DEF Hand, OfAPull
<1>11. Shown' = Shown
  BY <1>4 DEF Shown, ShownIn, InEffect, TargetsOf
<1>12. OnceInv' /\ PulledIsRead'
  <2>1. SameJobs(OfAPublication)
    BY <1>4, <1>6, <1>7 DEF SameJobs, OfAPublication, NoNoticeJob
  <2> QED BY <1>4, <2>1, OnceStays DEF NoticeInv, PulledIsRead, Committed
<1>13. ReachedIsAccounted'
  <2>1. SUFFICES ASSUME NEW n \in Shown, NEW y \in Reached(cursor, given, noticeJob'),
                        n <= y
                 PROVE  Accounted(n, Hand(noticeJob'), pulled, slips)
    BY <1>4, <1>11 DEF ReachedIsAccounted
  <2>2. ASSUME NEW z \in Reached(cursor, given, noticeJob), n <= z
        PROVE  Accounted(n, Hand(noticeJob'), pulled, slips)
    BY <1>10, <2>2 DEF NoticeInv, ReachedIsAccounted, Accounted
  <2>3. CASE y \in Reached(cursor, given, noticeJob)
    BY <2>1, <2>2, <2>3
  <2>4. CASE y \in page
    <3>1. n \in Int /\ from \in Int /\ from \in Reached(cursor, given, noticeJob)
      BY <1>3, <1>4, NoticeAssumption DEF Shown, ShownIn, Id, NoticeTypes, Reached
    <3>2. CASE n <= from
      BY <2>2, <3>1, <3>2
    <3>3. CASE n > from
      <4>1. PICK S \in SUBSET Id : S = {x \in Shown : x > from}
        BY DEF Shown, ShownIn
      <4>2. n \in PageOf(S)
        BY <1>1, <2>1, <2>4, <3>3, <4>1, PageHasNoGap
      <4> QED BY <1>1, <1>10, <4>1, <4>2 DEF Accounted
    <3> QED BY <3>1, <3>2, <3>3
  <2> QED BY <1>10, <2>3, <2>4 DEF Reached
<1> QED BY <1>8, <1>9, <1>12, <1>13 DEF NoticeInv

LEMMA PullMarksStep ==
  ASSUME NoticeInv, NEW w \in NoticeWorker, PullMarks(w)
  PROVE  NoticeInv'
<1>1. NoticeTypes
  BY DEF NoticeInv
<1>2. PICK j : j = [noticeJob[w] EXCEPT !.op = "move"]
  OBVIOUS
<1>3. /\ noticeJob[w].op = "pull" /\ noticeJob' = [noticeJob EXCEPT ![w] = j]
      /\ readRow' = Marked(readRow, noticeJob[w].items)
      /\ UNCHANGED <<notice, levelled, cursor, given, pulled, slips>>
  BY <1>2, Zenon DEF PullMarks
<1>4. /\ j.op = "move" /\ j.items = noticeJob[w].items /\ j.from = noticeJob[w].from
      /\ j \in NoticeJob /\ j.items \subseteq Id
  BY <1>1, <1>2, <1>3 DEF NoticeTypes, NoticeJob, NoNoticeJob
<1>5. /\ readRow' \in [Id -> {"none", "read", "deleted"}]
      /\ \A n \in Id : readRow[n] # "none" => readRow'[n] # "none"
      /\ \A n \in Id : n \in j.items => readRow'[n] # "none"
  BY <1>1, <1>3, <1>4, MarkedParts DEF NoticeTypes
<1>6. \A v \in NoticeWorker : noticeJob'[v] = IF v = w THEN j ELSE noticeJob[v]
  BY <1>1, <1>3 DEF NoticeTypes
<1>7. NoticeTypes'
  BY <1>1, <1>3, <1>4, <1>5 DEF NoticeTypes
<1>8. CursorsWereGiven'
  BY <1>3, <1>4, <1>6 DEF NoticeInv, CursorsWereGiven, OfAPull
<1>9. MovesAreRead'
  <2>1. \A v \in NoticeWorker : noticeJob[v].op = "move" => noticeJob[v].items \subseteq Id
    BY <1>1, NoticeJobParts DEF NoticeTypes, OfAPull
  <2> QED BY <1>4, <1>5, <1>6, <2>1 DEF NoticeInv, MovesAreRead
<1>10. Hand(noticeJob') = Hand(noticeJob)
  BY <1>3, <1>4, <1>6 DEF Hand, OfAPull
<1>11. Shown' = Shown
  BY <1>3 DEF Shown, ShownIn, InEffect, TargetsOf
<1>12. OnceInv' /\ PulledIsRead'
  <2>1. SameJobs(OfAPublication)
    BY <1>3, <1>4, <1>6 DEF SameJobs, OfAPublication
  <2> QED BY <1>3, <1>5, <2>1, OnceStays DEF NoticeInv, PulledIsRead, Committed
<1>13. ReachedIsAccounted'
  BY <1>3, <1>10, <1>11 DEF NoticeInv, ReachedIsAccounted, Reached, Accounted
<1> QED BY <1>7, <1>8, <1>9, <1>12, <1>13 DEF NoticeInv

\* What a pull answers with, and what it makes of the cursor.
LEMMA PullMovesParts ==
  ASSUME NoticeInv, NEW w \in NoticeWorker, PullMoves(w)
  PROVE  \E new \in 0 .. LastNotice :
           /\ noticeJob[w].op = "move"
           /\ given' = given \cup {new}
           /\ new \in {noticeJob[w].from} \cup noticeJob[w].items
           /\ \A n \in noticeJob[w].items : n <= new
           /\ cursor' \in {cursor, new}
           /\ noticeJob[w].loaded = cursor => cursor' >= cursor
<1>1. NoticeTypes
  BY DEF NoticeInv
<1>2. PICK j : j = noticeJob[w]
  OBVIOUS
<1>3. /\ j.op = "move" /\ j.from \in 0 .. LastNotice
      /\ j.loaded \in 0 .. LastNotice /\ j.items \subseteq Id
  BY <1>1, <1>2, NoticeJobParts DEF PullMoves, NoticeTypes, OfAPull
<1>4. PICK S : S = {j.from} \cup j.items
  OBVIOUS
<1>5. S \subseteq 0 .. LastNotice /\ S # {}
  <2>1. Id \subseteq 0 .. LastNotice
    BY NoticeAssumption DEF Id
  <2> QED BY <1>3, <1>4, <2>1
<1>6. \A T \in SUBSET (0 .. LastNotice) : T # {} =>
        LargestOf(T) \in T /\ \A x \in T : x <= LargestOf(T)
  <2> TAKE T \in SUBSET (0 .. LastNotice)
  <2> HAVE T # {}
  <2>1. IsFiniteSet(0 .. LastNotice)
    BY NoticeAssumption, FS_Interval
  <2>2. IsFiniteSet(T)
    BY <2>1, FS_Subset
  <2>3. T \in SUBSET Int
    OBVIOUS
  <2> QED BY <2>2, <2>3, LargestIsThere
<1>7. PICK new : new = LargestOf(S)
  OBVIOUS
<1>8. new \in S /\ \A x \in S : x <= new
  BY <1>5, <1>6, <1>7
<1>9. PICK moved : moved = LargestOf({j.loaded, new})
  OBVIOUS
<1>10. moved \in {j.loaded, new} /\ j.loaded <= moved
  <2>1. {j.loaded, new} \in SUBSET (0 .. LastNotice)
    BY <1>3, <1>5, <1>8
  <2> QED BY <1>6, <1>9, <2>1
<1>11. /\ cursor' = IF moved # j.loaded THEN moved ELSE cursor
       /\ given' = given \cup {new}
  BY <1>2, <1>4, <1>7, <1>9, Zenon DEF PullMoves
<1>12. j.loaded = cursor => cursor' >= cursor
  <2>1. cursor \in Int
    BY <1>1, NoticeAssumption DEF NoticeTypes
  <2> QED BY <1>10, <1>11, <2>1
<1>13. \A n \in j.items : n <= new
  BY <1>4, <1>8
<1> QED BY <1>2, <1>3, <1>4, <1>5, <1>8, <1>10, <1>11, <1>12, <1>13

LEMMA PullMovesStep ==
  ASSUME NoticeInv, NEW w \in NoticeWorker, PullMoves(w)
  PROVE  NoticeInv'
<1>1. NoticeTypes
  BY DEF NoticeInv
<1>2. PICK j : j = noticeJob[w]
  OBVIOUS
<1>3. PICK new \in 0 .. LastNotice :
        /\ j.op = "move" /\ given' = given \cup {new}
        /\ new \in {j.from} \cup j.items
        /\ cursor' \in {cursor, new}
  BY <1>2, PullMovesParts
<1>4. j.items \subseteq Id /\ j.from \in given \cup {0}
  BY <1>1, <1>2, <1>3, NoticeJobParts DEF NoticeTypes, OfAPull, NoticeInv, CursorsWereGiven
<1>5. /\ pulled' = pulled \cup j.items
      /\ noticeJob' = [noticeJob EXCEPT ![w] = NoNoticeJob]
      /\ UNCHANGED <<notice, levelled, readRow, slips>>
  BY <1>2 DEF PullMoves, Answers
<1>6. NoNoticeJob \in NoticeJob /\ NoNoticeJob.op \notin OfAPull
  BY DEF NoticeJob, NoNoticeJob, OfAPull
<1>7. \A v \in NoticeWorker : noticeJob'[v] = IF v = w THEN NoNoticeJob ELSE noticeJob[v]
  BY <1>1, <1>5 DEF NoticeTypes
<1>8. NoticeTypes'
  BY <1>1, <1>3, <1>4, <1>5, <1>6 DEF NoticeTypes
<1>9. CursorsWereGiven'
  BY <1>3, <1>6, <1>7 DEF NoticeInv, CursorsWereGiven
<1>10. MovesAreRead'
  BY <1>5, <1>6, <1>7 DEF NoticeInv, MovesAreRead, OfAPull
<1>11. \A n \in j.items : readRow[n] # "none"
  BY <1>2, <1>3 DEF NoticeInv, MovesAreRead
<1>12. OnceInv' /\ PulledIsRead'
  <2>1. SameJobs(OfAPublication)
    BY <1>2, <1>3, <1>7 DEF SameJobs, OfAPublication, NoNoticeJob
  <2> QED BY <1>5, <1>11, <2>1, OnceStays DEF NoticeInv, PulledIsRead, Committed
<1>13. /\ Hand(noticeJob') \subseteq Hand(noticeJob)
       /\ Hand(noticeJob) \subseteq Hand(noticeJob') \cup j.items
       /\ j.items \subseteq Hand(noticeJob)
  BY <1>2, <1>3, <1>6, <1>7 DEF Hand, OfAPull
<1>14. Shown' = Shown
  BY <1>5 DEF Shown, ShownIn, InEffect, TargetsOf
<1>15. Reached(cursor', given', noticeJob')
         \subseteq Reached(cursor, given, noticeJob) \cup {0}
  BY <1>3, <1>4, <1>13 DEF Reached
<1>16. ReachedIsAccounted'
  <2>1. SUFFICES ASSUME NEW n \in Shown, NEW y \in Reached(cursor', given', noticeJob'),
                        n <= y
                 PROVE  Accounted(n, Hand(noticeJob'), pulled', slips)
    BY <1>5, <1>14 DEF ReachedIsAccounted
  <2>2. y # 0
    BY <2>1 DEF Shown, ShownIn, Id
  <2>3. Accounted(n, Hand(noticeJob), pulled, slips)
    BY <1>15, <2>1, <2>2 DEF NoticeInv, ReachedIsAccounted
  <2> QED BY <1>5, <1>13, <2>3 DEF Accounted
<1> QED BY <1>8, <1>9, <1>10, <1>12, <1>16 DEF NoticeInv

-----------------------------------------------------------------------------

LEMMA NoticeInvInit == NoticesInit => NoticeInv
<1> SUFFICES ASSUME NoticesInit PROVE NoticeInv
  OBVIOUS
<1>1. \A n \in Id : notice[n] = NoNotice /\ NoNotice \in NoticeRow
                    /\ NoNotice.status = "none"
  BY DEF NoticesInit, NoNotice, NoticeRow, Target
<1>2. NoticeTypes
  BY <1>1, NoticeAssumption DEF NoticesInit, NoticeTypes, NoticeJob
<1>3. Shown = {}
  BY <1>1 DEF Shown, ShownIn, InEffect
<1>4. CursorsWereGiven /\ MovesAreRead
  BY DEF NoticesInit, CursorsWereGiven, MovesAreRead, NoNoticeJob, OfAPull
<1>5. OnceInv
  <2>1. \A n \in Id, k \in NoticeKey : notice[n].made # k
    BY <1>1, NoticeAssumption DEF NoNotice
  <2>2. \A w \in NoticeWorker : noticeJob[w].op = "idle"
    BY DEF NoticesInit, NoNoticeJob
  <2> QED BY <2>1, <2>2 DEF OnceInv, Publishes
<1> QED BY <1>2, <1>3, <1>4, <1>5
        DEF NoticeInv, PulledIsRead, ReachedIsAccounted, NoticesInit

LEMMA NoticeInvNext == NoticeInv /\ [NoticesNext]_noticeVars => NoticeInv'
<1> SUFFICES ASSUME NoticeInv, [NoticesNext]_noticeVars PROVE NoticeInv'
  OBVIOUS
<1>1. CASE UNCHANGED noticeVars
  <2>1. UNCHANGED <<notice, levelled, readRow, cursor, given, pulled, slips, noticeJob>>
    BY <1>1 DEF noticeVars
  <2>2. SameJobs(OfAPull) /\ SameJobs(OfAPublication)
    BY <2>1 DEF SameJobs
  <2> QED BY <2>1, <2>2, MarksStep DEF NoticeInv, NoticeTypes
<1>2. ASSUME NEW w \in NoticeWorker,
             \/ \E k \in NoticeKey \cup {NoKey}, t \in Target, once \in BOOLEAN :
                  PublishChecks(w, k, t, once)
             \/ \E n \in Id, s \in {"draft", "published"}, at \in {"early", "due"} :
                  PublishInserts(w, n, s, at)
             \/ PublishCommits(w)
             \/ \E from \in 0 .. LastNotice : PullReads(w, from)
             \/ PullMarks(w) \/ PullMoves(w)
             \/ \E p \in 0 .. LastNotice : ListReads(w, p)
             \/ ListMarks(w)
      PROVE  NoticeInv'
  BY <1>2, PublishChecksStep, PublishInsertsStep, PublishCommitsStep, PullReadsStep,
     PullMarksStep, PullMovesStep, ListReadsStep, ListMarksStep
<1>3. ASSUME NEW n \in Id,
             \/ \E row \in Updates(notice[n]) : UpdateNotice(n, row)
             \/ TimePasses(n)
             \/ DeleteNotice(n)
      PROVE  NoticeInv'
  BY <1>3, UpdateNoticeStep, TimePassesStep, DeleteNoticeStep
<1>4. CASE LevelUp
  BY <1>4, LevelUpStep
<1> QED BY <1>1, <1>2, <1>3, <1>4 DEF NoticesNext

\* What a step does to the deleted notices and to the cursor.
DeletedStay == \A n \in Id : readRow[n] = "deleted" => readRow'[n] = "deleted"
CursorFallsByAStaleMove ==
  cursor' < cursor => \E w \in NoticeWorker :
    noticeJob[w].op = "move" /\ noticeJob[w].loaded # cursor

LEMMA NoticeStepKeeps ==
  NoticeInv /\ [NoticesNext]_noticeVars => DeletedStay /\ CursorFallsByAStaleMove
<1> SUFFICES ASSUME NoticeInv, [NoticesNext]_noticeVars
             PROVE  DeletedStay /\ CursorFallsByAStaleMove
  OBVIOUS
<1>1. cursor \in Int /\ readRow \in [Id -> {"none", "read", "deleted"}]
  BY NoticeAssumption DEF NoticeInv, NoticeTypes
<1>2. DeletedStay
  <2>1. CASE readRow' = readRow
    BY <2>1 DEF DeletedStay
  <2>2. ASSUME NEW items, readRow' = Marked(readRow, items) PROVE DeletedStay
    BY <1>1, <2>2, MarkedParts DEF DeletedStay
  <2>3. ASSUME NEW n \in Id, DeleteNotice(n) PROVE DeletedStay
    BY <1>1, <2>3 DEF DeletedStay, DeleteNotice
  <2> QED BY <2>1, <2>2, <2>3
          DEF NoticesNext, noticeVars, PublishChecks, PublishInserts, PublishCommits,
              PullReads, PullMarks, PullMoves, ListReads, ListMarks, UpdateNotice,
              TimePasses, LevelUp
<1>3. CursorFallsByAStaleMove
  <2>1. CASE cursor' = cursor
    BY <1>1, <2>1 DEF CursorFallsByAStaleMove
  <2>2. ASSUME NEW w \in NoticeWorker, PullMoves(w) PROVE CursorFallsByAStaleMove
    <3>1. PICK new \in 0 .. LastNotice :
            /\ noticeJob[w].op = "move" /\ cursor' \in {cursor, new}
            /\ noticeJob[w].loaded = cursor => cursor' >= cursor
      BY <2>2, PullMovesParts
    <3>2. cursor' \in Int
      BY <1>1, <3>1, NoticeAssumption
    <3> QED BY <1>1, <3>1, <3>2 DEF CursorFallsByAStaleMove
  <2> QED BY <2>1, <2>2
          DEF NoticesNext, noticeVars, PublishChecks, PublishInserts, PublishCommits,
              PullReads, PullMarks, ListReads, ListMarks, UpdateNotice,
              TimePasses, LevelUp, DeleteNotice
<1> QED BY <1>2, <1>3

\* Whatever becomes visible and whenever, however many pulls overlap: no notice
\* that was visible is passed over, what was returned is read, a request that is
\* published idempotently makes one notice unless its deliveries overlap or its
\* notice is edited, a deleted notice stays deleted, and the cursor goes back only by a
\* pull that loaded it before it was moved.
THEOREM NoticesAreDelivered == NoticesSpec => NoticesHold
<1>1. NoticeInv => NothingSkipped /\ PulledIsRead /\ PublishedOnce
  <2> SUFFICES ASSUME NoticeInv PROVE NothingSkipped
    BY OnceIsOnce DEF NoticeInv
  <2>1. \A n \in Shown : n <= cursor => Accounted(n, Hand(noticeJob), pulled, slips)
    BY DEF NoticeInv, ReachedIsAccounted, Reached
  <2>2. \A n \in Hand(noticeJob) : InHand(n)
    BY DEF Hand, InHand, OfAPull
  <2> QED BY <2>1, <2>2 DEF NothingSkipped, Accounted
<1>2. NoticesSpec => []NoticeInv
  BY NoticeInvInit, NoticeInvNext, PTL DEF NoticesSpec
<1>3. NoticeInv /\ [NoticesNext]_noticeVars
        => [/\ \A n \in Id : readRow[n] = "deleted" => readRow'[n] = "deleted"
            /\ cursor' < cursor => \E w \in NoticeWorker :
                 noticeJob[w].op = "move" /\ noticeJob[w].loaded # cursor]_noticeVars
  BY NoticeStepKeeps DEF DeletedStay, CursorFallsByAStaleMove
<1> QED BY <1>1, <1>2, <1>3, PTL DEF NoticesSpec, NoticesHold

-----------------------------------------------------------------------------
(* Private messages.                                                       *)

Stage == {"free", "keyed", "gated", "filtered", "sent", "refused"}
Status == {"none", "normal", "recalled", "deleted"}

\* The parts of the type invariant the argument needs; of a request only that
\* there is one for each user.
Shapes ==
    /\ send \in [Key -> [at: Stage, from: User, folder: {"single", "stranger"}]]
    /\ status \in [User -> [Key -> Status]]
    /\ recalled \subseteq Key
    /\ request = [u \in User |-> request[u]]

\* Only a message that was sent is recalled, now or later: the transaction
\* that stores the rows cannot come after the recall.
OnlySentIsRecalled ==
    /\ \A k \in recalled : send[k].at = "sent"
    /\ \A u \in User, k \in Key : status[u][k] = "normal" => send[k].at = "sent"
    /\ \A u \in User : request[u].at = "recall" =>
          request[u].key \in Key /\ send[request[u].key].at = "sent"

Inv == Shapes /\ OnlySentIsRecalled /\ RecallIsMutual

LEMMA InvInit == Init => Inv
<1> SUFFICES ASSUME Init PROVE Inv
  OBVIOUS
<1>1. send \in [Key -> [at: Stage, from: User, folder: {"single", "stranger"}]]
  BY DEF Init, Stage
<1>2. status \in [User -> [Key -> Status]]
  BY DEF Init, Status
<1>3. \A u \in User : request[u].at = "idle"
  BY DEF Init, Idle
<1>4. request = [u \in User |-> request[u]] /\ recalled = {}
  BY DEF Init
<1>5. \A u \in User, k \in Key : status[u][k] = "none"
  BY DEF Init
<1> QED
  BY <1>1, <1>2, <1>3, <1>4, <1>5
  DEF Inv, Shapes, OnlySentIsRecalled, RecallIsMutual

\* What keeps the statuses and the recalled keys only has to keep the sent
\* messages sent.
LEMMA KeepsInv ==
    ASSUME Inv, UNCHANGED <<status, recalled>>,
           send' \in [Key -> [at: Stage, from: User, folder: {"single", "stranger"}]],
           \A k \in Key : send[k].at = "sent" => send'[k].at = "sent",
           request' = [u \in User |-> request'[u]],
           \A u \in User : request'[u].at = "recall" =>
              request'[u].key \in Key /\ send[request'[u].key].at = "sent"
    PROVE  Inv'
<1>1. Shapes'
  BY DEF Inv, Shapes
<1>2. RecallIsMutual'
  BY DEF Inv, RecallIsMutual
<1>3. OnlySentIsRecalled'
  BY DEF Inv, Shapes, OnlySentIsRecalled
<1> QED BY <1>1, <1>2, <1>3 DEF Inv

\* A request of one user that does not recall.
LEMMA OtherRequest ==
    ASSUME Inv, NEW u \in User, NEW r, r.at # "recall",
           request' = [request EXCEPT ![u] = r], UNCHANGED <<send, status, recalled>>
    PROVE  Inv'
<1>1. /\ request' = [v \in User |-> request'[v]]
      /\ request'[u] = r
      /\ \A v \in User \ {u} : request'[v] = request[v]
  BY DEF Inv, Shapes
<1>2. \A v \in User : request'[v].at = "recall" =>
          request'[v].key \in Key /\ send[request'[v].key].at = "sent"
  BY <1>1 DEF Inv, OnlySentIsRecalled
<1>3. send' \in [Key -> [at: Stage, from: User, folder: {"single", "stranger"}]]
  BY DEF Inv, Shapes
<1>4. \A k \in Key : send[k].at = "sent" => send'[k].at = "sent"
  OBVIOUS
<1> QED BY <1>1, <1>2, <1>3, <1>4, KeepsInv

LEMMA SendInv ==
    ASSUME Inv, NEW k \in Key,
           SendStart(k) \/ SendRefused(k) \/ SendGate(k) \/ SendFilter(k)
    PROVE  Inv'
<1>1. UNCHANGED <<status, recalled, request>>
  BY DEF SendStart, SendRefused, SendGate, SendFilter, SendOnly
<1>2. send' \in [Key -> [at: Stage, from: User, folder: {"single", "stranger"}]]
  <2>1. \/ \E at \in Stage : send' = [send EXCEPT ![k].at = at]
        \/ \E at \in Stage, f \in {"single", "stranger"} :
              send' = [send EXCEPT ![k].at = at, ![k].folder = f]
    BY DEF SendStart, SendRefused, SendGate, SendFilter, Stage
  <2>2. send[k] \in [at: Stage, from: User, folder: {"single", "stranger"}]
    BY DEF Inv, Shapes
  <2>3. \E r \in [at: Stage, from: User, folder: {"single", "stranger"}] :
            send' = [send EXCEPT ![k] = r]
    <3>1. ASSUME NEW at \in Stage, send' = [send EXCEPT ![k].at = at]
          PROVE  send' = [send EXCEPT ![k] = [send[k] EXCEPT !.at = at]]
      BY <3>1
    <3>2. ASSUME NEW at \in Stage, NEW f \in {"single", "stranger"},
                 send' = [send EXCEPT ![k].at = at, ![k].folder = f]
          PROVE  send' = [send EXCEPT ![k] =
                              [[send[k] EXCEPT !.at = at] EXCEPT !.folder = f]]
      BY <3>2, <2>2 DEF Inv, Shapes
    <3>4. CASE \E at \in Stage : send' = [send EXCEPT ![k].at = at]
      <4>1. PICK at \in Stage : send' = [send EXCEPT ![k].at = at]
        BY <3>4
      <4>2. [send[k] EXCEPT !.at = at] \in
                      [at: Stage, from: User, folder: {"single", "stranger"}]
        BY <2>2
      <4>3. send' = [send EXCEPT ![k] = [send[k] EXCEPT !.at = at]]
        BY <4>1, <3>1
      <4> QED BY <4>2, <4>3, Zenon
    <3>5. CASE \E at \in Stage, f \in {"single", "stranger"} :
                  send' = [send EXCEPT ![k].at = at, ![k].folder = f]
      <4>1. PICK at \in Stage, f \in {"single", "stranger"} :
                  send' = [send EXCEPT ![k].at = at, ![k].folder = f]
        BY <3>5
      <4>2. [[send[k] EXCEPT !.at = at] EXCEPT !.folder = f] \in
                      [at: Stage, from: User, folder: {"single", "stranger"}]
        BY <2>2
      <4>3. send' = [send EXCEPT ![k] = [[send[k] EXCEPT !.at = at] EXCEPT !.folder = f]]
        BY <4>1, <3>2
      <4> QED BY <4>2, <4>3, Zenon
    <3> QED BY <2>1, <3>4, <3>5
  <2> QED BY <2>3 DEF Inv, Shapes
<1>3. send[k].at # "sent" /\ \A j \in Key \ {k} : send'[j] = send[j]
  BY DEF Inv, Shapes, SendStart, SendRefused, SendGate, SendFilter
<1>4. request' = [u \in User |-> request'[u]]
  BY <1>1 DEF Inv, Shapes
<1>5. \A u \in User : request'[u].at = "recall" =>
          request'[u].key \in Key /\ send[request'[u].key].at = "sent"
  BY <1>1 DEF Inv, OnlySentIsRecalled
<1>6. \A j \in Key : send[j].at = "sent" => send'[j].at = "sent"
  BY <1>3
<1> QED BY <1>1, <1>2, <1>4, <1>5, <1>6, KeepsInv

\* The rows of a message are stored before it can be recalled.
LEMMA PersistInv ==
    ASSUME Inv, NEW k \in Key, SendPersist(k)
    PROVE  Inv'
<1>1. /\ send[k].at = "filtered"
      /\ send' = [send EXCEPT ![k].at = "sent"]
      /\ status' = [v \in User |-> [status[v] EXCEPT ![k] = "normal"]]
      /\ UNCHANGED <<recalled, request>>
  BY DEF SendPersist
<1>2. /\ send' \in [Key -> [at: Stage, from: User, folder: {"single", "stranger"}]]
      /\ \A j \in Key : send[j].at = "sent" => send'[j].at = "sent"
  BY <1>1 DEF Inv, Shapes, Stage
<1>3. /\ status' \in [User -> [Key -> Status]]
      /\ \A u \in User, j \in Key \ {k} : status'[u][j] = status[u][j]
  BY <1>1 DEF Inv, Shapes, Status
<1>4. k \notin recalled
  BY <1>1 DEF Inv, OnlySentIsRecalled
<1>5. Shapes'
  BY <1>1, <1>2, <1>3 DEF Inv, Shapes
<1>6. RecallIsMutual'
  BY <1>1, <1>3, <1>4 DEF Inv, Shapes, RecallIsMutual
<1>7. OnlySentIsRecalled'
  BY <1>1, <1>2, <1>3 DEF Inv, Shapes, OnlySentIsRecalled
<1> QED BY <1>5, <1>6, <1>7 DEF Inv

LEMMA DeleteInv ==
    ASSUME Inv, NEW u \in User, NEW k \in Key, DeleteMessage(u, k)
    PROVE  Inv'
<1>1. /\ status' = [status EXCEPT ![u][k] = "deleted"]
      /\ UNCHANGED <<send, recalled, request>>
  BY DEF DeleteMessage
<1>2. /\ status' \in [User -> [Key -> Status]]
      /\ \A v \in User, j \in Key : status'[v][j] \in {status[v][j], "deleted"}
  BY <1>1 DEF Inv, Shapes, Status
<1>3. Shapes'
  BY <1>1, <1>2 DEF Inv, Shapes
<1>4. RecallIsMutual'
  BY <1>1, <1>2 DEF Inv, Shapes, RecallIsMutual
<1>5. OnlySentIsRecalled'
  BY <1>1, <1>2 DEF Inv, OnlySentIsRecalled
<1> QED BY <1>3, <1>4, <1>5 DEF Inv

\* The check finds a row of a message that was sent.
LEMMA RecallCheckInv ==
    ASSUME Inv, NEW u \in User, NEW k \in Key, RecallCheck(u, k)
    PROVE  Inv'
<1>1. /\ request' = [request EXCEPT ![u] = [Idle EXCEPT !.at = "recall", !.key = k]]
      /\ UNCHANGED <<send, status, recalled>>
  BY DEF RecallCheck, RequestOnly
<1>2. send[k].at = "sent"
  BY DEF RecallCheck, Inv, OnlySentIsRecalled
<1>3. /\ request' = [v \in User |-> request'[v]]
      /\ request'[u].key = k
      /\ \A v \in User \ {u} : request'[v] = request[v]
  BY <1>1 DEF Inv, Shapes, Idle
<1>4. \A v \in User : request'[v].at = "recall" =>
          request'[v].key \in Key /\ send[request'[v].key].at = "sent"
  BY <1>2, <1>3 DEF Inv, OnlySentIsRecalled
<1>5. send' \in [Key -> [at: Stage, from: User, folder: {"single", "stranger"}]]
  BY <1>1 DEF Inv, Shapes
<1>6. \A j \in Key : send[j].at = "sent" => send'[j].at = "sent"
  BY <1>1
<1> QED BY <1>1, <1>3, <1>4, <1>5, <1>6, KeepsInv

LEMMA RecallWriteInv ==
    ASSUME Inv, NEW u \in User, RecallWrite(u)
    PROVE  Inv'
<1> DEFINE k == request[u].key
<1>1. /\ request[u].at = "recall"
      /\ status' = [v \in User |-> [status[v] EXCEPT ![k] = "recalled"]]
      /\ recalled' = recalled \cup {k}
      /\ request' = [request EXCEPT ![u] = Idle]
      /\ UNCHANGED send
  BY DEF RecallWrite
<1>2. k \in Key /\ send[k].at = "sent"
  BY <1>1 DEF Inv, OnlySentIsRecalled
<1> HIDE DEF k
<1>3. /\ status' \in [User -> [Key -> Status]]
      /\ \A v \in User : status'[v][k] = "recalled"
      /\ \A v \in User, j \in Key \ {k} : status'[v][j] = status[v][j]
  BY <1>1, <1>2 DEF Inv, Shapes, Status
<1>4. /\ request' = [v \in User |-> request'[v]]
      /\ request'[u].at = "idle"
      /\ \A v \in User \ {u} : request'[v] = request[v]
  BY <1>1 DEF Inv, Shapes, Idle
<1>5. Shapes'
  BY <1>1, <1>2, <1>3, <1>4 DEF Inv, Shapes
<1>6. RecallIsMutual'
  BY <1>1, <1>2, <1>3 DEF Inv, Shapes, RecallIsMutual
<1>7. OnlySentIsRecalled'
  BY <1>1, <1>2, <1>3, <1>4 DEF Inv, Shapes, OnlySentIsRecalled
<1> QED BY <1>5, <1>6, <1>7 DEF Inv

LEMMA InvNext == Inv /\ [Next]_vars => Inv'
<1> SUFFICES ASSUME Inv, [Next]_vars PROVE Inv'
  OBVIOUS
<1>1. ASSUME NEW k \in Key, Sending(k) PROVE Inv'
  BY <1>1, SendInv, PersistInv DEF Sending
<1>2. ASSUME NEW u \in User, FetchList(u) PROVE Inv'
  <2>1. request' = [request EXCEPT ![u] = [request[u] EXCEPT !.at = "listed"]]
    BY <1>2 DEF FetchList
  <2>2. request[u].at = "idle" /\ UNCHANGED <<send, status, recalled>>
    BY <1>2 DEF FetchList, RequestOnly
  <2>3. [request[u] EXCEPT !.at = "listed"].at # "recall"
    OBVIOUS
  <2> QED BY <2>1, <2>2, <2>3, OtherRequest
<1>3. ASSUME NEW u \in User, FetchRead(u) PROVE Inv'
  <2>1. UNCHANGED <<send, status, recalled>>
    BY <1>3 DEF FetchRead, RequestOnly
  <2>2. \E r : r.at # "recall" /\ request' = [request EXCEPT ![u] = r]
    BY <1>3 DEF FetchRead, Idle
  <2> QED BY <2>1, <2>2, OtherRequest
<1>4. ASSUME NEW u \in User, NEW k \in Key \cup {None}, Ack(u, k) PROVE Inv'
  <2>1. UNCHANGED <<send, status, recalled>>
    BY <1>4 DEF Ack, RequestOnly
  <2>2. \E r : r.at # "recall" /\ request' = [request EXCEPT ![u] = r]
    BY <1>4 DEF Ack, Idle
  <2> QED BY <2>1, <2>2, OtherRequest
<1>5. ASSUME NEW u \in User, Close(u) PROVE Inv'
  <2>1. UNCHANGED <<send, status, recalled>>
    BY <1>5 DEF Close, RequestOnly
  <2>2. \E r : r.at # "recall" /\ request' = [request EXCEPT ![u] = r]
    BY <1>5 DEF Close, Idle
  <2> QED BY <2>1, <2>2, OtherRequest
<1>6. ASSUME NEW u \in User, WriteBack(u) PROVE Inv'
  <2>1. UNCHANGED <<send, status, recalled>>
    BY <1>6 DEF WriteBack
  <2>2. Idle.at # "recall" /\ request' = [request EXCEPT ![u] = Idle]
    BY <1>6 DEF WriteBack, Idle
  <2> QED BY <2>1, <2>2, OtherRequest
<1>7. ASSUME UNCHANGED <<send, status, recalled, request>> PROVE Inv'
  BY <1>7 DEF Inv, Shapes, OnlySentIsRecalled, RecallIsMutual
<1>8. ASSUME NEW u \in User, Requests(u) PROVE Inv'
  <2>1. CASE Follow(u)
    BY <2>1, <1>7 DEF Follow
  <2> QED
    BY <1>8, <2>1, <1>2, <1>3, <1>4, <1>5, <1>6, DeleteInv, RecallCheckInv,
       RecallWriteInv DEF Requests
<1>9. CASE AdminWrite \/ \E k \in Key, s \in {"normal", "removed"} : AdminRead(k, s)
  BY <1>7, <1>9 DEF AdminRead, AdminWrite
<1>10. CASE UNCHANGED vars
  BY <1>7, <1>10 DEF vars
<1> QED BY <1>1, <1>8, <1>9, <1>10 DEF Next

\* A recall is mutual and final, however deletions, other recalls and the
\* transaction of a send interleave with it.
THEOREM RecallIsFinal == Spec => []RecallIsMutual
<1>1. Inv => RecallIsMutual
  BY DEF Inv
<1> QED BY <1>1, InvInit, InvNext, PTL DEF Spec

----------------------------------------------------------------------------
(* The session rows.  But for the transaction that stores a message and    *)
(* the one that recalls it, every write of a row is a Flush of what a      *)
(* request loaded: it leaves the last message, the relation and the folder *)
(* alone, only zeroes the count, and only an administrator's write changes *)
(* the preview.                                                            *)

Row ==
    [exists: BOOLEAN, last: Key \cup {None}, preview: Preview, unread: Nat,
     ack: Key \cup {None}, relation: {"normal", "stranger"},
     folder: {"single", "stranger"}, deleted: BOOLEAN]

\* What one write of an administrator may make of a row, and one of a user.
Touches(row, new) ==
    /\ row \in Row /\ new \in Row
    /\ new.exists = row.exists /\ new.last = row.last
    /\ new.relation = row.relation /\ new.folder = row.folder
    /\ new.unread \in {0, row.unread}
    /\ new.preview = row.preview \/ new.preview.kind = "removed"

Settles(row, new) == Touches(row, new) /\ new.preview = row.preview

\* No message is ever under review, so a removal is the only change of a row
\* an administrator makes.
Loaded ==
    /\ session \in [User -> Row]
    /\ audit \in [Key -> {"normal", "removed"}]
    /\ \A u \in User : request[u].at = "write" =>
          Settles(request[u].was, request[u].new)
    /\ admin.at = "write" =>
          /\ admin.key \in Key /\ admin.state \in {"normal", "removed"}
          /\ \A v \in User : Touches(admin.was[v], admin.new[v])

\* A text that a row shows is that of its last message.
TextOfLast ==
    \A u \in User : session[u].preview.kind = "text" =>
                    session[u].preview.of = session[u].last

\* Writing back a row that was loaded touches the row as it is by now.
LEMMA FlushTouches ==
    ASSUME NEW row \in Row, NEW was, NEW new, Touches(was, new)
    PROVE  Touches(row, Flush(row, was, new))
<1> DEFINE r == Flush(row, was, new)
<1>1. was \in Row /\ new \in Row
  BY DEF Touches
<1>2. /\ r = [f \in DOMAIN row |-> IF new[f] # was[f] THEN new[f] ELSE row[f]]
      /\ DOMAIN row = {"exists", "last", "preview", "unread", "ack", "relation",
                       "folder", "deleted"}
  BY DEF Flush, Row
<1>3. /\ r.exists = (IF new.exists # was.exists THEN new.exists ELSE row.exists)
      /\ r.last = (IF new.last # was.last THEN new.last ELSE row.last)
      /\ r.preview = (IF new.preview # was.preview THEN new.preview ELSE row.preview)
      /\ r.unread = (IF new.unread # was.unread THEN new.unread ELSE row.unread)
      /\ r.ack = (IF new.ack # was.ack THEN new.ack ELSE row.ack)
      /\ r.relation = (IF new.relation # was.relation THEN new.relation ELSE row.relation)
      /\ r.folder = (IF new.folder # was.folder THEN new.folder ELSE row.folder)
      /\ r.deleted = (IF new.deleted # was.deleted THEN new.deleted ELSE row.deleted)
  BY <1>2
<1>4. r = [exists |-> r.exists, last |-> r.last, preview |-> r.preview,
           unread |-> r.unread, ack |-> r.ack, relation |-> r.relation,
           folder |-> r.folder, deleted |-> r.deleted]
  BY <1>2
<1>5. r \in Row
  <2>1. /\ r.exists \in BOOLEAN /\ r.last \in Key \cup {None} /\ r.preview \in Preview
        /\ r.unread \in Nat /\ r.ack \in Key \cup {None}
        /\ r.relation \in {"normal", "stranger"} /\ r.folder \in {"single", "stranger"}
        /\ r.deleted \in BOOLEAN
    BY <1>1, <1>3 DEF Row
  <2> HIDE DEF r
  <2> QED BY <2>1, <1>4 DEF Row
<1>6. /\ r.exists = row.exists /\ r.last = row.last
      /\ r.relation = row.relation /\ r.folder = row.folder
  BY <1>3 DEF Touches
<1>7. r.unread \in {0, row.unread}
  BY <1>3 DEF Touches
<1>8. r.preview = row.preview \/ r.preview.kind = "removed"
  BY <1>3 DEF Touches
<1> QED BY <1>5, <1>6, <1>7, <1>8 DEF Touches

LEMMA FlushSettles ==
    ASSUME NEW row \in Row, NEW was, NEW new, Settles(was, new)
    PROVE  Settles(row, Flush(row, was, new))
<1>1. Touches(row, Flush(row, was, new))
  BY FlushTouches DEF Settles
<1>2. Flush(row, was, new).preview = row.preview
  BY DEF Settles, Flush, Row
<1> QED BY <1>1, <1>2 DEF Settles

LEMMA SettlesItself ==
    ASSUME NEW row \in Row
    PROVE  Settles(row, row)
BY DEF Settles, Touches, Row

LEMMA LoadedInit == Init => Loaded /\ TextOfLast /\ PreviewOfLast
<1> SUFFICES ASSUME Init PROVE Loaded /\ TextOfLast /\ PreviewOfLast
  OBVIOUS
<1>1. NoSession \in Row
  BY DEF NoSession, Row, Preview
<1>2. session \in [User -> Row] /\ audit \in [Key -> {"normal", "removed"}]
  BY <1>1 DEF Init
<1>3. \A u \in User : request[u].at = "idle"
  BY DEF Init, Idle
<1>4. admin.at = "idle"
  BY DEF Init, NoAdmin
<1>5. \A u \in User : session[u].preview.of = session[u].last
  BY DEF Init, NoSession
<1> QED BY <1>2, <1>3, <1>4, <1>5 DEF Loaded, TextOfLast, PreviewOfLast

\* A request that loads a row changes nothing of it that matters here.
LEMMA RequestLoads ==
    ASSUME Inv, Loaded, NEW u \in User, NEW r,
           r.at = "write" => Settles(r.was, r.new),
           request' = [request EXCEPT ![u] = r], UNCHANGED <<session, audit, admin>>
    PROVE  Loaded'
<1>1. \A v \in User : request'[v].at = "write" => Settles(request'[v].was, request'[v].new)
  BY DEF Inv, Shapes, Loaded
<1> QED BY <1>1 DEF Loaded

\* How the session rows move: by a message, by a recall, by the write of a
\* user's request, or by the write of an administrator.
SessionsMove ==
    \/ \E k \in Key : SendPersist(k)
    \/ \E u \in User : RecallWrite(u)
    \/ \A v \in User : Settles(session[v], session'[v])
    \/ AdminWrite /\ \A v \in User : Touches(session[v], session'[v])

\* The row of an upsert with its counted and raised columns worked out.
Stored(row, k, text, n, relation, folder) ==
    [row EXCEPT !.exists = TRUE, !.last = k, !.preview = [kind |-> text, of |-> k],
                !.unread = n, !.relation = relation, !.folder = folder,
                !.deleted = FALSE]

LEMMA StoredIsRow ==
    ASSUME NEW row \in Row, NEW k \in Key, NEW text \in {"text", "auditing"},
           NEW n \in Nat, NEW relation \in {"normal", "stranger"},
           NEW folder \in {"single", "stranger"}
    PROVE  Stored(row, k, text, n, relation, folder) \in Row
<1>1. [kind |-> text, of |-> k] \in Preview
  BY DEF Preview
<1> QED BY <1>1 DEF Row, Stored

\* What SendPersist makes of the two rows.
LEMMA PersistRows ==
    ASSUME Inv, Loaded, NEW k \in Key, SendPersist(k)
    PROVE  /\ send[k].from \in User
           /\ session' \in [User -> Row]
           /\ \A v \in User :
                 /\ session'[v].exists
                 /\ session'[v].last = k
                 /\ session'[v].preview.of = k
                 /\ v = send[k].from =>
                       /\ session'[v].unread = session[v].unread
                       /\ session'[v].relation = "normal"
                       /\ session'[v].folder = "single"
                 /\ v # send[k].from =>
                       /\ session'[v].unread \in {session[v].unread, session[v].unread + 1}
                       /\ session'[v].relation = session[v].relation
                       /\ session'[v].folder = send[k].folder
<1> DEFINE u == send[k].from
           text == IF PreAudit THEN "auditing" ELSE "text"
           own(v) == Upserted(session[v], k, "text", FALSE, "normal", "single")
           other(v) == Upserted(session[v], k, text, ~PreAudit, "stranger", send[k].folder)
<1>1. session' = [v \in User |-> IF v = u THEN own(v) ELSE other(v)]
  BY DEF SendPersist
<1>2. \A v \in User : session[v] \in Row /\ session[v].relation \in {"normal", "stranger"}
  BY DEF Loaded, Row
<1>3. u \in User /\ send[k].folder \in {"single", "stranger"}
  BY DEF Inv, Shapes
<1>4. text \in {"text", "auditing"}
  OBVIOUS
<1> HIDE DEF u, text
<1>5. ASSUME NEW v \in User
      PROVE  /\ own(v) \in Row
             /\ own(v).exists
             /\ own(v).last = k /\ own(v).preview = [kind |-> "text", of |-> k]
             /\ own(v).folder = "single" /\ own(v).unread = session[v].unread
             /\ own(v).relation = "normal"
  <2> DEFINE n == session[v].unread
             m == "normal"
             t == "text"
             o == "single"
  <2>1. own(v) = Stored(session[v], k, t, n, m, o)
    BY <1>2 DEF Upserted, Stored
  <2>2. /\ n \in Nat /\ m \in {"normal", "stranger"} /\ t \in {"text", "auditing"}
        /\ o \in {"single", "stranger"} /\ session[v] \in Row
    BY <1>2 DEF Row
  <2> HIDE DEF own, n, m, t, o
  <2>3. own(v) \in Row
    BY <2>1, <2>2, StoredIsRow
  <2>4. /\ own(v).exists /\ own(v).last = k /\ own(v).preview = [kind |-> t, of |-> k]
        /\ own(v).folder = o /\ own(v).unread = n /\ own(v).relation = m
    BY <2>1, <2>2 DEF Stored, Row
  <2> QED BY <2>3, <2>4 DEF n, m, t, o
<1>6. ASSUME NEW v \in User
      PROVE  /\ other(v) \in Row
             /\ other(v).exists
             /\ other(v).last = k /\ other(v).preview = [kind |-> text, of |-> k]
             /\ other(v).folder = send[k].folder
             /\ other(v).unread \in {session[v].unread, session[v].unread + 1}
             /\ other(v).relation = session[v].relation
  <2> DEFINE n == IF ~PreAudit THEN session[v].unread + 1 ELSE session[v].unread
             m == session[v].relation
             o == send[k].folder
  <2>1. other(v) = Stored(session[v], k, text, n, m, o)
    BY <1>2 DEF Upserted, Stored
  <2>2. /\ n \in Nat /\ n \in {session[v].unread, session[v].unread + 1}
        /\ m \in {"normal", "stranger"} /\ o \in {"single", "stranger"}
        /\ session[v] \in Row
    BY <1>2, <1>3 DEF Row
  <2> HIDE DEF other, n, m, o
  <2>3. other(v) \in Row
    BY <2>1, <2>2, <1>4, StoredIsRow
  <2>4. /\ other(v).exists /\ other(v).last = k /\ other(v).preview = [kind |-> text, of |-> k]
        /\ other(v).folder = o /\ other(v).unread = n /\ other(v).relation = m
    BY <2>1, <2>2 DEF Stored, Row
  <2> QED BY <2>2, <2>3, <2>4 DEF m, o
<1> HIDE DEF own, other
<1>7. session' \in [User -> Row]
  BY <1>1, <1>5, <1>6
<1>8. \A v \in User : session'[v] = IF v = u THEN own(v) ELSE other(v)
  BY <1>1
<1>9. ASSUME NEW v \in User
      PROVE  /\ session'[v].exists
             /\ session'[v].last = k
             /\ session'[v].preview.of = k
             /\ v = u => /\ session'[v].unread = session[v].unread
                         /\ session'[v].relation = "normal"
                         /\ session'[v].folder = "single"
             /\ v # u => /\ session'[v].unread \in {session[v].unread, session[v].unread + 1}
                         /\ session'[v].relation = session[v].relation
                         /\ session'[v].folder = send[k].folder
  <2>1. CASE v = u
    BY <2>1, <1>5, <1>8
  <2>2. CASE v # u
    BY <2>2, <1>6, <1>8
  <2> QED BY <2>1, <2>2
<1> QED BY <1>3, <1>7, <1>9 DEF u

\* A recall changes the preview of the rows that show the message last.
LEMMA RecallRows ==
    ASSUME Inv, Loaded, NEW u \in User, RecallWrite(u)
    PROVE  /\ request[u].key \in Key
           /\ session' \in [User -> Row]
           /\ \A v \in User :
                 /\ session'[v].exists = session[v].exists
                 /\ session'[v].last = session[v].last
                 /\ session'[v].relation = session[v].relation
                 /\ session'[v].folder = session[v].folder
                 /\ session'[v].unread = session[v].unread
                 /\ session'[v].preview =
                       IF session[v].last = request[u].key
                       THEN [kind |-> "recalled", of |-> session[v].last]
                       ELSE session[v].preview
<1> DEFINE k == request[u].key
<1>1. k \in Key
  BY DEF RecallWrite, Inv, OnlySentIsRecalled
<1>2. session' = [v \in User |-> IF session[v].last = k
                    THEN [session[v] EXCEPT !.preview = [kind |-> "recalled", of |-> k]]
                    ELSE session[v]]
  BY DEF RecallWrite
<1> HIDE DEF k
<1>3. [kind |-> "recalled", of |-> k] \in Preview
  BY <1>1 DEF Preview
<1>4. \A v \in User : session[v] \in Row
  BY DEF Loaded
<1>5. \A v \in User :
         [session[v] EXCEPT !.preview = [kind |-> "recalled", of |-> k]] \in Row
  BY <1>3, <1>4 DEF Row
<1>6. session' \in [User -> Row]
  BY <1>2, <1>4, <1>5
<1>7. \A v \in User :
                 /\ session'[v].exists = session[v].exists
                 /\ session'[v].last = session[v].last
                 /\ session'[v].relation = session[v].relation
                 /\ session'[v].folder = session[v].folder
                 /\ session'[v].unread = session[v].unread
                 /\ session'[v].preview =
                       IF session[v].last = k
                       THEN [kind |-> "recalled", of |-> session[v].last]
                       ELSE session[v].preview
  BY <1>2, <1>4 DEF Row
<1> QED BY <1>1, <1>6, <1>7 DEF k

\* Steps that leave the rows, the audit states and the requests alone.
LEMMA RowsUntouched ==
    ASSUME Loaded, UNCHANGED <<session, audit, request, admin>>
    PROVE  Loaded' /\ SessionsMove
<1>1. \A v \in User : Settles(session[v], session'[v])
  BY SettlesItself DEF Loaded
<1> QED BY <1>1 DEF Loaded, SessionsMove

LEMMA RequestMoves ==
    ASSUME Inv, Loaded, NEW u \in User, NEW r,
           r.at = "write" => Settles(r.was, r.new),
           request' = [request EXCEPT ![u] = r], UNCHANGED <<session, audit, admin>>
    PROVE  Loaded' /\ SessionsMove
<1>1. \A v \in User : Settles(session[v], session'[v])
  BY SettlesItself DEF Loaded
<1> QED BY <1>1, RequestLoads DEF SessionsMove

LEMMA FetchListLoads ==
    ASSUME Inv, Loaded, NEW u \in User, FetchList(u)
    PROVE  Loaded' /\ SessionsMove
<1>1. /\ request' = [request EXCEPT ![u] = [request[u] EXCEPT !.at = "listed"]]
      /\ request[u].at = "idle" /\ UNCHANGED <<session, audit, admin>>
  BY DEF FetchList, RequestOnly
<1>2. [request[u] EXCEPT !.at = "listed"].at # "write"
  OBVIOUS
<1> QED BY <1>1, <1>2, RequestMoves

LEMMA FetchReadLoads ==
    ASSUME Inv, Loaded, NEW u \in User, FetchRead(u)
    PROVE  Loaded' /\ SessionsMove
<1> DEFINE row == session[u]
           new == [row EXCEPT !.unread = 0, !.ack = row.last]
           r == IF row.exists /\ ~row.deleted /\ row.unread > 0
                THEN [Idle EXCEPT !.at = "write", !.was = row, !.new = new] ELSE Idle
<1>1. request' = [request EXCEPT ![u] = r] /\ UNCHANGED <<session, audit, admin>>
  BY DEF FetchRead, RequestOnly
<1>2. Settles(row, new)
  <2>1. row \in Row /\ row.last \in Key \cup {None}
    BY DEF Loaded, Row
  <2> HIDE DEF row
  <2> QED BY <2>1 DEF Settles, Touches, Row
<1>3. r.at = "write" => Settles(r.was, r.new)
  <2> HIDE DEF new, row
  <2> QED BY <1>2 DEF Idle
<1> HIDE DEF r
<1> QED BY <1>1, <1>3, RequestMoves

LEMMA AckLoads ==
    ASSUME Inv, Loaded, NEW u \in User, NEW k \in Key \cup {None}, Ack(u, k)
    PROVE  Loaded' /\ SessionsMove
<1> DEFINE row == session[u]
           ack == IF k = None THEN row.last ELSE IF k > row.ack THEN k ELSE row.ack
           new == [row EXCEPT !.unread = 0, !.ack = ack]
           r == [Idle EXCEPT !.at = "write", !.was = row, !.new = new]
<1>1. request' = [request EXCEPT ![u] = r] /\ UNCHANGED <<session, audit, admin>>
  BY DEF Ack, RequestOnly
<1>2. Settles(row, new)
  <2>1. row \in Row /\ ack \in Key \cup {None}
    BY DEF Loaded, Row
  <2> HIDE DEF row, ack
  <2> QED BY <2>1 DEF Settles, Touches, Row
<1>3. r.at = "write" => Settles(r.was, r.new)
  <2> HIDE DEF new, row
  <2> QED BY <1>2 DEF Idle
<1> HIDE DEF r
<1> QED BY <1>1, <1>3, RequestMoves

LEMMA CloseLoads ==
    ASSUME Inv, Loaded, NEW u \in User, Close(u)
    PROVE  Loaded' /\ SessionsMove
<1> DEFINE row == session[u]
           new == [row EXCEPT !.deleted = TRUE, !.unread = 0]
           r == [Idle EXCEPT !.at = "write", !.was = row, !.new = new]
<1>1. request' = [request EXCEPT ![u] = r] /\ UNCHANGED <<session, audit, admin>>
  BY DEF Close, RequestOnly
<1>2. Settles(row, new)
  <2>1. row \in Row /\ row.last \in Key \cup {None}
    BY DEF Loaded, Row
  <2> HIDE DEF row
  <2> QED BY <2>1 DEF Settles, Touches, Row
<1>3. r.at = "write" => Settles(r.was, r.new)
  <2> HIDE DEF new, row
  <2> QED BY <1>2 DEF Idle
<1> HIDE DEF r
<1> QED BY <1>1, <1>3, RequestMoves

LEMMA WriteBackLoads ==
    ASSUME Inv, Loaded, NEW u \in User, WriteBack(u)
    PROVE  Loaded' /\ SessionsMove
<1> DEFINE new == Flush(session[u], request[u].was, request[u].new)
<1>1. /\ session' = [session EXCEPT ![u] = new]
      /\ request' = [request EXCEPT ![u] = Idle]
      /\ request[u].at = "write" /\ UNCHANGED <<audit, admin>>
  BY DEF WriteBack
<1>2. Settles(session[u], new)
  BY <1>1, FlushSettles DEF Loaded
<1> HIDE DEF new
<1>3. \A v \in User : Settles(session[v], session'[v])
  BY <1>1, <1>2, SettlesItself DEF Loaded
<1>4. session' \in [User -> Row]
  BY <1>1, <1>2 DEF Loaded, Settles, Touches
<1>5. \A v \in User : request'[v].at = "write" => Settles(request'[v].was, request'[v].new)
  BY <1>1 DEF Inv, Shapes, Loaded, Idle
<1> QED BY <1>1, <1>3, <1>4, <1>5 DEF Loaded, SessionsMove

LEMMA RecallCheckLoads ==
    ASSUME Inv, Loaded, NEW u \in User, NEW k \in Key, RecallCheck(u, k)
    PROVE  Loaded' /\ SessionsMove
<1> DEFINE r == [Idle EXCEPT !.at = "recall", !.key = k]
<1>1. request' = [request EXCEPT ![u] = r] /\ UNCHANGED <<session, audit, admin>>
  BY DEF RecallCheck, RequestOnly
<1>2. r.at # "write"
  BY DEF Idle
<1> HIDE DEF r
<1> QED BY <1>1, <1>2, RequestMoves

LEMMA RecallWriteLoads ==
    ASSUME Inv, Loaded, NEW u \in User, RecallWrite(u)
    PROVE  Loaded' /\ SessionsMove
<1>1. session' \in [User -> Row]
  BY RecallRows
<1>2. request' = [request EXCEPT ![u] = Idle] /\ UNCHANGED <<audit, admin>>
  BY DEF RecallWrite
<1>3. \A v \in User : request'[v].at = "write" => Settles(request'[v].was, request'[v].new)
  BY <1>2 DEF Inv, Shapes, Loaded, Idle
<1> QED BY <1>1, <1>2, <1>3 DEF Loaded, SessionsMove

LEMMA PersistLoads ==
    ASSUME Inv, Loaded, NEW k \in Key, SendPersist(k)
    PROVE  Loaded' /\ SessionsMove
<1>1. session' \in [User -> Row]
  BY PersistRows
<1>2. audit' = [audit EXCEPT ![k] = "normal"] /\ UNCHANGED <<request, admin>>
  BY DEF SendPersist, InsertedAudit
<1>3. audit' \in [Key -> {"normal", "removed"}]
  BY <1>2 DEF Loaded
<1> QED BY <1>1, <1>2, <1>3 DEF Loaded, SessionsMove

\* Without messages under review a decision shows at most the removal.
LEMMA AdminReadLoads ==
    ASSUME Loaded, NEW k \in Key, NEW s \in {"normal", "removed"}, AdminRead(k, s)
    PROVE  Loaded' /\ SessionsMove
<1>1. /\ admin' = [at |-> "write", key |-> k, prev |-> audit[k], state |-> s,
                   was |-> session, new |-> [v \in User |-> Decided(k, s, v)]]
      /\ UNCHANGED <<session, audit, request>>
  BY DEF AdminRead
<1>2. ASSUME NEW v \in User PROVE Touches(session[v], Decided(k, s, v))
  <2>1. session[v] \in Row /\ audit[k] # "auditing"
    BY DEF Loaded
  <2>2. CASE s = "removed" /\ session[v].last = k
    <3>1. Decided(k, s, v) =
              [session[v] EXCEPT !.preview = [kind |-> "removed", of |-> k]]
      BY <2>2 DEF Decided
    <3>2. [kind |-> "removed", of |-> k] \in Preview
      BY DEF Preview
    <3> QED BY <2>1, <3>1, <3>2 DEF Touches, Row
  <2>3. CASE ~(s = "removed" /\ session[v].last = k)
    <3>1. Decided(k, s, v) = session[v]
      BY <2>1, <2>3 DEF Decided
    <3> QED BY <2>1, <3>1, SettlesItself DEF Settles
  <2> QED BY <2>2, <2>3
<1>3. /\ admin'.key = k /\ admin'.state = s /\ admin'.was = session
      /\ \A v \in User : admin'.new[v] = Decided(k, s, v)
  BY <1>1
<1>4. \A v \in User : Touches(admin'.was[v], admin'.new[v])
  BY <1>2, <1>3
<1>5. \A v \in User : Settles(session[v], session'[v])
  BY <1>1, SettlesItself DEF Loaded
<1> QED BY <1>1, <1>3, <1>4, <1>5 DEF Loaded, SessionsMove

LEMMA AdminWriteLoads ==
    ASSUME Loaded, AdminWrite
    PROVE  Loaded' /\ SessionsMove
<1>1. /\ admin.at = "write" /\ admin' = NoAdmin /\ UNCHANGED request
      /\ audit' = [audit EXCEPT ![admin.key] =
                      IF admin.state # admin.prev THEN admin.state ELSE @]
      /\ session' = [v \in User |-> Flush(session[v], admin.was[v], admin.new[v])]
  BY DEF AdminWrite
<1>2. audit' \in [Key -> {"normal", "removed"}]
  BY <1>1 DEF Loaded
<1>3. \A v \in User : Touches(session[v], Flush(session[v], admin.was[v], admin.new[v]))
  BY <1>1, FlushTouches DEF Loaded
<1>4. \A v \in User : Touches(session[v], session'[v])
  BY <1>1, <1>3
<1>5. session' \in [User -> Row]
  BY <1>1, <1>3 DEF Touches
<1>6. admin'.at = "idle"
  BY <1>1 DEF NoAdmin
<1> QED BY <1>1, <1>2, <1>4, <1>5, <1>6 DEF Loaded, SessionsMove

LEMMA LoadedNext == Inv /\ Loaded /\ [Next]_vars => Loaded' /\ SessionsMove
<1> SUFFICES ASSUME Inv, Loaded, [Next]_vars PROVE Loaded' /\ SessionsMove
  OBVIOUS
<1>1. ASSUME NEW k \in Key, Sending(k) PROVE Loaded' /\ SessionsMove
  <2>1. CASE SendPersist(k)
    BY <2>1, PersistLoads
  <2>2. CASE SendStart(k) \/ SendRefused(k) \/ SendGate(k) \/ SendFilter(k)
    BY <2>2, RowsUntouched
    DEF SendStart, SendRefused, SendGate, SendFilter, SendOnly
  <2> QED BY <1>1, <2>1, <2>2 DEF Sending
<1>2. ASSUME NEW u \in User, Requests(u) PROVE Loaded' /\ SessionsMove
  <2>1. CASE Follow(u)
    BY <2>1, RowsUntouched DEF Follow
  <2>2. ASSUME NEW k \in Key, DeleteMessage(u, k) PROVE Loaded' /\ SessionsMove
    BY <2>2, RowsUntouched DEF DeleteMessage
  <2> QED
    BY <1>2, <2>1, <2>2, FetchListLoads, FetchReadLoads, AckLoads, CloseLoads,
       WriteBackLoads, RecallCheckLoads, RecallWriteLoads DEF Requests
<1>3. CASE AdminWrite \/ \E k \in Key, s \in {"normal", "removed"} : AdminRead(k, s)
  BY <1>3, AdminReadLoads, AdminWriteLoads
<1>4. CASE UNCHANGED vars
  BY <1>4, RowsUntouched DEF vars
<1> QED BY <1>1, <1>2, <1>3, <1>4 DEF Next

----------------------------------------------------------------------------
(* What follows for the rows.                                              *)

LEMMA RowsInv == Spec => [](Inv /\ Loaded)
<1> QED BY InvInit, LoadedInit, InvNext, LoadedNext, PTL DEF Spec

\* Who has answered, or was answered, never falls back among the strangers: no
\* write of a loaded row, however old the load is, and no message lowers the
\* relation of a session.
THEOREM KnownForGood == Spec => KnownStaysKnown
<1> DEFINE Stays == \A u \in User : session[u].relation = "normal" =>
                                   session'[u].relation = "normal"
<1>1. Inv /\ Loaded /\ [Next]_vars => [Stays]_vars
  <2> SUFFICES ASSUME Inv, Loaded, [Next]_vars PROVE Stays
    OBVIOUS
  <2>1. SessionsMove
    BY LoadedNext
  <2>2. ASSUME NEW k \in Key, SendPersist(k) PROVE Stays
    BY <2>2, PersistRows
  <2>3. ASSUME NEW u \in User, RecallWrite(u) PROVE Stays
    BY <2>3, RecallRows
  <2> QED BY <2>1, <2>2, <2>3 DEF SessionsMove, Settles, Touches
<1> QED BY <1>1, RowsInv, PTL DEF Spec, KnownStaysKnown

LEMMA TextNext ==
    ASSUME Inv, Loaded, TextOfLast, RecalledTextGone, [Next]_vars
    PROVE  TextOfLast' /\ RecalledTextGone'
<1>1. SessionsMove
  BY LoadedNext
<1>2. ASSUME NEW k \in Key, SendPersist(k) PROVE TextOfLast' /\ RecalledTextGone'
  <2>1. \A v \in User : session'[v].last = k /\ session'[v].preview.of = k
    BY <1>2, PersistRows
  <2>2. k \notin recalled /\ recalled' = recalled
    BY <1>2 DEF SendPersist, Inv, OnlySentIsRecalled
  <2> QED BY <2>1, <2>2 DEF TextOfLast, RecalledTextGone
<1>3. ASSUME NEW u \in User, RecallWrite(u) PROVE TextOfLast' /\ RecalledTextGone'
  <2>1. recalled' = recalled \cup {request[u].key}
    BY <1>3 DEF RecallWrite
  <2>2. \A v \in User : session'[v].preview.kind = "text" =>
           /\ session'[v].preview = session[v].preview
           /\ session'[v].last = session[v].last
           /\ session[v].last # request[u].key
    <3>1. ASSUME NEW v \in User, session[v].last = request[u].key
          PROVE  session'[v].preview.kind = "recalled"
      <4>1. session'[v].preview = [kind |-> "recalled", of |-> session[v].last]
        BY <1>3, <3>1, RecallRows
      <4> QED BY <4>1
    <3>2. ASSUME NEW v \in User, session[v].last # request[u].key
          PROVE  session'[v].preview = session[v].preview
      BY <1>3, <3>2, RecallRows
    <3>3. \A v \in User : session'[v].last = session[v].last
      BY <1>3, RecallRows
    <3> QED BY <3>1, <3>2, <3>3
  <2> QED BY <2>1, <2>2 DEF TextOfLast, RecalledTextGone
<1>4. ASSUME \A v \in User : Touches(session[v], session'[v]), UNCHANGED recalled
      PROVE  TextOfLast' /\ RecalledTextGone'
  <2>1. \A v \in User : session'[v].preview.kind = "text" =>
           /\ session'[v].preview = session[v].preview
           /\ session'[v].last = session[v].last
    BY <1>4 DEF Touches
  <2> QED BY <1>4, <2>1 DEF TextOfLast, RecalledTextGone
<1>5. (\E u \in User : RecallWrite(u)) \/ UNCHANGED recalled
  BY DEF Next, Sending, Requests, SendStart, SendRefused, SendGate, SendFilter,
     SendOnly, SendPersist, FetchList, FetchRead, Ack, Close, WriteBack,
     RequestOnly, DeleteMessage, RecallCheck, AdminRead, AdminWrite, Follow, vars
<1> QED BY <1>1, <1>2, <1>3, <1>4, <1>5 DEF SessionsMove, Settles

\* Once a message is recalled no session row shows its text, whichever message
\* was the last one, and whatever rows loaded before the recall are written
\* back after it.
THEOREM RecallClearsPreviews == Spec => []RecalledTextGone
<1>1. Init => TextOfLast /\ RecalledTextGone
  BY LoadedInit DEF Init, RecalledTextGone
<1> QED BY <1>1, RowsInv, TextNext, PTL DEF Spec

----------------------------------------------------------------------------
(* Counting                                                                *)

SentBy(u) == {k \in Key : send[k].at = "sent" /\ send[k].from = u}

LEMMA OtherPeer ==
    ASSUME NEW u \in User, NEW v \in User, u # v
    PROVE  Peer(v) = u
<1>1. IsFiniteSet(User \ {v}) /\ Cardinality(User \ {v}) = 1
  BY UserAssumption, FS_RemoveElement
<1>2. PICK x : User \ {v} = {x}
  BY <1>1, FS_Singleton
<1>3. x = u /\ \A w \in User : w # v => w = u
  BY <1>2
<1> QED BY <1>3 DEF Peer

LEMMA PeerIsUser ==
    ASSUME NEW v \in User
    PROVE  Peer(v) \in User /\ Peer(v) # v
<1>1. IsFiniteSet(User \ {v}) /\ Cardinality(User \ {v}) = 1
  BY UserAssumption, FS_RemoveElement
<1>2. PICK x : User \ {v} = {x}
  BY <1>1, FS_Singleton
<1> QED BY <1>2 DEF Peer

LEMMA SentIsFinite == \A u : IsFiniteSet(SentBy(u)) /\ Cardinality(SentBy(u)) \in Nat
<1>1. IsFiniteSet(Key)
  BY NumberAssumption, FS_Interval DEF Key
<1>2. \A u : SentBy(u) \in SUBSET Key
  BY DEF SentBy
<1> QED BY <1>1, <1>2, FS_Subset, FS_CardinalityType

\* Only the transaction that stores a message adds to what was sent.
LEMMA SentByMoves ==
    ASSUME Inv, [Next]_vars
    PROVE  \/ \E k \in Key : SendPersist(k)
           \/ \A u : SentBy(u)' = SentBy(u)
<1>1. ASSUME NEW k \in Key,
             SendStart(k) \/ SendRefused(k) \/ SendGate(k) \/ SendFilter(k)
      PROVE  \A u : SentBy(u)' = SentBy(u)
  <2>1. send[k].at # "sent" /\ send'[k].at # "sent"
    BY <1>1 DEF Inv, Shapes, SendStart, SendRefused, SendGate, SendFilter
  <2>2. \A j \in Key \ {k} : send'[j] = send[j]
    BY <1>1 DEF Inv, Shapes, SendStart, SendRefused, SendGate, SendFilter
  <2> QED BY <2>1, <2>2 DEF SentBy
<1>2. ASSUME UNCHANGED send PROVE \A u : SentBy(u)' = SentBy(u)
  BY <1>2 DEF SentBy
<1>3. \/ UNCHANGED send
      \/ \E k \in Key : \/ SendPersist(k)
                        \/ SendStart(k) \/ SendRefused(k) \/ SendGate(k) \/ SendFilter(k)
  BY DEF Next, Sending, Requests, FetchList, FetchRead, Ack, Close, WriteBack,
     RequestOnly, DeleteMessage, RecallCheck, RecallWrite, AdminRead, AdminWrite,
     Follow, vars
<1> QED BY <1>1, <1>2, <1>3

LEMMA PersistCounts ==
    ASSUME Inv, NEW k \in Key, SendPersist(k), NEW u \in User
    PROVE  /\ u = send[k].from => Cardinality(SentBy(u)') = Cardinality(SentBy(u)) + 1
           /\ u # send[k].from => SentBy(u)' = SentBy(u)
<1>1. /\ send[k].at = "filtered" /\ send'[k].at = "sent" /\ send'[k].from = send[k].from
      /\ \A j \in Key \ {k} : send'[j] = send[j]
  BY DEF SendPersist, Inv, Shapes
<1>2. ASSUME u = send[k].from
      PROVE  k \notin SentBy(u) /\ SentBy(u)' = SentBy(u) \cup {k}
  BY <1>1, <1>2 DEF SentBy
<1>3. ASSUME u # send[k].from PROVE SentBy(u)' = SentBy(u)
  BY <1>1, <1>3 DEF SentBy
<1> QED BY <1>2, <1>3, SentIsFinite, FS_AddElement

LEMMA CountedNext ==
    ASSUME Inv, Loaded, CountedOnce, [Next]_vars
    PROVE  CountedOnce'
<1>1. \A v \in User : /\ session[v].unread \in Nat
                      /\ session[v].unread <= Cardinality(SentBy(Peer(v)))
  BY DEF CountedOnce, SentBy, Loaded, Row
<1>2. \A u : Cardinality(SentBy(u)) \in Nat
  BY SentIsFinite
<1>3. SUFFICES ASSUME NEW v \in User
               PROVE  session'[v].unread <= Cardinality(SentBy(Peer(v))')
  BY DEF CountedOnce, SentBy, Peer
<1>4. CASE \E k \in Key : SendPersist(k)
  <2>1. PICK k \in Key : SendPersist(k)
    BY <1>4
  <2>2. /\ v = send[k].from => session'[v].unread = session[v].unread
        /\ v # send[k].from => session'[v].unread <= session[v].unread + 1
        /\ send[k].from \in User
    BY <2>1, <1>1, PersistRows
  <2>3. Peer(v) \in User /\ Peer(v) # v /\ (v # send[k].from => Peer(v) = send[k].from)
    BY <2>2, PeerIsUser, OtherPeer
  <2>4. CASE v = send[k].from
    <3>1. SentBy(Peer(v))' = SentBy(Peer(v))
      BY <2>1, <2>3, <2>4, PersistCounts
    <3> QED BY <1>1, <2>2, <2>4, <3>1
  <2>5. CASE v # send[k].from
    <3>1. Cardinality(SentBy(Peer(v))') = Cardinality(SentBy(Peer(v))) + 1
      BY <2>1, <2>3, <2>5, PersistCounts
    <3>2. session'[v].unread \in Nat
      BY <2>1, PersistRows DEF Row
    <3> QED BY <1>1, <1>2, <2>2, <2>5, <3>1, <3>2
  <2> QED BY <2>4, <2>5
<1>5. CASE ~\E k \in Key : SendPersist(k)
  <2>1. SentBy(Peer(v))' = SentBy(Peer(v))
    BY <1>5, SentByMoves
  <2>2. session'[v].unread \in {0, session[v].unread}
    BY <1>5, LoadedNext, RecallRows DEF SessionsMove, Settles, Touches
  <2> QED BY <1>1, <1>2, <2>1, <2>2
<1> QED BY <1>4, <1>5

\* A message counts once, for the one who received it: the unread count of a
\* session never exceeds the messages received, though every write of a row
\* works with a count that was loaded earlier.
THEOREM EachCountsOnce == Spec => []CountedOnce
<1>1. Init => CountedOnce
  <2> SUFFICES ASSUME Init, NEW u \in User
               PROVE  session[u].unread <= Cardinality(SentBy(Peer(u)))
    BY DEF CountedOnce, SentBy
  <2>1. session[u].unread = 0
    BY DEF Init, NoSession
  <2> QED BY <2>1, SentIsFinite
<1> QED BY <1>1, RowsInv, CountedNext, PTL DEF Spec

----------------------------------------------------------------------------
(* Two properties hold of the users' own requests only.                    *)

Kind == {"ack", "delete", "recall", "close", "admin", "follow"}

\* No request of the kind is left, or was to be made.
Spent(kind) == budget \in [Kind -> Nat] /\ budget[kind] = 0

LEMMA SpentInit ==
    ASSUME Init, NEW kind \in Kind, \A b \in Budgets : b[kind] = 0
    PROVE  Spent(kind)
BY BudgetAssumption DEF Init, Spent, Kind

LEMMA SpentNext ==
    ASSUME NEW kind \in Kind, Spent(kind), [Next]_vars
    PROVE  Spent(kind)'
<1>1. ASSUME NEW other \in Kind, Spend(other) PROVE Spent(kind)'
  <2>1. other # kind /\ budget[other] \in Nat /\ budget[other] > 0
    BY <1>1 DEF Spent, Spend
  <2>2. budget' = [budget EXCEPT ![other] = budget[other] - 1]
    BY <1>1 DEF Spend
  <2>3. budget[other] - 1 \in Nat
    BY <2>1
  <2> QED BY <2>1, <2>2, <2>3 DEF Spent
<1>2. ASSUME UNCHANGED budget PROVE Spent(kind)'
  BY <1>2 DEF Spent
<1>3. UNCHANGED budget \/ \E other \in Kind : Spend(other)
  <2>1. ASSUME NEW k \in Key, Sending(k) PROVE UNCHANGED budget
    BY <2>1 DEF Sending, SendStart, SendRefused, SendGate, SendFilter, SendOnly,
       SendPersist
  <2>2. ASSUME NEW u \in User, Requests(u)
        PROVE  UNCHANGED budget \/ \E other \in Kind : Spend(other)
    BY <2>2 DEF Kind, Requests, FetchList, FetchRead, Ack, Close, WriteBack,
       RequestOnly, DeleteMessage, RecallCheck, RecallWrite, Follow
  <2>3. ASSUME NEW k \in Key, NEW s \in {"normal", "removed"}, AdminRead(k, s)
        PROVE  \E other \in Kind : Spend(other)
    BY <2>3 DEF Kind, AdminRead
  <2>4. CASE AdminWrite
    BY <2>4 DEF AdminWrite
  <2>5. CASE UNCHANGED vars
    BY <2>5 DEF vars
  <2> QED BY <2>1, <2>2, <2>3, <2>4, <2>5 DEF Next
<1> QED BY <1>1, <1>2, <1>3

NoAdminActs == Spent("admin") /\ admin.at = "idle"

LEMMA NoAdminNext ==
    ASSUME NoAdminActs, [Next]_vars
    PROVE  NoAdminActs' /\ ~AdminWrite
<1>1. Spent("admin")'
  BY SpentNext DEF NoAdminActs, Kind
<1>2. ~AdminWrite /\ \A k \in Key, s \in {"normal", "removed"} : ~AdminRead(k, s)
  BY DEF NoAdminActs, AdminWrite, AdminRead, Spend, Spent
<1>3. UNCHANGED admin
  BY <1>2 DEF Next, Sending, Requests, SendStart, SendRefused, SendGate, SendFilter,
     SendOnly, SendPersist, FetchList, FetchRead, Ack, Close, WriteBack, RequestOnly,
     DeleteMessage, RecallCheck, RecallWrite, Follow, vars
<1> QED BY <1>1, <1>2, <1>3 DEF NoAdminActs

LEMMA PreviewNext ==
    ASSUME Inv, Loaded, NoAdminActs, PreviewOfLast, [Next]_vars
    PROVE  PreviewOfLast'
<1>1. SessionsMove /\ ~AdminWrite
  BY LoadedNext, NoAdminNext
<1>2. ASSUME NEW k \in Key, SendPersist(k) PROVE PreviewOfLast'
  BY <1>2, PersistRows DEF PreviewOfLast
<1>3. ASSUME NEW u \in User, RecallWrite(u) PROVE PreviewOfLast'
  <2>1. ASSUME NEW v \in User PROVE session'[v].preview.of = session'[v].last
    <3>1. session'[v].last = session[v].last
      BY <1>3, RecallRows
    <3>2. CASE session[v].last = request[u].key
      <4>1. session'[v].preview = [kind |-> "recalled", of |-> session[v].last]
        BY <1>3, <3>2, RecallRows
      <4> QED BY <3>1, <4>1
    <3>3. CASE session[v].last # request[u].key
      <4>1. session'[v].preview = session[v].preview
        BY <1>3, <3>3, RecallRows
      <4> QED BY <3>1, <4>1 DEF PreviewOfLast
    <3> QED BY <3>2, <3>3
  <2> QED BY <2>1 DEF PreviewOfLast
<1>4. ASSUME \A v \in User : Settles(session[v], session'[v]) PROVE PreviewOfLast'
  BY <1>4 DEF PreviewOfLast, Settles, Touches
<1> QED BY <1>1, <1>2, <1>3, <1>4 DEF SessionsMove

\* What a session shows is its last message, whatever sends, recalls and
\* readings interleave.  (A late write of an administrator does break it.)
THEOREM PreviewFollowsLast ==
    ASSUME \A b \in Budgets : b["admin"] = 0
    PROVE  Spec => []PreviewOfLast
<1>1. Init => NoAdminActs
  BY SpentInit DEF Init, NoAdmin, NoAdminActs, Kind
<1>2. NoAdminActs /\ [Next]_vars => NoAdminActs'
  BY NoAdminNext
<1>3. Init => PreviewOfLast
  BY LoadedInit
<1> QED BY <1>1, <1>2, <1>3, RowsInv, PreviewNext, PTL DEF Spec

----------------------------------------------------------------------------
(* Strangers, where one send ends before the next begins                   *)

UnderWay == {"keyed", "gated", "filtered"}

Alone == \A i, j \in Key : send[i].at \in UnderWay /\ send[j].at \in UnderWay => i = j

\* A send that was filtered as a stranger's still is one when it is stored.
FolderInv ==
    /\ Alone
    /\ FolderOfKnown
    /\ \A k \in Key : send[k].at = "filtered" /\ send[k].folder = "stranger" =>
          session[Peer(send[k].from)].relation = "stranger"

\* How the stage of one send moves, short of storing the message.
LEMMA StageMoves ==
    ASSUME Inv, NEW k \in Key,
           SendStart(k) \/ SendRefused(k) \/ SendGate(k) \/ SendFilter(k)
    PROVE  /\ \A j \in Key \ {k} : send'[j] = send[j]
           /\ send'[k].from = send[k].from
           /\ send'[k].at \in {"keyed", "gated", "filtered", "refused"}
           /\ send'[k].at = "gated" => SendGate(k) /\ MaySend(send[k].from)
           /\ send'[k].at = "filtered" => SendFilter(k) /\ send[k].at = "gated"
           /\ send[k].at # "sent" /\ send'[k].at # "sent"
           /\ SendStart(k) \/ send[k].at \in UnderWay
           /\ UNCHANGED <<status, recalled, session, follows, known, budget>>
<1>1. CASE SendStart(k)
  BY <1>1 DEF SendStart, SendOnly, Inv, Shapes, UnderWay
<1>2. CASE SendRefused(k)
  BY <1>2 DEF SendRefused, SendOnly, Inv, Shapes, UnderWay
<1>3. CASE SendGate(k)
  BY <1>3 DEF SendGate, SendOnly, Inv, Shapes, UnderWay
<1>4. CASE SendFilter(k)
  <2> DEFINE f == IF IsStranger(send[k].from, Peer(send[k].from))
                     /\ Peer(send[k].from) \notin accepts
                  THEN "stranger" ELSE "single"
  <2>1. /\ send[k].at = "gated"
        /\ send' = [send EXCEPT ![k].at = "filtered", ![k].folder = f]
        /\ UNCHANGED <<status, recalled, session, follows, known, budget>>
    BY <1>4 DEF SendFilter, SendOnly
  <2> HIDE DEF f
  <2> QED BY <1>4, <2>1 DEF Inv, Shapes, UnderWay
<1> QED BY <1>1, <1>2, <1>3, <1>4

LEMMA AloneNext ==
    ASSUME Inv, Alone, Concurrent = 1, [Next]_vars
    PROVE  Alone'
<1>1. ASSUME NEW k \in Key, SendStart(k) PROVE Alone'
  <2> DEFINE S == {j \in Key : send[j].at \in UnderWay}
  <2>1. IsFiniteSet(S)
    <3>1. IsFiniteSet(Key) /\ S \in SUBSET Key
      BY NumberAssumption, FS_Interval DEF Key
    <3> QED BY <3>1, FS_Subset
  <2>2. Cardinality(S) < 1 /\ Cardinality(S) \in Nat
    BY <1>1, <2>1, FS_CardinalityType DEF SendStart, UnderWay
  <2>3. S = {}
    BY <2>1, <2>2, FS_EmptySet
  <2> QED BY <1>1, <2>3, StageMoves DEF Alone
<1>2. ASSUME NEW k \in Key,
             SendStart(k) \/ SendRefused(k) \/ SendGate(k) \/ SendFilter(k)
      PROVE  Alone'
  BY <1>1, <1>2, StageMoves DEF Alone
<1>3. ASSUME NEW k \in Key, SendPersist(k) PROVE Alone'
  <2>1. send'[k].at = "sent" /\ \A j \in Key \ {k} : send'[j] = send[j]
    BY <1>3 DEF SendPersist, Inv, Shapes
  <2> QED BY <2>1 DEF Alone, UnderWay
<1>4. ASSUME UNCHANGED send PROVE Alone'
  BY <1>4 DEF Alone
<1>5. UNCHANGED send \/ \E k \in Key : Sending(k)
  BY DEF Next, Requests, FetchList, FetchRead, Ack, Close, WriteBack,
     RequestOnly, DeleteMessage, RecallCheck, RecallWrite, AdminRead, AdminWrite,
     Follow, vars
<1> QED BY <1>2, <1>3, <1>4, <1>5 DEF Sending

LEMMA FolderNext ==
    ASSUME Inv, Loaded, FolderInv, Concurrent = 1, [Next]_vars
    PROVE  FolderInv'
<1>1. Alone'
  BY AloneNext DEF FolderInv
<1>2. ASSUME NEW k \in Key, SendPersist(k) PROVE FolderInv'
  <2>1. send[k].at = "filtered" /\ send'[k].at = "sent"
        /\ \A j \in Key \ {k} : send'[j] = send[j]
    BY <1>2 DEF SendPersist, Inv, Shapes
  <2>2. \A j \in Key : send'[j].at # "filtered"
    BY <2>1 DEF FolderInv, Alone, UnderWay
  <2>3. ASSUME NEW v \in User, session'[v].folder = "stranger"
        PROVE  session'[v].relation = "stranger"
    <3>1. /\ v # send[k].from /\ send[k].from \in User
          /\ session'[v].relation = session[v].relation /\ send[k].folder = "stranger"
      BY <1>2, <2>3, PersistRows
    <3>2. Peer(send[k].from) = v
      BY <3>1, OtherPeer
    <3> QED BY <2>1, <3>1, <3>2 DEF FolderInv
  <2> QED BY <1>1, <2>2, <2>3 DEF FolderInv, FolderOfKnown
<1>3. ASSUME NEW k \in Key,
             SendStart(k) \/ SendRefused(k) \/ SendGate(k) \/ SendFilter(k)
      PROVE  FolderInv'
  <2>1. UNCHANGED session /\ FolderOfKnown'
    BY <1>3, StageMoves DEF FolderInv, FolderOfKnown
  <2>2. ASSUME send'[k].at = "filtered", send'[k].folder = "stranger"
        PROVE  session[Peer(send[k].from)].relation = "stranger"
    <3> DEFINE p == Peer(send[k].from)
               f == IF IsStranger(send[k].from, p) /\ p \notin accepts
                    THEN "stranger" ELSE "single"
    <3>1. send' = [send EXCEPT ![k].at = "filtered", ![k].folder = f]
      BY <1>3, <2>2, StageMoves DEF SendFilter
    <3>2. send'[k].folder = f
      <4> HIDE DEF f
      <4> QED BY <3>1 DEF Inv, Shapes
    <3>3. session[p].relation # "normal"
      BY <2>2, <3>2 DEF IsStranger
    <3>4. p \in User
      BY PeerIsUser DEF Inv, Shapes
    <3> QED BY <3>3, <3>4 DEF Loaded, Row
  <2>3. ASSUME NEW j \in Key, send'[j].at = "filtered", send'[j].folder = "stranger"
        PROVE  session'[Peer(send'[j].from)].relation = "stranger"
    <3>1. CASE j = k
      BY <1>3, <2>1, <2>2, <2>3, <3>1, StageMoves
    <3>2. CASE j # k
      BY <1>3, <2>1, <2>3, <3>2, StageMoves DEF FolderInv
    <3> QED BY <3>1, <3>2
  <2> QED BY <1>1, <2>1, <2>3 DEF FolderInv, Peer
<1>4. ASSUME UNCHANGED send,
             \A v \in User : /\ session'[v].relation = session[v].relation
                             /\ session'[v].folder = session[v].folder
      PROVE  FolderInv'
  <2>1. \A k \in Key : Peer(send[k].from) \in User
    BY PeerIsUser DEF Inv, Shapes
  <2> QED BY <1>1, <1>4, <2>1 DEF FolderInv, FolderOfKnown, Peer
<1>5. ASSUME NEW u \in User, RecallWrite(u) PROVE FolderInv'
  BY <1>4, <1>5, RecallRows DEF RecallWrite
<1>6. ASSUME NEW k \in Key, Sending(k) PROVE FolderInv'
  BY <1>2, <1>3, <1>6 DEF Sending
<1>7. UNCHANGED send \/ \E k \in Key : Sending(k)
  BY DEF Next, Requests, FetchList, FetchRead, Ack, Close, WriteBack,
     RequestOnly, DeleteMessage, RecallCheck, RecallWrite, AdminRead, AdminWrite,
     Follow, vars
<1>8. SessionsMove
  BY LoadedNext
<1> QED BY <1>2, <1>4, <1>5, <1>6, <1>7, <1>8 DEF SessionsMove, Settles, Touches

LEMMA FolderInit == Init => FolderInv
<1> SUFFICES ASSUME Init PROVE FolderInv
  OBVIOUS
<1>1. \A k \in Key : send[k].at = "free"
  BY DEF Init
<1>2. \A u \in User : session[u].folder = "single"
  BY DEF Init, NoSession
<1> QED BY <1>1, <1>2 DEF FolderInv, Alone, UnderWay, FolderOfKnown

\* Where no message is deleted, the messages a user has are those that were
\* sent; a user the other one does not know was neither followed nor answered,
\* and a send that passed the gate for one has room.
GateInv ==
    /\ Alone /\ Spent("delete")
    /\ \A u \in User, k \in Key : status[u][k] \in NotDeleted <=> send[k].at = "sent"
    /\ \A u \in User \ known : Peer(u) \notin follows /\ SentBy(Peer(u)) = {}
    /\ \A k \in Key : send[k].at \in {"gated", "filtered"} /\ send[k].from \notin known =>
          Cardinality(SentBy(send[k].from)) < GateLimit
    /\ GateHolds

LEMMA GateOfSends ==
    ASSUME Inv, GateInv, Alone', Spent("delete")', NEW k \in Key,
           SendStart(k) \/ SendRefused(k) \/ SendGate(k) \/ SendFilter(k)
    PROVE  GateInv'
<1>1. UNCHANGED <<status, follows, known>>
  BY StageMoves
<1>2. \A j \in Key : /\ send'[j].at = "sent" <=> send[j].at = "sent"
                     /\ send'[j].from = send[j].from
  BY StageMoves
<1>3. \A u : SentBy(u)' = SentBy(u)
  BY <1>2 DEF SentBy
<1>4. ASSUME send'[k].at \in {"gated", "filtered"}, send[k].from \notin known
      PROVE  Cardinality(SentBy(send[k].from)) < GateLimit
  <2> DEFINE u == send[k].from
  <2>1. u \in User /\ Peer(u) \in User
    BY PeerIsUser DEF Inv, Shapes
  <2>2. CASE send'[k].at = "gated"
    <3>1. MaySend(u)
      BY <2>2, StageMoves
    <3>2. Peer(u) \notin follows /\ SentBy(Peer(u)) = {}
      BY <1>4, <2>1 DEF GateInv
    <3>3. Own(u, NotDeleted) = SentBy(u) /\ Own(Peer(u), NotDeleted) = SentBy(Peer(u))
      <4> HIDE DEF u
      <4> QED BY <2>1 DEF GateInv, Own, SentBy
    <3>4. Cardinality(Own(u, NotDeleted)) < GateLimit
      <4> HIDE DEF u
      <4> QED BY <3>1, <3>2, <3>3 DEF MaySend
    <3> QED BY <3>3, <3>4
  <2>3. CASE send'[k].at = "filtered"
    BY <1>4, <2>3, StageMoves DEF GateInv
  <2> QED BY <1>4, <2>2, <2>3
<1>5. ASSUME NEW j \in Key, send'[j].at \in {"gated", "filtered"},
             send[j].from \notin known
      PROVE  Cardinality(SentBy(send[j].from)) < GateLimit
  BY <1>4, <1>5, StageMoves DEF GateInv
<1>6. /\ \A u \in User, j \in Key : status'[u][j] \in NotDeleted <=> send'[j].at = "sent"
      /\ \A u \in User \ known' : Peer(u) \notin follows' /\ SentBy(Peer(u))' = {}
  BY <1>1, <1>2, <1>3 DEF GateInv
<1>7. \A j \in Key : send'[j].at \in {"gated", "filtered"} /\ send'[j].from \notin known' =>
          Cardinality(SentBy(send[j].from)') < GateLimit
  <2>1. ASSUME NEW j \in Key PROVE SentBy(send[j].from)' = SentBy(send[j].from)
    BY <1>2, <1>3 DEF SentBy
  <2> QED BY <1>1, <1>2, <1>5, <2>1
<1>8. GateHolds'
  BY <1>1, <1>3 DEF GateInv, GateHolds, SentBy
<1> QED BY <1>6, <1>7, <1>8 DEF GateInv, Peer, NotDeleted, SentBy

LEMMA GateOfPersist ==
    ASSUME Inv, GateInv, Alone', Spent("delete")', NEW k \in Key, SendPersist(k)
    PROVE  GateInv'
<1>1. PICK u \in User : u = send[k].from
  BY DEF Inv, Shapes
<1>2. /\ send[k].at = "filtered" /\ send'[k].at = "sent"
      /\ \A j \in Key \ {k} : send'[j] = send[j]
      /\ known' = known \cup {Peer(u)} /\ UNCHANGED follows
      /\ status' = [v \in User |-> [status[v] EXCEPT ![k] = "normal"]]
  BY <1>1 DEF SendPersist, Inv, Shapes
<1>3. \A j \in Key : send'[j].at \notin {"gated", "filtered"}
  BY <1>2 DEF GateInv, Alone, UnderWay
<1>4. \A v \in User, j \in Key : status'[v][j] \in NotDeleted <=> send'[j].at = "sent"
  BY <1>2 DEF Inv, Shapes, GateInv, NotDeleted
<1>5. Peer(u) \in User /\ Peer(u) # u
  BY PeerIsUser
<1>6. ASSUME NEW v \in User \ known' PROVE v = u
  <2>1. v # Peer(u)
    BY <1>2, <1>6
  <2> QED BY <2>1, OtherPeer
<1>7. ASSUME NEW v \in User \ known'
      PROVE  /\ Peer(v) \notin follows' /\ SentBy(Peer(v))' = {}
             /\ Cardinality(SentBy(v)') <= GateLimit
  <2>1. v = u /\ u \notin known
    BY <1>2, <1>6
  <2>2. Peer(u) \notin follows /\ SentBy(Peer(u)) = {}
    BY <2>1 DEF GateInv
  <2>3. SentBy(Peer(u))' = SentBy(Peer(u))
    BY <1>1, <1>5, PersistCounts
  <2>4. Cardinality(SentBy(u)) < GateLimit
    BY <1>1, <1>2, <2>1 DEF GateInv
  <2>5. Cardinality(SentBy(u)') = Cardinality(SentBy(u)) + 1
    BY <1>1, PersistCounts
  <2>6. Cardinality(SentBy(u)') <= GateLimit
    BY <2>4, <2>5, SentIsFinite, NumberAssumption
  <2> QED BY <1>2, <2>1, <2>2, <2>3, <2>6
<1>8. GateHolds'
  BY <1>7 DEF GateHolds, SentBy
<1> QED BY <1>3, <1>4, <1>7, <1>8 DEF GateInv, Peer, NotDeleted, SentBy

LEMMA GateOfFollow ==
    ASSUME Inv, GateInv, Alone', Spent("delete")', NEW u \in User, Follow(u)
    PROVE  GateInv'
<1>1. /\ UNCHANGED <<send, status>>
      /\ known' = known \cup {Peer(u)}
      /\ follows' = IF u \in follows THEN follows \ {u} ELSE follows \cup {u}
  BY DEF Follow
<1>2. ASSUME NEW v \in User \ known'
      PROVE  v \notin known /\ Peer(v) \notin follows' /\ SentBy(Peer(v))' = {}
  <2>1. v # Peer(u) /\ v \notin known
    BY <1>1, <1>2
  <2>2. v = u /\ Peer(v) # u
    BY <2>1, OtherPeer, PeerIsUser
  <2>3. Peer(v) \notin follows /\ SentBy(Peer(v)) = {}
    BY <2>1 DEF GateInv
  <2> QED BY <1>1, <2>1, <2>2, <2>3 DEF SentBy
<1>3. \A v : SentBy(v)' = SentBy(v)
  BY <1>1 DEF SentBy
<1>4. GateHolds'
  BY <1>1, <1>2 DEF GateInv, GateHolds
<1>5. \A j \in Key : send'[j].at \in {"gated", "filtered"} /\ send'[j].from \notin known' =>
          Cardinality({i \in Key : send'[i].at = "sent" /\ send'[i].from = send'[j].from})
             < GateLimit
  BY <1>1 DEF GateInv, SentBy
<1> QED BY <1>1, <1>2, <1>4, <1>5 DEF GateInv, Peer, NotDeleted, SentBy

LEMMA GateOfRecall ==
    ASSUME Inv, GateInv, Alone', Spent("delete")', NEW u \in User, RecallWrite(u)
    PROVE  GateInv'
<1> DEFINE k == request[u].key
<1>1. /\ k \in Key /\ send[k].at = "sent" /\ UNCHANGED <<send, follows, known>>
      /\ status' = [v \in User |-> [status[v] EXCEPT ![k] = "recalled"]]
  BY DEF RecallWrite, Inv, OnlySentIsRecalled
<1> HIDE DEF k
<1>2. \A v \in User, j \in Key : status'[v][j] \in NotDeleted <=> send'[j].at = "sent"
  BY <1>1 DEF Inv, Shapes, GateInv, NotDeleted
<1> QED BY <1>1, <1>2 DEF GateInv, GateHolds, Peer, NotDeleted, SentBy

LEMMA GateNext ==
    ASSUME Inv, GateInv, Concurrent = 1, [Next]_vars
    PROVE  GateInv'
<1>1. Alone' /\ Spent("delete")'
  BY AloneNext, SpentNext DEF GateInv, Kind
<1>2. ASSUME UNCHANGED <<send, status, follows, known>> PROVE GateInv'
  BY <1>1, <1>2 DEF GateInv, GateHolds, Peer, NotDeleted, SentBy
<1>3. ASSUME NEW k \in Key, Sending(k) PROVE GateInv'
  BY <1>1, <1>3, GateOfSends, GateOfPersist DEF Sending
<1>4. ASSUME NEW u \in User, Requests(u) PROVE GateInv'
  <2>1. \A k \in Key : ~DeleteMessage(u, k)
    BY DEF DeleteMessage, Spend, GateInv, Spent
  <2>2. CASE Follow(u) \/ RecallWrite(u)
    BY <1>1, <2>2, GateOfFollow, GateOfRecall
  <2>3. CASE ~(Follow(u) \/ RecallWrite(u))
    BY <1>2, <1>4, <2>1, <2>3 DEF Requests, FetchList, FetchRead, Ack, Close,
       WriteBack, RequestOnly, RecallCheck
  <2> QED BY <2>2, <2>3
<1>5. CASE AdminWrite \/ \E k \in Key, s \in {"normal", "removed"} : AdminRead(k, s)
  BY <1>2, <1>5 DEF AdminRead, AdminWrite
<1>6. CASE UNCHANGED vars
  BY <1>2, <1>6 DEF vars
<1> QED BY <1>3, <1>4, <1>5, <1>6 DEF Next

LEMMA GateInit ==
    ASSUME Init, \A b \in Budgets : b["delete"] = 0
    PROVE  GateInv
<1>1. \A k \in Key : send[k].at = "free"
  BY DEF Init
<1>2. \A u \in User, k \in Key : status[u][k] = "none"
  BY DEF Init
<1>3. \A u : SentBy(u) = {}
  BY <1>1 DEF SentBy
<1>4. GateHolds
  BY <1>3, FS_EmptySet, NumberAssumption DEF GateHolds, SentBy
<1>5. Spent("delete") /\ follows = {}
  BY SpentInit DEF Init, Kind
<1> QED BY <1>1, <1>2, <1>3, <1>4, <1>5 DEF GateInv, Alone, UnderWay, NotDeleted

\* What protects a user from strangers, where sends do not overlap: a user who
\* was neither followed nor answered has sent no more than the gate allows, as
\* long as nobody takes messages out of the count by deleting them, and the
\* conversation of somebody known is never filed among the strangers'.
THEOREM StrangersAreHeld ==
    ASSUME Concurrent = 1, \A b \in Budgets : b["delete"] = 0
    PROVE  Spec => []StrangersHold
<1>1. Init => GateInv /\ FolderInv
  BY GateInit, FolderInit
<1>2. Inv /\ Loaded /\ GateInv /\ FolderInv /\ [Next]_vars => GateInv' /\ FolderInv'
  BY GateNext, FolderNext
<1>3. GateInv /\ FolderInv => StrangersHold
  BY DEF GateInv, FolderInv, StrangersHold
<1> QED BY <1>1, <1>2, <1>3, RowsInv, PTL DEF Spec

-----------------------------------------------------------------------------
(* The types of both as they are checked.                                    *)

Slip == [kind : {"late", "doubled", "edited"}, of : Id \cup NoticeKey]
NoticeMeters ==
  /\ levelled \in BOOLEAN
  /\ slips \subseteq Slip
  /\ noticesAsked \in 0 .. NoticeRequests

LEMMA LateAreSlips == \A rows, level : Late(rows, level) \subseteq Slip
BY DEF Late, ShownIn, Slip

LEMMA DoubledIsASlip ==
  ASSUME NEW w \in NoticeWorker, NEW k \in NoticeKey \cup {NoKey}, NEW t \in Target,
         NEW once \in BOOLEAN, PublishChecks(w, k, t, once)
  PROVE  slips \subseteq Slip => slips' \subseteq Slip
<1>1. PICK met : met = {[kind |-> "doubled", of |-> k] :
                          v \in {x \in NoticeWorker : once /\ Publishes(x, k)}}
  OBVIOUS
<1>2. slips' = slips \cup met
  BY <1>1, Zenon DEF PublishChecks
<1>3. once => k \in NoticeKey
  BY DEF PublishChecks
<1>4. met \subseteq Slip
  BY <1>1, <1>3 DEF Slip
<1> QED BY <1>2, <1>4

LEMMA NoticeMetersNext ==
  NoticeInv /\ NoticeMeters /\ [NoticesNext]_noticeVars => NoticeMeters'
<1> SUFFICES ASSUME NoticeInv, NoticeMeters, [NoticesNext]_noticeVars
             PROVE  NoticeMeters'
  OBVIOUS
<1>1. levelled' \in BOOLEAN
  <2>1. levelled' = levelled \/ levelled' = TRUE
    BY Zenon DEF NoticesNext, noticeVars, PublishChecks, PublishInserts, PublishCommits,
       PullReads, PullMarks, PullMoves, ListReads, ListMarks, UpdateNotice, TimePasses,
       DeleteNotice, LevelUp
  <2> QED BY <2>1, Zenon DEF NoticeMeters
<1>2. noticesAsked' \in 0 .. NoticeRequests
  <2>1. \/ noticesAsked' = noticesAsked
        \/ noticesAsked < NoticeRequests /\ noticesAsked' = noticesAsked + 1
    BY Zenon DEF NoticesNext, noticeVars, PublishChecks, PublishInserts, PublishCommits,
       PullReads, PullMarks, PullMoves, ListReads, ListMarks, UpdateNotice, TimePasses,
       DeleteNotice, LevelUp, Asks, AsksOnce
  <2> QED BY <2>1, NoticeAssumption DEF NoticeMeters
<1>3. slips' \subseteq Slip
  <2>1. ASSUME NEW w \in NoticeWorker, NEW k \in NoticeKey \cup {NoKey}, NEW t \in Target,
               NEW once \in BOOLEAN, PublishChecks(w, k, t, once)
        PROVE  slips' \subseteq Slip
    BY <2>1, DoubledIsASlip DEF NoticeMeters
  <2>2. ASSUME NEW n \in Id, NEW row, UpdateNotice(n, row) PROVE slips' \subseteq Slip
    <3> DEFINE made == notice[n].made
               edit == IF made \notin {NoKey, row.key}
                       THEN {[kind |-> "edited", of |-> made]} ELSE {}
    <3>1. slips' = slips \cup Late([notice EXCEPT ![n] = row], levelled) \cup edit
      BY <2>2, Zenon DEF UpdateNotice
    <3>2. made \in NoticeKey \cup {NoKey}
      BY DEF NoticeInv, NoticeTypes, NoticeRow
    <3> HIDE DEF made
    <3>3. edit \subseteq Slip
      BY <3>2 DEF Slip
    <3> HIDE DEF edit
    <3> QED BY <3>1, <3>3, LateAreSlips DEF NoticeMeters
  <2>3. \/ slips' = slips
        \/ \E rows, level : slips' = slips \cup Late(rows, level)
        \/ \E w \in NoticeWorker, k \in NoticeKey \cup {NoKey}, t \in Target, once \in BOOLEAN :
             PublishChecks(w, k, t, once)
        \/ \E n \in Id : \E row \in Updates(notice[n]) : UpdateNotice(n, row)
    BY Zenon DEF NoticesNext, noticeVars, PublishInserts, PublishCommits,
       PullReads, PullMarks, PullMoves, ListReads, ListMarks, TimePasses,
       DeleteNotice, LevelUp, Notify
  <2>4. CASE \E n \in Id : \E row \in Updates(notice[n]) : UpdateNotice(n, row)
    BY <2>2, <2>4
  <2> QED BY <2>1, <2>3, <2>4, LateAreSlips DEF NoticeMeters
<1> QED BY <1>1, <1>2, <1>3 DEF NoticeMeters

LEMMA NoticesTyped == NoticesSpec => []NoticesTypeOK
<1>1. NoticesInit => NoticeMeters
  <2>1. NoticesInit => levelled \in BOOLEAN
    BY Zenon DEF NoticesInit
  <2>2. NoticesInit => slips \subseteq Slip /\ noticesAsked \in 0 .. NoticeRequests
    BY NoticeAssumption DEF NoticesInit
  <2> QED BY <2>1, <2>2 DEF NoticeMeters
<1>2. NoticeInv /\ NoticeMeters => NoticesTypeOK
  BY DEF NoticeInv, NoticeTypes, NoticeMeters, NoticesTypeOK, Slip
<1> QED BY <1>1, <1>2, NoticeMetersNext, NoticeInvInit, NoticeInvNext, PTL DEF NoticesSpec

-----------------------------------------------------------------------------

Sent == {k \in Key : send[k].at = "sent"}

\* Whose row is there, and what is shown, was sent.
SentMeters ==
  /\ \A u \in User, k \in Key : status[u][k] # "none" <=> k \in Sent
  /\ seen \in [User -> SUBSET Sent]
  /\ \A u \in User : /\ session[u].exists <=> Sent # {}
                     /\ session[u].exists => session[u].last \in Sent

LEMMA SentMetersInit == Init => SentMeters
<1> SUFFICES ASSUME Init PROVE SentMeters
  OBVIOUS
<1>1. Sent = {}
  BY DEF Init, Sent
<1> QED BY <1>1 DEF Init, SentMeters, NoSession

\* Steps that send nothing.
LEMMA NothingSent ==
  ASSUME SentMeters, Sent' = Sent,
         \A u \in User, k \in Key : status'[u][k] # "none" <=> status[u][k] # "none",
         seen' \in [User -> SUBSET Sent],
         \A u \in User : /\ session'[u].exists = session[u].exists
                         /\ session'[u].last = session[u].last
  PROVE  SentMeters'
BY DEF SentMeters

LEMMA SentMetersNext ==
  Inv /\ Loaded /\ SentMeters /\ [Next]_vars => SentMeters'
<1> SUFFICES ASSUME Inv, Loaded, SentMeters, [Next]_vars PROVE SentMeters'
  OBVIOUS
<1>1. /\ status \in [User -> [Key -> Status]]
      /\ send \in [Key -> [at: Stage, from: User, folder: {"single", "stranger"}]]
  BY DEF Inv, Shapes
<1>2. ASSUME NEW k \in Key, SendPersist(k) PROVE SentMeters'
  <2>1. /\ send[k].at = "filtered" /\ send'[k].at = "sent"
        /\ \A j \in Key \ {k} : send'[j] = send[j]
    BY <1>1, <1>2 DEF SendPersist
  <2>2. Sent' = Sent \cup {k} /\ k \notin Sent
    BY <2>1 DEF Sent
  <2>3. \A u \in User : session'[u].exists /\ session'[u].last = k
    BY <1>2, PersistRows
  <2>4. /\ status' = [v \in User |-> [status[v] EXCEPT ![k] = "normal"]]
        /\ seen' = seen
    BY <1>2 DEF SendPersist
  <2>5. \A u \in User : /\ status'[u][k] = "normal"
                        /\ \A j \in Key \ {k} : status'[u][j] = status[u][j]
    BY <1>1, <2>4
  <2> QED BY <2>2, <2>3, <2>4, <2>5 DEF SentMeters
<1>3. ASSUME NEW k \in Key,
             SendStart(k) \/ SendRefused(k) \/ SendGate(k) \/ SendFilter(k)
      PROVE  SentMeters'
  <2>1. /\ \A j \in Key \ {k} : send'[j] = send[j]
        /\ send[k].at # "sent" /\ send'[k].at # "sent"
    BY <1>3, StageMoves
  <2>2. UNCHANGED <<status, session, seen>>
    BY <1>3 DEF SendStart, SendRefused, SendGate, SendFilter, SendOnly
  <2>3. Sent' = Sent
    BY <2>1 DEF Sent
  <2> QED BY <2>2, <2>3, NothingSent DEF SentMeters
<1>4. ASSUME UNCHANGED <<send, status, seen>>,
             \A u \in User : /\ session'[u].exists = session[u].exists
                             /\ session'[u].last = session[u].last
      PROVE  SentMeters'
  BY <1>4, NothingSent DEF SentMeters, Sent
<1>5. ASSUME NEW u \in User, FetchList(u) PROVE SentMeters'
  <2>1. Visible(u) \subseteq Sent
    BY DEF SentMeters, Visible, NotDeleted
  <2>2. UNCHANGED <<send, status, session>>
    BY <1>5 DEF FetchList, RequestOnly
  <2>3. seen' = [seen EXCEPT ![u] = @ \cup Visible(u)]
    BY <1>5 DEF FetchList
  <2>4. seen' \in [User -> SUBSET Sent]
    BY <2>1, <2>3 DEF SentMeters
  <2> QED BY <2>2, <2>4, NothingSent DEF Sent
<1>6. ASSUME NEW u \in User, NEW k \in Key \cup {None}, Ack(u, k) PROVE SentMeters'
  <2>1. session[u].last \in Sent
    BY <1>6 DEF Ack, SentMeters
  <2>2. UNCHANGED <<send, status, session>>
    BY <1>6 DEF Ack, RequestOnly
  <2>3. \/ seen' = [seen EXCEPT ![u] = @ \cup {session[u].last}]
        \/ seen' = [seen EXCEPT ![u] = @]
    BY <1>6 DEF Ack
  <2>4. seen' \in [User -> SUBSET Sent]
    BY <2>1, <2>3 DEF SentMeters
  <2> QED BY <2>2, <2>4, NothingSent DEF Sent
<1>7. ASSUME NEW u \in User, NEW k \in Key, DeleteMessage(u, k) PROVE SentMeters'
  <2>1. k \in Sent
    BY <1>7 DEF DeleteMessage, SentMeters, Own, NotDeleted
  <2>2. UNCHANGED <<send, session, seen>>
    BY <1>7 DEF DeleteMessage
  <2>3. status' = [status EXCEPT ![u][k] = "deleted"]
    BY <1>7 DEF DeleteMessage
  <2>4. status[u][k] # "none"
    BY <2>1 DEF SentMeters
  <2>5. \A v \in User, j \in Key : status'[v][j] # "none" <=> status[v][j] # "none"
    BY <1>1, <2>3, <2>4
  <2> QED BY <2>2, <2>5, NothingSent DEF SentMeters, Sent
<1>8. ASSUME NEW u \in User, RecallWrite(u) PROVE SentMeters'
  <2> DEFINE k == request[u].key
  <2>1. k \in Key /\ send[k].at = "sent"
    BY <1>8 DEF RecallWrite, Inv, OnlySentIsRecalled
  <2>2. /\ status' = [v \in User |-> [status[v] EXCEPT ![k] = "recalled"]]
        /\ UNCHANGED <<send, seen>>
    BY <1>8 DEF RecallWrite
  <2> HIDE DEF k
  <2>3. \A v \in User : status[v][k] # "none"
    BY <2>1 DEF SentMeters, Sent
  <2>4. \A v \in User, j \in Key : status'[v][j] # "none" <=> status[v][j] # "none"
    BY <1>1, <2>1, <2>2, <2>3
  <2>5. \A v \in User : session'[v].exists = session[v].exists
                        /\ session'[v].last = session[v].last
    BY <1>8, RecallRows
  <2> QED BY <2>2, <2>4, <2>5, NothingSent DEF SentMeters, Sent
<1>9. \A v \in User : Touches(session[v], session'[v]) =>
         session'[v].exists = session[v].exists /\ session'[v].last = session[v].last
  BY DEF Touches
<1>10. ASSUME NEW u \in User, WriteBack(u) PROVE SentMeters'
  <2>1. UNCHANGED <<send, status, seen>>
    BY <1>10 DEF WriteBack
  <2>2. request[u].at = "write"
    BY <1>10 DEF WriteBack
  <2>3. session' = [session EXCEPT
                      ![u] = Flush(session[u], request[u].was, request[u].new)]
    BY <1>10 DEF WriteBack
  <2>4. Touches(session[u], Flush(session[u], request[u].was, request[u].new))
    BY <2>2, FlushTouches DEF Loaded, Settles
  <2>5. \A v \in User : session'[v].exists = session[v].exists
                        /\ session'[v].last = session[v].last
    BY <2>3, <2>4 DEF Touches, Loaded
  <2> QED BY <1>4, <2>1, <2>5
<1>11. CASE AdminWrite
  <2>1. UNCHANGED <<send, status, seen>> /\ admin.at = "write"
    BY <1>11 DEF AdminWrite
  <2>2. session' = [v \in User |-> Flush(session[v], admin.was[v], admin.new[v])]
    BY <1>11 DEF AdminWrite
  <2>3. \A v \in User : Touches(session[v], session'[v])
    BY <2>1, <2>2, FlushTouches DEF Loaded
  <2> QED BY <1>4, <1>9, <2>1, <2>3
<1>12. ASSUME UNCHANGED <<send, status, session, seen>> PROVE SentMeters'
  BY <1>4, <1>12
<1>13. ASSUME NEW u \in User, Requests(u) PROVE SentMeters'
  <2>1. ASSUME FetchRead(u) \/ Close(u) \/ Follow(u)
               \/ \E k \in Key : RecallCheck(u, k)
        PROVE  UNCHANGED <<send, status, session, seen>>
    BY <2>1, Zenon DEF FetchRead, Close, Follow, RecallCheck, RequestOnly
  <2> QED BY <1>5, <1>6, <1>7, <1>8, <1>10, <1>12, <1>13, <2>1 DEF Requests
<1>14. ASSUME UNCHANGED vars \/ \E k \in Key, s \in {"normal", "removed"} : AdminRead(k, s)
       PROVE  SentMeters'
  BY <1>12, <1>14 DEF vars, AdminRead
<1>15. CASE \E k \in Key : Sending(k)
  BY <1>2, <1>3, <1>15 DEF Sending
<1> QED BY <1>11, <1>13, <1>14, <1>15 DEF Next

-----------------------------------------------------------------------------

AskedOf == [at: {"idle", "listed", "write", "recall"}, key: Key \cup {None},
            was: Session, new: Session]
Decision == [at: {"idle", "write"}, key: Key \cup {None}, prev: AuditState,
             state: AuditState, was: [User -> Session], new: [User -> Session]]
RequestMeters ==
  /\ request \in [User -> AskedOf]
  /\ admin \in Decision
  /\ follows \subseteq User /\ accepts \subseteq User /\ known \subseteq User

LEMMA RowsAreSessions ==
  \A row \in Row : row.unread <= Keys => row \in Session
<1> SUFFICES ASSUME NEW row \in Row, row.unread <= Keys PROVE row \in Session
  OBVIOUS
<1>1. row.unread \in 0 .. Keys
  BY NumberAssumption DEF Row
<1> QED BY <1>1 DEF Row, Session

LEMMA SessionsAreBounded ==
  ASSUME Inv, Loaded, CountedOnce
  PROVE  session \in [User -> Session]
<1>1. \A u : Cardinality(SentBy(u)) \in Nat /\ Cardinality(SentBy(u)) <= Keys
  <2> SUFFICES ASSUME NEW u PROVE Cardinality(SentBy(u)) <= Keys
    BY SentIsFinite
  <2>1. IsFiniteSet(1 .. Keys) /\ Cardinality(1 .. Keys) = Keys
    BY NumberAssumption, FS_Interval
  <2>2. SentBy(u) \in SUBSET (1 .. Keys)
    BY DEF SentBy, Key
  <2> QED BY <2>1, <2>2, FS_Subset
<1>2. \A u \in User : session[u] \in Row /\ session[u].unread <= Cardinality(SentBy(Peer(u)))
  BY DEF Loaded, CountedOnce, SentBy
<1>3. \A u \in User : session[u].unread \in Nat
  BY <1>2 DEF Row
<1>4. \A u \in User : session[u].unread <= Keys
  BY <1>1, <1>2, <1>3, NumberAssumption
<1> QED BY <1>2, <1>4, RowsAreSessions DEF Loaded

LEMMA IdleIsAsked == Idle \in AskedOf /\ NoAdmin \in Decision /\ NoSession \in Session
<1>1. NoSession \in Session
  BY NumberAssumption DEF NoSession, Session, Preview
<1> QED BY <1>1 DEF Idle, AskedOf, NoAdmin, Decision, AuditState

LEMMA RequestMetersInit == Init => RequestMeters
BY IdleIsAsked DEF Init, RequestMeters

LEMMA RequestMetersNext ==
  Inv /\ Loaded /\ CountedOnce /\ RequestMeters /\ [Next]_vars => RequestMeters'
<1> SUFFICES ASSUME Inv, Loaded, CountedOnce, RequestMeters, [Next]_vars
             PROVE  RequestMeters'
  OBVIOUS
<1>1. session \in [User -> Session]
  BY SessionsAreBounded
<1>2. ASSUME NEW u \in User, NEW r \in AskedOf,
             request' = [request EXCEPT ![u] = r], UNCHANGED <<admin, follows, accepts, known>>
      PROVE  RequestMeters'
  BY <1>2 DEF RequestMeters
<1>3. ASSUME NEW row \in Session, NEW new \in Session
      PROVE  [Idle EXCEPT !.at = "write", !.was = row, !.new = new] \in AskedOf
  BY <1>3 DEF Idle, AskedOf
<1>4. ASSUME NEW u \in User, FetchList(u) PROVE RequestMeters'
  <2>1. request' = [request EXCEPT ![u] = [request[u] EXCEPT !.at = "listed"]]
    BY <1>4 DEF FetchList
  <2>2. [request[u] EXCEPT !.at = "listed"] \in AskedOf
    BY DEF RequestMeters, AskedOf
  <2> QED BY <1>2, <1>4, <2>1, <2>2 DEF FetchList, RequestOnly
<1>5. ASSUME NEW u \in User, FetchRead(u) PROVE RequestMeters'
  <2> DEFINE row == session[u]
             new == [row EXCEPT !.unread = 0, !.ack = row.last]
             r == IF row.exists /\ ~row.deleted /\ row.unread > 0
                  THEN [Idle EXCEPT !.at = "write", !.was = row, !.new = new] ELSE Idle
  <2>1. request' = [request EXCEPT ![u] = r] /\ UNCHANGED <<admin, follows, accepts, known>>
    BY <1>5 DEF FetchRead, RequestOnly
  <2>2. row \in Session
    BY <1>1
  <2>3. new \in Session
    <3>1. 0 \in 0 .. Keys
      BY NumberAssumption
    <3> HIDE DEF row
    <3> QED BY <2>2, <3>1 DEF Session
  <2> HIDE DEF row, new
  <2>4. r \in AskedOf
    BY <1>3, <2>2, <2>3, IdleIsAsked
  <2> HIDE DEF r
  <2> QED BY <1>2, <2>1, <2>4
<1>6. ASSUME NEW u \in User, NEW k \in Key \cup {None}, Ack(u, k) PROVE RequestMeters'
  <2> DEFINE row == session[u]
             ack == IF k = None THEN row.last ELSE IF k > row.ack THEN k ELSE row.ack
             new == [row EXCEPT !.unread = 0, !.ack = ack]
             r == [Idle EXCEPT !.at = "write", !.was = row, !.new = new]
  <2>1. request' = [request EXCEPT ![u] = r] /\ UNCHANGED <<admin, follows, accepts, known>>
    BY <1>6 DEF Ack, RequestOnly
  <2>2. row \in Session
    BY <1>1
  <2>3. new \in Session
    <3>1. 0 \in 0 .. Keys
      BY NumberAssumption
    <3> HIDE DEF row
    <3>2. ack \in Key \cup {None}
      BY <2>2 DEF Session
    <3> HIDE DEF ack
    <3> QED BY <2>2, <3>1, <3>2 DEF Session
  <2> HIDE DEF row, new
  <2>4. r \in AskedOf
    BY <1>3, <2>2, <2>3
  <2> HIDE DEF r
  <2> QED BY <1>2, <2>1, <2>4
<1>7. ASSUME NEW u \in User, Close(u) PROVE RequestMeters'
  <2> DEFINE row == session[u]
             new == [row EXCEPT !.deleted = TRUE, !.unread = 0]
             r == [Idle EXCEPT !.at = "write", !.was = row, !.new = new]
  <2>1. request' = [request EXCEPT ![u] = r] /\ UNCHANGED <<admin, follows, accepts, known>>
    BY <1>7 DEF Close, RequestOnly
  <2>2. row \in Session
    BY <1>1
  <2>3. new \in Session
    <3>1. 0 \in 0 .. Keys
      BY NumberAssumption
    <3> HIDE DEF row
    <3> QED BY <2>2, <3>1 DEF Session
  <2> HIDE DEF row, new
  <2>4. r \in AskedOf
    BY <1>3, <2>2, <2>3
  <2> HIDE DEF r
  <2> QED BY <1>2, <2>1, <2>4
<1>8. ASSUME NEW u \in User, WriteBack(u) \/ RecallWrite(u) PROVE RequestMeters'
  <2>1. request' = [request EXCEPT ![u] = Idle] /\ UNCHANGED <<admin, follows, accepts, known>>
    BY <1>8 DEF WriteBack, RecallWrite
  <2> QED BY <1>2, <2>1, IdleIsAsked
<1>9. ASSUME NEW u \in User, NEW k \in Key, RecallCheck(u, k) PROVE RequestMeters'
  <2>1. /\ request' = [request EXCEPT ![u] = [Idle EXCEPT !.at = "recall", !.key = k]]
        /\ UNCHANGED <<admin, follows, accepts, known>>
    BY <1>9 DEF RecallCheck, RequestOnly
  <2>2. [Idle EXCEPT !.at = "recall", !.key = k] \in AskedOf
    BY IdleIsAsked DEF Idle, AskedOf
  <2> QED BY <1>2, <2>1, <2>2
<1>10. ASSUME NEW k \in Key, NEW s \in {"normal", "removed"}, AdminRead(k, s)
       PROVE  RequestMeters'
  <2>1. /\ admin' = [at |-> "write", key |-> k, prev |-> audit[k], state |-> s,
                     was |-> session, new |-> [v \in User |-> Decided(k, s, v)]]
        /\ UNCHANGED <<request, follows, accepts, known>>
    BY <1>10 DEF AdminRead
  <2>2. audit[k] \in AuditState /\ s \in AuditState /\ audit[k] # "auditing"
    BY DEF Loaded, AuditState
  <2>3. ASSUME NEW v \in User PROVE Decided(k, s, v) \in Session
    <3>1. \/ Decided(k, s, v) = session[v]
          \/ Decided(k, s, v) =
               [session[v] EXCEPT !.preview = [kind |-> "removed", of |-> k]]
      BY <2>2 DEF Decided
    <3>2. [kind |-> "removed", of |-> k] \in Preview
      BY DEF Preview
    <3>3. session[v] \in Session
      BY <1>1
    <3> QED BY <3>1, <3>2, <3>3 DEF Session
  <2>4. [v \in User |-> Decided(k, s, v)] \in [User -> Session]
    BY <2>3
  <2>5. admin' \in Decision
    BY <1>1, <2>1, <2>2, <2>4 DEF Decision
  <2> QED BY <2>1, <2>5 DEF RequestMeters
<1>11. CASE AdminWrite
  <2>1. admin' = NoAdmin /\ UNCHANGED <<request, follows, accepts, known>>
    BY <1>11 DEF AdminWrite
  <2> QED BY <2>1, IdleIsAsked DEF RequestMeters
<1>12. ASSUME NEW u \in User, Follow(u) PROVE RequestMeters'
  <2>1. /\ follows' \subseteq follows \cup {u} /\ known' = known \cup {Peer(u)}
        /\ UNCHANGED <<request, admin, accepts>>
    BY <1>12 DEF Follow
  <2> QED BY <2>1, PeerIsUser DEF RequestMeters
<1>13. ASSUME NEW k \in Key, SendPersist(k) PROVE RequestMeters'
  <2>1. known' = known \cup {Peer(send[k].from)}
        /\ UNCHANGED <<request, admin, follows, accepts>>
    BY <1>13 DEF SendPersist
  <2>2. send[k].from \in User
    BY DEF Inv, Shapes
  <2> QED BY <2>1, <2>2, PeerIsUser DEF RequestMeters
<1>14. ASSUME UNCHANGED <<request, admin, follows, accepts, known>> PROVE RequestMeters'
  BY <1>14 DEF RequestMeters
<1>15. CASE \E k \in Key : Sending(k)
  <2>1. ASSUME NEW k \in Key,
               SendStart(k) \/ SendRefused(k) \/ SendGate(k) \/ SendFilter(k)
        PROVE  UNCHANGED <<request, admin, follows, accepts, known>>
    BY <2>1 DEF SendStart, SendRefused, SendGate, SendFilter, SendOnly
  <2> QED BY <1>13, <1>14, <1>15, <2>1 DEF Sending
<1>16. ASSUME NEW u \in User, Requests(u) PROVE RequestMeters'
  <2>1. ASSUME NEW k \in Key, DeleteMessage(u, k) PROVE RequestMeters'
    BY <1>14, <2>1 DEF DeleteMessage
  <2> QED BY <1>4, <1>5, <1>6, <1>7, <1>8, <1>9, <1>12, <1>16, <2>1 DEF Requests
<1>17. CASE UNCHANGED vars
  BY <1>14, <1>17 DEF vars
<1> QED BY <1>10, <1>11, <1>15, <1>16, <1>17 DEF Next

LEMMA MessagesTyped == Spec => []TypeOK
<1>1. Inv /\ Loaded /\ CountedOnce /\ SentMeters /\ RequestMeters => TypeOK
  <2> SUFFICES ASSUME Inv, Loaded, CountedOnce, SentMeters, RequestMeters PROVE TypeOK
    OBVIOUS
  <2>1. session \in [User -> Session]
    BY SessionsAreBounded
  <2>2. audit \in [Key -> AuditState]
    BY DEF Loaded, AuditState
  <2>3. /\ seen \in [User -> SUBSET Key]
        /\ \A k \in Key : \A u \in User :
              /\ status[u][k] # "none" <=> send[k].at = "sent"
              /\ status[u][k] # "none" => session[u].exists
    BY DEF SentMeters, Sent
  <2> QED BY <2>1, <2>2, <2>3
          DEF Inv, Shapes, Stage, Status, RequestMeters, AskedOf, Decision, TypeOK
<1> QED BY <1>1, RowsInv, EachCountsOnce, SentMetersInit, SentMetersNext,
           RequestMetersInit, RequestMetersNext, PTL DEF Spec

LEMMA InboxRunsMessages == InboxSpec => Spec
<1>1. InboxInit => Init
  BY DEF InboxInit
<1>2. [InboxNext]_<<part, vars, noticeVars>> => [Next]_vars
  BY Zenon DEF InboxNext, NoMessages
<1> QED BY <1>1, <1>2, PTL DEF InboxSpec, Spec

LEMMA InboxRunsNotices == InboxSpec => NoticesSpec
<1>1. InboxInit => NoticesInit
  BY DEF InboxInit
<1>2. [InboxNext]_<<part, vars, noticeVars>> => [NoticesNext]_noticeVars
  BY Zenon DEF InboxNext, NoNotices
<1> QED BY <1>1, <1>2, PTL DEF InboxSpec, NoticesSpec

\* The variables of the inbox keep their types: among what that says, a message
\* has the rows of both users or none (_persist_dm is one transaction), and
\* whoever has a row has a session.
THEOREM InboxIsTyped == InboxSpec => []InboxTypeOK
<1>1. TypeOK /\ NoticesTypeOK => InboxTypeOK
  BY DEF InboxTypeOK
<1> QED BY <1>1, InboxRunsMessages, InboxRunsNotices, MessagesTyped, NoticesTyped, PTL

=============================================================================
