-------------------------- MODULE Counters_proofs --------------------------
(***************************************************************************)
(* Proofs about the components that keep a counter, a group or a copy      *)
(* beside the rows it sums up, for any number of users, rows and requests, *)
(* about the queue that counts views, and about what stands before the     *)
(* operations: the gate decides by what was so at some moment of the       *)
(* request, a change of the configuration reaches every process within the *)
(* lifetime of a copy, and the limits on what a user writes hold but for   *)
(* requests that overlap.  Last, the types of all of them as checked.      *)
(***************************************************************************)
EXTENDS MCCounters, SumTheorems, FiniteSetTheorems, TLAPS

-----------------------------------------------------------------------------
(* Following, blocking and groups.                                         *)

TagRow == {<<p[1], t, p[2]>> : p \in Pairs, t \in Group}
FollowJob ==
  {NoRequest} \cup [op: {"follow"}, p: Pairs] \cup [op: {"create"}, u: User]
    \cup [op: {"assign"}, p: Pairs, wanted: SUBSET Group]
    \cup [op: {"insert"}, p: Pairs, wanted: SUBSET Group, cleared: SUBSET TagRow]

FollowTypes ==
  /\ relation \in [Pairs -> {"none", "following", "blocked"}]
  /\ tagOwner \in [Tag -> User \cup {NoOne, Gone}]
  /\ member \subseteq TagRow
  /\ lastAsked \in [Pairs -> SUBSET Group]
  /\ followJob \in [FollowWorker -> FollowJob]

\* The requests that have found room for a group of the user.
Creating(u) == {w \in FollowWorker : followJob[w].op = "create" /\ followJob[w].u = u}

\* A row of a group that is not listed was left behind by a deletion.
RowsAreListed ==
  "tagGone" \notin mishap => \A r \in member : r[2] \in ListedGroups(r[1])

OwnedFinite == \A u \in User : IsFiniteSet(OwnTags(u))

\* The inductive invariant.
FollowInv ==
  /\ FollowTypes
  /\ BlockerNotFollowed /\ GroupsHoldFollowed /\ RowsAreListed /\ AssignCovers
  /\ OwnedFinite /\ TagLimit

LEMMA PairSwap ==
  \A p \in Pairs : /\ p = <<p[1], p[2]>> /\ p[1] \in User /\ p[2] \in User
                   /\ p[1] # p[2] /\ <<p[2], p[1]>> \in Pairs
BY DEF Pairs

LEMMA RowParts ==
  \A r \in TagRow : /\ r[1] \in User /\ r[3] \in User /\ r[1] # r[3] /\ r[2] \in Group
                 /\ r = <<r[1], r[2], r[3]>> /\ <<r[1], r[3]>> \in Pairs
BY DEF TagRow, Pairs

LEMMA FollowJobParts ==
  /\ NoRequest.op = "idle"
  /\ \A j \in FollowJob :
       /\ j.op \in {"follow", "assign", "insert"} => j.p \in Pairs
       /\ j.op \in {"assign", "insert"} => j.wanted \subseteq Group
       /\ j.op = "insert" => j.cleared \subseteq TagRow
       /\ j.op = "create" => j.u \in User
BY DEF FollowJob, NoRequest

LEMMA FollowTypesNext ==
  ASSUME FollowTypes, [FollowNext]_followVars
  PROVE  FollowTypes'
<1> USE DEF FollowTypes
<1>1. ASSUME NEW p \in Pairs, Unfollow(p) PROVE FollowTypes'
  BY <1>1 DEF Unfollow
<1>2. ASSUME NEW p \in Pairs, Block(p) PROVE FollowTypes'
  BY <1>2, PairSwap DEF Block
<1>3. ASSUME NEW p \in Pairs, Unblock(p) PROVE FollowTypes'
  BY <1>3 DEF Unblock
<1>4. ASSUME NEW t \in Tag, DeleteTag(t) PROVE FollowTypes'
  BY <1>4 DEF DeleteTag
<1>5. ASSUME NEW w \in FollowWorker, NEW job \in FollowJob, Begin(w, job)
      PROVE  FollowTypes'
  BY <1>5 DEF Begin
<1>6. ASSUME NEW w \in FollowWorker, NEW p \in Pairs, FollowChecks(w, p)
      PROVE  FollowTypes'
  <2>1. [op |-> "follow", p |-> p] \in FollowJob
    BY DEF FollowJob
  <2> QED BY <1>5, <1>6, <2>1 DEF FollowChecks
<1>7. ASSUME NEW w \in FollowWorker, NEW p \in Pairs,
             NEW ts \in SUBSET (Group \cup {Default}), AssignChecks(w, p, ts)
      PROVE  FollowTypes'
  <2>1. [op |-> "assign", p |-> p, wanted |-> Wanted(ts)] \in FollowJob
    BY DEF FollowJob, Wanted
  <2> QED BY <1>5, <1>7, <2>1 DEF AssignChecks
<1>8. ASSUME NEW w \in FollowWorker, NEW u \in User, CreateChecks(w, u)
      PROVE  FollowTypes'
  <2>1. [op |-> "create", u |-> u] \in FollowJob
    BY DEF FollowJob
  <2> QED BY <1>5, <1>8, <2>1 DEF CreateChecks
<1>9. NoRequest \in FollowJob
  BY DEF FollowJob
<1>10. ASSUME NEW w \in FollowWorker, FollowWrites(w) PROVE FollowTypes'
  <2>1. followJob[w].p \in Pairs
    BY <1>10, FollowJobParts DEF FollowWrites
  <2> QED BY <1>9, <1>10, <2>1 DEF FollowWrites, End
<1>11. ASSUME NEW w \in FollowWorker, NEW t \in Tag, CreateWrites(w, t)
       PROVE  FollowTypes'
  <2>1. followJob[w].u \in User
    BY <1>11, FollowJobParts DEF CreateWrites
  <2> QED BY <1>9, <1>11, <2>1 DEF CreateWrites, End
<1>12. ASSUME NEW w \in FollowWorker, AssignClears(w) PROVE FollowTypes'
  <2> DEFINE j == followJob[w]
             new == [op |-> "insert", p |-> j.p, wanted |-> j.wanted,
                     cleared |-> ClearTarget(j.p)]
  <2>1. j.p \in Pairs /\ j.wanted \subseteq Group
    BY <1>12, FollowJobParts DEF AssignClears
  <2>2. ClearTarget(j.p) \subseteq TagRow
    BY DEF ClearTarget, RowsOf
  <2>3. new \in FollowJob
    BY <2>1, <2>2 DEF FollowJob
  <2>4. /\ followJob' = [followJob EXCEPT ![w] = new]
        /\ UNCHANGED <<relation, tagOwner, member, lastAsked>>
    BY <1>12 DEF AssignClears
  <2> HIDE DEF new
  <2> QED BY <2>3, <2>4
<1>13. ASSUME NEW w \in FollowWorker, AssignInserts(w) PROVE FollowTypes'
  <2> DEFINE j == followJob[w]
  <2>1. j.p \in Pairs /\ j.wanted \subseteq Group
    BY <1>13, FollowJobParts DEF AssignInserts
  <2>2. {<<j.p[1], t, j.p[2]>> : t \in j.wanted} \subseteq TagRow
    BY <2>1 DEF TagRow
  <2>3. member' \subseteq TagRow
    BY <1>13, <2>2 DEF AssignInserts
  <2>4. lastAsked' \in [Pairs -> SUBSET Group]
    BY <1>13, <2>1 DEF AssignInserts
  <2> QED BY <1>9, <1>13, <2>3, <2>4 DEF AssignInserts, End
<1>14. CASE UNCHANGED followVars
  BY <1>14 DEF followVars
<1> QED
  BY <1>1, <1>2, <1>3, <1>4, <1>6, <1>7, <1>8, <1>10, <1>11, <1>12, <1>13, <1>14
  DEF FollowNext

\* What the steps do to the relations: to follow, unfollow, block, unblock, or
\* nothing.
LEMMA RelationNext ==
  ASSUME FollowTypes, [FollowNext]_followVars
  PROVE  \/ UNCHANGED relation
         \/ \E w \in FollowWorker : FollowWrites(w)
         \/ \E p \in Pairs : Unfollow(p) \/ Block(p) \/ Unblock(p)
BY DEF FollowNext, followVars, FollowChecks, AssignChecks, CreateChecks, Begin,
       CreateWrites, AssignClears, AssignInserts, DeleteTag

LEMMA MishapGrows ==
  ASSUME [FollowNext]_followVars
  PROVE  mishap \subseteq mishap'
BY DEF FollowNext, followVars, FollowChecks, AssignChecks, CreateChecks, Begin,
       CreateWrites, AssignClears, AssignInserts, DeleteTag, FollowWrites, Unfollow,
       Block, Unblock

LEMMA BlockerNotFollowedNext ==
  ASSUME FollowInv, [FollowNext]_followVars
  PROVE  BlockerNotFollowed'
<1> USE DEF FollowInv, FollowTypes, BlockerNotFollowed
<1> SUFFICES ASSUME "crossed" \notin mishap',
                    NEW q \in Pairs, relation'[q] = "blocked",
                    relation'[<<q[2], q[1]>>] = "following"
             PROVE  FALSE
  OBVIOUS
<1> DEFINE r == <<q[2], q[1]>>
<1>0. /\ "crossed" \notin mishap /\ r \in Pairs /\ r # q
      /\ q = <<r[2], r[1]>>
  BY MishapGrows, PairSwap
<1>1. CASE UNCHANGED relation
  BY <1>0, <1>1
<1>2. ASSUME NEW w \in FollowWorker, FollowWrites(w) PROVE FALSE
  <2> DEFINE p == followJob[w].p
  <2>1. p \in Pairs /\ relation' = [relation EXCEPT ![p] = "following"]
        /\ relation[<<p[2], p[1]>>] # "blocked"
    BY <1>2, FollowJobParts DEF FollowWrites
  <2>2. p # q
    BY <2>1
  <2>3. relation[q] = "blocked"
    BY <2>1, <2>2
  <2>4. CASE p = r
    BY <1>0, <2>1, <2>3, <2>4
  <2>5. CASE p # r
    BY <1>0, <2>1, <2>3, <2>5
  <2> QED BY <2>4, <2>5
<1>3. ASSUME NEW p \in Pairs, Unfollow(p) PROVE FALSE
  <2>1. relation[q] = "blocked" /\ relation[r] = "following"
    BY <1>0, <1>3 DEF Unfollow
  <2> QED BY <1>0, <2>1
<1>4. ASSUME NEW p \in Pairs, Block(p) PROVE FALSE
  <2> DEFINE s == <<p[2], p[1]>>
  <2>1. /\ s \in Pairs /\ s # p /\ p = <<s[2], s[1]>>
        /\ relation' = [relation EXCEPT
                          ![p] = "blocked",
                          ![s] = IF relation[s] = "following" THEN "none" ELSE relation[s]]
    BY <1>4, PairSwap DEF Block
  <2>2. relation'[s] # "following" /\ relation'[p] = "blocked"
    BY <2>1
  <2>3. q # p /\ q # s
    BY <1>0, <2>1, <2>2
  <2>4. r # p /\ r # s
    BY <1>0, <2>1, <2>3
  <2>5. relation[q] = "blocked" /\ relation[r] = "following"
    BY <1>0, <2>1, <2>3, <2>4
  <2> QED BY <1>0, <2>5
<1>5. ASSUME NEW p \in Pairs, Unblock(p) PROVE FALSE
  <2>1. relation[q] = "blocked" /\ relation[r] = "following"
    BY <1>0, <1>5 DEF Unblock
  <2> QED BY <1>0, <2>1
<1> QED BY <1>1, <1>2, <1>3, <1>4, <1>5, RelationNext

\* Who is in a group is followed by its owner.
LEMMA HeldIsFollowed ==
  ASSUME FollowTypes
  PROVE  GroupsHoldFollowed <=>
           ("ghost" \notin mishap =>
              \A r \in member : relation[<<r[1], r[3]>>] = "following")
<1>1. \A r \in member : r[3] \in Following(r[1]) <=> relation[<<r[1], r[3]>>] = "following"
  BY RowParts DEF FollowTypes, Following
<1> QED BY <1>1 DEF GroupsHoldFollowed

\* What the steps do to the rows: some are removed, or an assignment is written.
LEMMA MemberNext ==
  ASSUME FollowTypes, [FollowNext]_followVars
  PROVE  \/ member' \subseteq member
         \/ \E w \in FollowWorker : AssignInserts(w)
BY DEF FollowNext, followVars, FollowChecks, AssignChecks, CreateChecks, Begin,
       CreateWrites, AssignClears, DeleteTag, FollowWrites, Unfollow, Block, Unblock

LEMMA GroupsHoldFollowedNext ==
  ASSUME FollowInv, [FollowNext]_followVars
  PROVE  GroupsHoldFollowed'
<1> DEFINE HeldPair(r) == <<r[1], r[3]>>
<1>1. FollowTypes /\ FollowTypes'
  BY FollowTypesNext DEF FollowInv
<1> SUFFICES ASSUME "ghost" \notin mishap', NEW r \in member'
             PROVE  relation'[HeldPair(r)] = "following"
  <2>1. GroupsHoldFollowed' <=>
           ("ghost" \notin mishap' =>
              \A r \in member' : relation'[<<r[1], r[3]>>] = "following")
    <3>1. \A r \in member' : r[3] \in Following(r[1])' <=> relation'[<<r[1], r[3]>>] = "following"
      BY <1>1, RowParts DEF FollowTypes, Following
    <3> QED BY <3>1 DEF GroupsHoldFollowed
  <2> QED BY <2>1
<1>2. /\ "ghost" \notin mishap
      /\ \A x \in member : relation[HeldPair(x)] = "following"
  BY <1>1, MishapGrows, HeldIsFollowed DEF FollowInv
<1>3. HeldPair(r) \in Pairs /\ r \in TagRow
  BY <1>1, RowParts DEF FollowTypes
<1>4. ASSUME NEW w \in FollowWorker, AssignInserts(w), r \notin member
      PROVE  relation'[HeldPair(r)] = "following"
  <2> DEFINE j == followJob[w]
             rows == {<<j.p[1], t, j.p[2]>> : t \in j.wanted}
  <2>1. r \in rows /\ rows # {} /\ Followed(j.p) /\ relation' = relation /\ j.p \in Pairs
    BY <1>1, <1>4, FollowJobParts DEF AssignInserts, FollowTypes
  <2>2. HeldPair(r) = j.p
    <3>1. PICK t \in j.wanted : r = <<j.p[1], t, j.p[2]>>
      BY <2>1
    <3>2. r[1] = j.p[1] /\ r[3] = j.p[2]
      BY <3>1
    <3> QED BY <2>1, <3>2, PairSwap
  <2> QED BY <2>1, <2>2 DEF Followed
<1>5. CASE r \in member
  <2>1. relation[HeldPair(r)] = "following"
    BY <1>2, <1>5
  <2>2. ASSUME NEW p \in Pairs, Unfollow(p) PROVE relation'[HeldPair(r)] = "following"
    <3>1. r \notin RowsOf(p[1], p[2])
      BY <2>2 DEF Unfollow, ClearTarget
    <3>2. HeldPair(r) # p
      BY <1>5, <3>1, PairSwap DEF RowsOf
    <3> QED BY <1>1, <1>3, <2>1, <2>2, <3>2 DEF Unfollow, FollowTypes
  <2>3. ASSUME NEW p \in Pairs, Block(p) PROVE relation'[HeldPair(r)] = "following"
    <3> DEFINE q == <<p[2], p[1]>>
    <3>1. r \notin RowsOf(p[1], p[2]) /\ r \notin RowsOf(p[2], p[1])
      BY <2>3 DEF Block, ClearTarget
    <3>2. HeldPair(r) # p /\ HeldPair(r) # q
      BY <1>5, <3>1, PairSwap DEF RowsOf
    <3> QED BY <1>1, <1>3, <2>1, <2>3, <3>2 DEF Block, FollowTypes
  <2>4. ASSUME NEW p \in Pairs, Unblock(p) PROVE relation'[HeldPair(r)] = "following"
    BY <1>1, <1>3, <2>1, <2>4 DEF Unblock, FollowTypes
  <2>5. ASSUME NEW w \in FollowWorker, FollowWrites(w)
        PROVE  relation'[HeldPair(r)] = "following"
    BY <1>1, <1>3, <2>1, <2>5 DEF FollowWrites, FollowTypes
  <2> QED BY <1>1, <2>1, <2>2, <2>3, <2>4, <2>5, RelationNext
<1> QED BY <1>1, <1>4, <1>5, MemberNext

LEMMA OwnTagsNext ==
  ASSUME FollowTypes, [FollowNext]_followVars
  PROVE  \/ UNCHANGED tagOwner
         \/ \E t \in Tag : DeleteTag(t)
         \/ \E w \in FollowWorker, t \in Tag : CreateWrites(w, t)
BY DEF FollowNext, followVars, FollowChecks, AssignChecks, CreateChecks, Begin,
       FollowWrites, AssignClears, AssignInserts, Unfollow, Block, Unblock

LEMMA RowsAreListedNext ==
  ASSUME FollowInv, [FollowNext]_followVars
  PROVE  RowsAreListed'
<1>1. FollowTypes /\ FollowTypes' /\ RowsAreListed
  BY FollowTypesNext DEF FollowInv
<1> SUFFICES ASSUME "tagGone" \notin mishap', NEW r \in member'
             PROVE  r[2] = Special \/ (r[2] \in Tag /\ tagOwner'[r[2]] = r[1])
  BY DEF RowsAreListed, ListedGroups, OwnTags
<1>2. "tagGone" \notin mishap /\ r \in TagRow
  BY <1>1, MishapGrows DEF FollowTypes
<1>3. r[1] \in User /\ r[2] \in Group /\ NoOne \notin User /\ Gone \notin User
  BY <1>2, RowParts, FollowAssumption
<1>4. CASE r \in member
  <2>1. r[2] = Special \/ (r[2] \in Tag /\ tagOwner[r[2]] = r[1])
    BY <1>1, <1>2, <1>4 DEF RowsAreListed, ListedGroups, OwnTags
  <2>2. ASSUME NEW t \in Tag, DeleteTag(t)
        PROVE  r[2] = Special \/ (r[2] \in Tag /\ tagOwner'[r[2]] = r[1])
    <3>1. r[2] # t
      BY <1>4, <2>2 DEF DeleteTag, DeletedRows, RowsIn
    <3> QED BY <1>1, <2>1, <2>2, <3>1 DEF DeleteTag, FollowTypes
  <2>3. ASSUME NEW w \in FollowWorker, NEW t \in Tag, CreateWrites(w, t)
        PROVE  r[2] = Special \/ (r[2] \in Tag /\ tagOwner'[r[2]] = r[1])
    <3>1. tagOwner[t] = NoOne /\ tagOwner' = [tagOwner EXCEPT ![t] = followJob[w].u]
      BY <2>3 DEF CreateWrites
    <3>2. r[2] \in Tag => r[2] # t
      BY <1>3, <2>1, <3>1, FollowAssumption
    <3> QED BY <1>1, <2>1, <3>1, <3>2 DEF FollowTypes
  <2> QED BY <1>1, <2>1, <2>2, <2>3, OwnTagsNext
<1>5. ASSUME NEW w \in FollowWorker, AssignInserts(w), r \notin member
      PROVE  r[2] = Special \/ (r[2] \in Tag /\ tagOwner'[r[2]] = r[1])
  <2> DEFINE j == followJob[w]
  <2>1. /\ r \in {<<j.p[1], t, j.p[2]>> : t \in j.wanted}
        /\ j.wanted \subseteq ListedGroups(j.p[1]) /\ tagOwner' = tagOwner
    BY <1>5 DEF AssignInserts
  <2>2. PICK t \in j.wanted : r = <<j.p[1], t, j.p[2]>>
    BY <2>1
  <2>3. r[1] = j.p[1] /\ r[2] = t
    BY <2>2
  <2> QED BY <2>1, <2>3 DEF ListedGroups, OwnTags
<1> QED BY <1>1, <1>4, <1>5, MemberNext

\* The groups of a target, as far as its rows say.
GroupsOf(p) == {r[2] : r \in RowsOf(p[1], p[2])}

LEMMA LastAskedNext ==
  ASSUME FollowTypes, [FollowNext]_followVars
  PROVE  \/ UNCHANGED <<member, lastAsked>>
         \/ \E p \in Pairs : Unfollow(p) \/ Block(p)
         \/ \E t \in Tag : DeleteTag(t)
         \/ \E w \in FollowWorker : AssignInserts(w)
BY DEF FollowNext, followVars, FollowChecks, AssignChecks, CreateChecks, Begin,
       FollowWrites, AssignClears, CreateWrites, Unblock

LEMMA AssignCoversNext ==
  ASSUME FollowInv, [FollowNext]_followVars
  PROVE  AssignCovers'
<1>1. FollowTypes /\ FollowTypes' /\ AssignCovers
  BY FollowTypesNext DEF FollowInv
<1> SUFFICES ASSUME "merged" \notin mishap', NEW q \in Pairs
             PROVE  GroupsOf(q)' = lastAsked'[q]
  BY DEF AssignCovers, GroupsOf
<1>2. GroupsOf(q) = lastAsked[q] /\ q \in User \X User
  BY <1>1, MishapGrows DEF AssignCovers, GroupsOf, Pairs
<1>3. CASE UNCHANGED <<member, lastAsked>>
  BY <1>2, <1>3 DEF GroupsOf, RowsOf
<1>4. ASSUME NEW p \in Pairs, Unfollow(p) PROVE GroupsOf(q)' = lastAsked'[q]
  <2>1. CASE p = q
    <3>1. RowsOf(q[1], q[2])' = {} /\ lastAsked'[q] = {}
      BY <1>1, <1>4, <2>1 DEF Unfollow, ClearTarget, RowsOf, FollowTypes
    <3> QED BY <3>1 DEF GroupsOf
  <2>2. CASE p # q
    <3>1. p[1] # q[1] \/ p[2] # q[2]
      BY <2>2, PairSwap
    <3>2. RowsOf(q[1], q[2])' = RowsOf(q[1], q[2]) /\ lastAsked'[q] = lastAsked[q]
      BY <1>1, <1>4, <2>2, <3>1 DEF Unfollow, ClearTarget, RowsOf, FollowTypes
    <3> QED BY <1>2, <3>2 DEF GroupsOf
  <2> QED BY <2>1, <2>2
<1>5. ASSUME NEW p \in Pairs, Block(p) PROVE GroupsOf(q)' = lastAsked'[q]
  <2> DEFINE s == <<p[2], p[1]>>
  <2>1. s \in Pairs /\ s # p
    BY PairSwap
  <2>2. CASE q = p
    <3>1. RowsOf(q[1], q[2])' = {} /\ lastAsked'[q] = {}
      BY <1>1, <1>5, <2>1, <2>2 DEF Block, ClearTarget, RowsOf, FollowTypes
    <3> QED BY <3>1 DEF GroupsOf
  <2>3. CASE q = s
    <3>1. RowsOf(q[1], q[2])' = {}
      BY <1>5, <2>3 DEF Block, ClearTarget, RowsOf
    <3>2. lastAsked'[q] = {}
      BY <1>1, <1>5, <2>1, <2>3 DEF Block, FollowTypes
    <3> QED BY <3>1, <3>2 DEF GroupsOf
  <2>4. CASE q # p /\ q # s
    <3>1. p[1] # q[1] \/ p[2] # q[2]
      BY <2>4, PairSwap
    <3>2. p[2] # q[1] \/ p[1] # q[2]
      BY <2>4, PairSwap
    <3>3. RowsOf(q[1], q[2])' = RowsOf(q[1], q[2])
      BY <1>5, <3>1, <3>2 DEF Block, ClearTarget, RowsOf
    <3>4. lastAsked'[q] = lastAsked[q]
      BY <1>1, <1>5, <2>1, <2>4 DEF Block, FollowTypes
    <3> QED BY <1>2, <3>3, <3>4 DEF GroupsOf
  <2> QED BY <2>2, <2>3, <2>4
<1>6. ASSUME NEW t \in Tag, DeleteTag(t) PROVE GroupsOf(q)' = lastAsked'[q]
  <2>1. RowsOf(q[1], q[2])' = {r \in RowsOf(q[1], q[2]) : r[2] # t}
    BY <1>6 DEF DeleteTag, DeletedRows, RowsIn, RowsOf
  <2>2. lastAsked'[q] = lastAsked[q] \ {t}
    BY <1>6 DEF DeleteTag
  <2>3. GroupsOf(q)' = GroupsOf(q) \ {t}
    BY <2>1 DEF GroupsOf
  <2> QED BY <1>2, <2>2, <2>3
<1>7. ASSUME NEW w \in FollowWorker, AssignInserts(w) PROVE GroupsOf(q)' = lastAsked'[q]
  <2> DEFINE j == followJob[w]
             rows == {<<j.p[1], t, j.p[2]>> : t \in j.wanted}
  <2>1. CASE UNCHANGED <<member, lastAsked>>
    BY <1>3, <2>1
  <2>2. CASE ~UNCHANGED <<member, lastAsked>>
    <3>1. /\ member' = (member \ j.cleared) \cup rows
          /\ lastAsked' = [lastAsked EXCEPT ![j.p] = j.wanted]
          /\ RowsOf(j.p[1], j.p[2]) = j.cleared
          /\ j.p \in Pairs
      BY <1>1, <1>7, <2>2, FollowJobParts DEF AssignInserts, FollowTypes
    <3>2. CASE q = j.p
      <4>1. \A r \in rows : r[1] = q[1] /\ r[3] = q[2]
        BY <3>2
      <4>2. RowsOf(q[1], q[2])' = rows
        BY <3>1, <3>2, <4>1 DEF RowsOf
      <4>3. {r[2] : r \in rows} = j.wanted
        <5>1. \A t \in j.wanted : <<j.p[1], t, j.p[2]>> \in rows
          OBVIOUS
        <5>2. \A r \in rows : r[2] \in j.wanted
          OBVIOUS
        <5>3. \A t \in j.wanted : \E r \in rows : r[2] = t
          BY <5>1
        <5> HIDE DEF rows
        <5> QED BY <5>2, <5>3
      <4> QED BY <1>1, <3>1, <3>2, <4>2, <4>3 DEF GroupsOf, FollowTypes
    <3>3. CASE q # j.p
      <4>1. j.p[1] # q[1] \/ j.p[2] # q[2]
        <5>1. PICK p \in Pairs : p = j.p
          BY <3>1
        <5>2. q # p
          BY <3>3, <5>1
        <5>3. p[1] # q[1] \/ p[2] # q[2]
          BY <5>2, PairSwap
        <5> QED BY <5>1, <5>3
      <4>2. \A r \in rows : r[1] # q[1] \/ r[3] # q[2]
        BY <4>1
      <4>3. RowsOf(q[1], q[2])' = RowsOf(q[1], q[2])
        BY <3>1, <4>1, <4>2 DEF RowsOf
      <4>4. lastAsked'[q] = lastAsked[q]
        BY <1>1, <3>1, <3>3 DEF FollowTypes
      <4> QED BY <1>2, <4>3, <4>4 DEF GroupsOf
    <3> QED BY <3>2, <3>3
  <2> QED BY <2>1, <2>2
<1> QED BY <1>1, <1>3, <1>4, <1>5, <1>6, <1>7, LastAskedNext

\* The groups a user owns and the requests that may add one.
LEMMA CreatingNext ==
  ASSUME FollowTypes, [FollowNext]_followVars
  PROVE  \/ \E w \in FollowWorker, u \in User : CreateChecks(w, u)
         \/ \E w \in FollowWorker, t \in Tag : CreateWrites(w, t)
         \/ /\ \A u \in User : Creating(u)' \subseteq Creating(u)
            /\ \A u \in User : OwnTags(u)' \subseteq OwnTags(u)
<1> DEFINE Fewer == /\ \A u \in User : Creating(u)' \subseteq Creating(u)
                    /\ \A u \in User : OwnTags(u)' \subseteq OwnTags(u)
<1> USE DEF FollowTypes
<1>1. ASSUME NEW w \in FollowWorker, NEW job, job.op # "create",
             followJob' = [followJob EXCEPT ![w] = job], UNCHANGED tagOwner
      PROVE  Fewer
  BY <1>1 DEF Creating, OwnTags
<1>2. ASSUME UNCHANGED <<followJob, tagOwner>> PROVE Fewer
  BY <1>2 DEF Creating, OwnTags
<1>3. ASSUME NEW t \in Tag, DeleteTag(t) PROVE Fewer
  <2>1. Gone \notin User
    BY FollowAssumption
  <2>2. \A u \in User : OwnTags(u)' \subseteq OwnTags(u)
    BY <1>3, <2>1 DEF DeleteTag, OwnTags
  <2> QED BY <1>3, <2>2 DEF DeleteTag, Creating
<1>4. ASSUME NEW p \in Pairs, Unfollow(p) \/ Block(p) \/ Unblock(p) PROVE Fewer
  BY <1>2, <1>4 DEF Unfollow, Block, Unblock
<1>5. ASSUME NEW w \in FollowWorker, NEW p \in Pairs, FollowChecks(w, p) PROVE Fewer
  <2> DEFINE job == [op |-> "follow", p |-> p]
  <2>1. job.op # "create" /\ followJob' = [followJob EXCEPT ![w] = job] /\ UNCHANGED tagOwner
    BY <1>5 DEF FollowChecks, Begin
  <2> HIDE DEF job
  <2> QED BY <1>1, <2>1
<1>6. ASSUME NEW w \in FollowWorker, NEW p \in Pairs,
             NEW ts \in SUBSET (Group \cup {Default}), AssignChecks(w, p, ts)
      PROVE  Fewer
  <2> DEFINE job == [op |-> "assign", p |-> p, wanted |-> Wanted(ts)]
  <2>1. job.op # "create" /\ followJob' = [followJob EXCEPT ![w] = job] /\ UNCHANGED tagOwner
    BY <1>6 DEF AssignChecks, Begin
  <2> HIDE DEF job
  <2> QED BY <1>1, <2>1
<1>7. ASSUME NEW w \in FollowWorker, FollowWrites(w) \/ AssignInserts(w) PROVE Fewer
  BY <1>1, <1>7, FollowJobParts DEF FollowWrites, AssignInserts, End
<1>8. ASSUME NEW w \in FollowWorker, AssignClears(w) PROVE Fewer
  <2> DEFINE job == [op |-> "insert", p |-> followJob[w].p, wanted |-> followJob[w].wanted,
                     cleared |-> ClearTarget(followJob[w].p)]
  <2>1. job.op # "create" /\ followJob' = [followJob EXCEPT ![w] = job] /\ UNCHANGED tagOwner
    BY <1>8 DEF AssignClears
  <2> HIDE DEF job
  <2> QED BY <1>1, <2>1
<1>9. CASE UNCHANGED followVars
  BY <1>2, <1>9 DEF followVars
<1> QED
  BY <1>3, <1>4, <1>5, <1>6, <1>7, <1>8, <1>9 DEF FollowNext

LEMMA CreatingFinite ==
  ASSUME NEW S, S \subseteq FollowWorker
  PROVE  /\ IsFiniteSet(S) /\ Cardinality(S) \in Nat
         /\ Cardinality(S) <= Cardinality(FollowWorker)
         /\ Cardinality(FollowWorker) \in Nat
BY FollowAssumption, FS_Subset, FS_CardinalityType

LEMMA TagLimitNext ==
  ASSUME FollowInv, [FollowNext]_followVars
  PROVE  OwnedFinite' /\ TagLimit'
<1>1. FollowTypes /\ FollowTypes' /\ OwnedFinite /\ TagLimit
  BY FollowTypesNext DEF FollowInv
<1> SUFFICES ASSUME NEW u \in User
             PROVE  /\ IsFiniteSet(OwnTags(u)')
                    /\ Cardinality(OwnTags(u)') + Cardinality(Creating(u)')
                         <= MaxUserTags + Cardinality(FollowWorker) - 1
  BY DEF OwnedFinite, TagLimit, Creating
<1>2. /\ IsFiniteSet(OwnTags(u)) /\ Cardinality(OwnTags(u)) \in Nat
      /\ Cardinality(OwnTags(u)) + Cardinality(Creating(u))
           <= MaxUserTags + Cardinality(FollowWorker) - 1
  BY <1>1, FS_CardinalityType DEF OwnedFinite, TagLimit, Creating
<1>3. Creating(u) \subseteq FollowWorker /\ Creating(u)' \subseteq FollowWorker
  BY DEF Creating
<1>4. /\ IsFiniteSet(Creating(u))
      /\ Cardinality(Creating(u)) \in Nat /\ Cardinality(Creating(u)') \in Nat
      /\ Cardinality(Creating(u)') <= Cardinality(FollowWorker)
      /\ Cardinality(FollowWorker) \in Nat /\ MaxUserTags \in Nat
  BY <1>3, CreatingFinite, FollowAssumption
<1>5. ASSUME Creating(u)' \subseteq Creating(u), OwnTags(u)' \subseteq OwnTags(u)
      PROVE  /\ IsFiniteSet(OwnTags(u)')
             /\ Cardinality(OwnTags(u)') + Cardinality(Creating(u)')
                  <= MaxUserTags + Cardinality(FollowWorker) - 1
  <2>1. /\ IsFiniteSet(OwnTags(u)')
        /\ Cardinality(OwnTags(u)') <= Cardinality(OwnTags(u))
        /\ Cardinality(Creating(u)') <= Cardinality(Creating(u))
    BY <1>2, <1>4, <1>5, FS_Subset
  <2>2. Cardinality(OwnTags(u)') \in Nat
    BY <2>1, FS_CardinalityType
  <2> QED BY <1>2, <1>4, <2>1, <2>2
<1>6. ASSUME NEW w \in FollowWorker, NEW v \in User, CreateChecks(w, v)
      PROVE  /\ IsFiniteSet(OwnTags(u)')
             /\ Cardinality(OwnTags(u)') + Cardinality(Creating(u)')
                  <= MaxUserTags + Cardinality(FollowWorker) - 1
  <2>1. OwnTags(u)' = OwnTags(u)
    BY <1>6 DEF CreateChecks, Begin, OwnTags
  <2>2. CASE v = u
    <3>1. Cardinality(OwnTags(u)) < MaxUserTags
      BY <1>6, <2>2 DEF CreateChecks, CreateLimit
    <3> QED BY <1>2, <1>4, <2>1, <3>1
  <2>3. CASE v # u
    <3> DEFINE job == [op |-> "create", u |-> v]
    <3>1. job.u # u /\ followJob' = [followJob EXCEPT ![w] = job]
      BY <1>6, <2>3 DEF CreateChecks, Begin
    <3> HIDE DEF job
    <3>2. Creating(u)' \subseteq Creating(u)
      BY <1>1, <3>1 DEF Creating, FollowTypes
    <3> QED BY <1>5, <2>1, <3>2
  <2> QED BY <2>2, <2>3
<1>7. ASSUME NEW w \in FollowWorker, NEW t \in Tag, CreateWrites(w, t)
      PROVE  /\ IsFiniteSet(OwnTags(u)')
             /\ Cardinality(OwnTags(u)') + Cardinality(Creating(u)')
                  <= MaxUserTags + Cardinality(FollowWorker) - 1
  <2>1. /\ tagOwner[t] = NoOne /\ tagOwner' = [tagOwner EXCEPT ![t] = followJob[w].u]
        /\ followJob' = [followJob EXCEPT ![w] = NoRequest]
        /\ followJob[w].op = "create" /\ NoOne \notin User
    BY <1>7, FollowAssumption DEF CreateWrites, End
  <2>2. CASE followJob[w].u = u
    <3>1. OwnTags(u)' = OwnTags(u) \cup {t} /\ t \notin OwnTags(u)
      BY <1>1, <2>1, <2>2 DEF OwnTags, FollowTypes
    <3>2. Creating(u)' = Creating(u) \ {w} /\ w \in Creating(u)
      BY <1>1, <2>1, <2>2, FollowJobParts DEF Creating, FollowTypes
    <3>3. /\ IsFiniteSet(OwnTags(u) \cup {t})
          /\ Cardinality(OwnTags(u) \cup {t}) = Cardinality(OwnTags(u)) + 1
      BY <1>2, <3>1, FS_AddElement
    <3>4. Cardinality(Creating(u) \ {w}) = Cardinality(Creating(u)) - 1
      BY <1>4, <3>2, FS_RemoveElement
    <3> QED BY <1>2, <1>4, <3>1, <3>2, <3>3, <3>4
  <2>3. CASE followJob[w].u # u
    <3>1. OwnTags(u)' \subseteq OwnTags(u)
      BY <1>1, <2>1, <2>3 DEF OwnTags, FollowTypes
    <3>2. Creating(u)' \subseteq Creating(u)
      BY <1>1, <2>1, FollowJobParts DEF Creating, FollowTypes
    <3> QED BY <1>5, <3>1, <3>2
  <2> QED BY <2>2, <2>3
<1> QED BY <1>1, <1>5, <1>6, <1>7, CreatingNext

LEMMA FollowInvInit == FollowInit => FollowInv
<1> SUFFICES ASSUME FollowInit PROVE FollowInv
  OBVIOUS
<1> USE DEF FollowInit
<1>1. FollowTypes
  BY DEF FollowTypes, FollowJob
<1>2. BlockerNotFollowed
  BY PairSwap DEF BlockerNotFollowed
<1>3. GroupsHoldFollowed /\ RowsAreListed
  BY DEF GroupsHoldFollowed, RowsAreListed
<1>4. AssignCovers
  BY DEF AssignCovers, RowsOf
<1>5. ASSUME NEW u \in User PROVE OwnTags(u) = {} /\ Creating(u) = {}
  BY <1>5, FollowAssumption, FollowJobParts DEF OwnTags, Creating
<1>6. Cardinality(FollowWorker) \in Nat /\ Cardinality(FollowWorker) # 0
  BY FollowAssumption, FS_CardinalityType, FS_EmptySet
<1>7. OwnedFinite
  BY <1>5, FS_EmptySet DEF OwnedFinite
<1>8. ASSUME NEW u \in User
      PROVE  Cardinality(OwnTags(u)) + Cardinality(Creating(u))
               <= MaxUserTags + Cardinality(FollowWorker) - 1
  <2>1. Cardinality(OwnTags(u)) = 0 /\ Cardinality(Creating(u)) = 0
    BY <1>5, FS_EmptySet
  <2>2. MaxUserTags \in Nat
    BY FollowAssumption
  <2> QED BY <1>6, <2>1, <2>2
<1>9. TagLimit
  BY <1>8 DEF TagLimit, Creating
<1> QED BY <1>1, <1>2, <1>3, <1>4, <1>7, <1>9 DEF FollowInv

LEMMA FollowInvNext == FollowInv /\ [FollowNext]_followVars => FollowInv'
BY FollowTypesNext, BlockerNotFollowedNext, GroupsHoldFollowedNext, RowsAreListedNext,
   AssignCoversNext, TagLimitNext
DEF FollowInv

\* Who is followed is in the default group or has a row in a listed one.
LEMMA ListedIsShown ==
  ASSUME FollowTypes, RowsAreListed
  PROVE  NobodyLost
<1> SUFFICES ASSUME "tagGone" \notin mishap, NEW u \in User
             PROVE  Following(u) = DefaultGroup(u)
                      \cup UNION {TagMembers(u, t) : t \in ListedGroups(u)}
  BY DEF NobodyLost
<1>1. ASSUME NEW v \in Following(u), RowsOf(u, v) # {}
      PROVE  \E t \in ListedGroups(u) : v \in TagMembers(u, t)
  <2>1. PICK r \in member : r[1] = u /\ r[3] = v
    BY <1>1 DEF RowsOf
  <2>2. r = <<u, r[2], v>> /\ r[2] \in ListedGroups(u)
    BY <2>1, RowParts DEF FollowTypes, RowsAreListed
  <2> QED BY <2>1, <2>2 DEF TagMembers
<1>2. \A t : TagMembers(u, t) \subseteq Following(u)
  BY DEF TagMembers
<1> QED BY <1>1, <1>2 DEF DefaultGroup

\* Follows, blocks and groups fit together but for the overlaps that each part
\* names, for any users, groups, limit and number of requests at a time
\* (FollowService and FollowTagService).
THEOREM FollowsFitTogether == FollowSpec => []FollowsHold
<1>1. FollowInv => FollowsHold
  BY ListedIsShown DEF FollowInv, FollowsHold
<1> QED BY <1>1, FollowInvInit, FollowInvNext, PTL DEF FollowSpec

-----------------------------------------------------------------------------
(* Likes, dislikes and reactions.                                          *)

MarkRow == [value: Value, pk: Nat]
MarkJob ==
  {NoMarkJob}
    \cup [op: {"toggle"}, m: Mark \ LikedComment, to: {"like", "none"}, seen: MarkRow,
          pk: Nat]
    \cup [op: {"react"}, m: LikedComment, to: Value, seen: MarkRow, pk: Nat]

MarkTypes ==
  /\ mark \in [Mark -> MarkRow]
  /\ \A m \in Mark \ LikedComment : mark[m].value # "hate"
  /\ likes \in [Mark -> Int] /\ hates \in [LikedComment -> Int]
  /\ markJob \in [MarkWorker -> MarkJob]
  /\ marksAsked \in Nat

\* The inductive invariant.
MarksInv == MarkTypes /\ MarksCounted /\ NeverLikedTwice

LEMMA MarksInvInit == MarksInit => MarksInv
<1> SUFFICES ASSUME MarksInit PROVE MarksInv
  OBVIOUS
<1> USE MarkAssumption DEF MarksInit
<1>1. MarkTypes
  BY DEF MarkTypes, MarkRow, MarkJob, NoMark, Value, Mark
<1>2. MarksCounted /\ NeverLikedTwice
  BY DEF MarksCounted, NeverLikedTwice, IsLiked, IsHated, NoMark, Mark
<1> QED BY <1>1, <1>2 DEF MarksInv

LEMMA MarkReadsStep ==
  ASSUME MarksInv, NEW w \in MarkWorker, NEW m \in Mark, NEW v \in Value,
         ToggleReads(w, m, v) \/ ReactReads(w, m, v)
  PROVE  MarksInv'
<1> USE DEF MarksInv, MarkTypes
<1>1. ASSUME NEW job \in MarkJob, markJob' = [markJob EXCEPT ![w] = job],
             marksAsked' = marksAsked + 1, UNCHANGED <<mark, likes, hates, overlapped>>
      PROVE  MarksInv'
  BY <1>1 DEF MarksCounted, NeverLikedTwice, IsLiked, IsHated
<1>2. mark[m] \in MarkRow /\ marksAsked + 1 \in Nat
  OBVIOUS
<1>3. CASE ToggleReads(w, m, v)
  <2>1. [op |-> "toggle", m |-> m, to |-> v, seen |-> mark[m], pk |-> marksAsked + 1]
          \in MarkJob
    BY <1>2, <1>3 DEF ToggleReads, MarkJob
  <2> QED BY <1>1, <1>3, <2>1 DEF ToggleReads, MarkReads
<1>4. CASE ReactReads(w, m, v)
  <2>1. [op |-> "react", m |-> m, to |-> v, seen |-> mark[m], pk |-> marksAsked + 1]
          \in MarkJob
    BY <1>2, <1>4 DEF ReactReads, MarkJob
  <2> QED BY <1>1, <1>4, <2>1 DEF ReactReads, MarkReads
<1> QED BY <1>3, <1>4

\* A like or a dislike, set or taken back: the row of another request is left
\* alone, and what is counted is what the row says.
LEMMA TogglesStep ==
  ASSUME MarksInv, NEW w \in MarkWorker, markJob[w].op = "toggle",
         NEW deleted \in BOOLEAN, Toggles(w, deleted),
         mark[markJob[w].m] = markJob[w].seen => deleted
  PROVE  MarksInv'
<1> USE DEF MarksInv, MarkTypes
<1>1. PICK j, m : j = markJob[w] /\ m = j.m
  OBVIOUS
<1>2. /\ j \in MarkJob /\ m \in Mark \ LikedComment /\ j.to \in {"like", "none"}
      /\ j.seen \in MarkRow /\ j.pk \in Nat
  BY <1>1 DEF MarkJob, NoMarkJob
<1> DEFINE adds == j.to = "like" /\ j.seen.value = "none" /\ mark[m].value = "none"
           cancels == j.to = "none" /\ j.seen.value # "none"
           row == [value |-> "like", pk |-> j.pk]
<1>3. /\ mark' = CASE adds -> [mark EXCEPT ![m] = row]
                   [] cancels /\ deleted -> [mark EXCEPT ![m] = NoMark]
                   [] OTHER -> mark
      /\ likes' = [likes EXCEPT ![m] = CASE adds -> likes[m] + 1
                                         [] cancels -> FloorFor(m, likes[m] - 1)
                                         [] OTHER -> likes[m]]
      /\ overlapped' = overlapped \cup IF mark[m] = j.seen THEN {} ELSE {m}
      /\ markJob' = [markJob EXCEPT ![w] = NoMarkJob]
      /\ UNCHANGED <<hates, marksAsked>>
      /\ mark[m] = j.seen => deleted
  BY <1>1 DEF Toggles, InsertSucceeds, CancelIfSeen, Overlaps, MarkDone
<1>4. mark[m] \in MarkRow /\ likes[m] \in Int /\ OthersMarks \in Nat
  BY <1>2, MarkAssumption
<1>5. row \in MarkRow /\ row.value = "like" /\ NoMark \in MarkRow /\ NoMark.value = "none"
  BY <1>2 DEF MarkRow, NoMark, Value
<1> HIDE DEF row
<1>6. FloorFor(m, likes[m] - 1) \in Int
  BY <1>4 DEF FloorFor, FloorOfLikes
<1>7. /\ mark' \in [Mark -> MarkRow]
      /\ \A x \in Mark \ LikedComment : mark'[x].value # "hate"
      /\ likes' \in [Mark -> Int]
      /\ \A x \in Mark \ {m} : mark'[x] = mark[x] /\ likes'[x] = likes[x]
  BY <1>2, <1>3, <1>4, <1>5, <1>6
<1>8. MarkTypes'
  BY <1>3, <1>7 DEF MarkJob
<1>9. CASE adds
  <2>1. mark'[m].value = "like" /\ likes'[m] = likes[m] + 1 /\ mark[m].value = "none"
    BY <1>2, <1>3, <1>5, <1>9
  <2>2. likes[m] <= OthersMarks
        /\ (m \notin overlapped => likes[m] = OthersMarks)
    BY <1>2, <1>4, <2>1 DEF MarksCounted, NeverLikedTwice, IsLiked
  <2>3. NeverLikedTwice'
    BY <1>2, <1>4, <1>7, <2>1, <2>2 DEF NeverLikedTwice, IsLiked
  <2>4. MarksCounted'
    BY <1>2, <1>3, <1>4, <1>7, <2>1, <2>2 DEF MarksCounted, IsLiked, IsHated
  <2> QED BY <1>8, <2>3, <2>4
<1>10. CASE ~adds /\ cancels
  <2>1. /\ likes'[m] = FloorFor(m, likes[m] - 1)
        /\ mark'[m] = IF deleted THEN NoMark ELSE mark[m]
    BY <1>2, <1>3, <1>10
  <2>2. likes[m] <= OthersMarks + IsLiked(m) /\ IsLiked(m) \in {0, 1}
    BY <1>2 DEF NeverLikedTwice, IsLiked
  <2>3. /\ likes'[m] <= OthersMarks
        /\ likes[m] = OthersMarks + 1 => likes'[m] = OthersMarks
    BY <1>4, <2>1, <2>2 DEF FloorFor, FloorOfLikes
  <2>4. likes'[m] <= OthersMarks + IsLiked(m)' /\ IsLiked(m)' \in {0, 1}
    BY <1>4, <1>7, <2>3, <1>2 DEF IsLiked
  <2>5. NeverLikedTwice'
    BY <1>2, <1>7, <2>4 DEF NeverLikedTwice, IsLiked
  <2>6. m \notin overlapped' => likes'[m] = OthersMarks + IsLiked(m)'
    <3> SUFFICES ASSUME m \notin overlapped'
                 PROVE  likes'[m] = OthersMarks + IsLiked(m)'
      OBVIOUS
    <3>1. mark[m] = j.seen /\ deleted /\ m \notin overlapped
      BY <1>3
    <3>2. mark[m].value = "like"
      BY <1>2, <1>4, <1>10, <3>1 DEF MarkRow, Value
    <3>3. likes[m] = OthersMarks + 1
      BY <1>2, <3>1, <3>2 DEF MarksCounted, IsLiked
    <3>4. mark'[m].value = "none"
      BY <1>5, <2>1, <3>1
    <3> QED BY <1>4, <2>3, <3>3, <3>4 DEF IsLiked
  <2>7. MarksCounted'
    BY <1>2, <1>3, <1>7, <2>6 DEF MarksCounted, IsLiked, IsHated
  <2> QED BY <1>8, <2>5, <2>7
<1>11. CASE ~adds /\ ~cancels
  <2>1. mark' = mark /\ likes' = likes /\ overlapped \subseteq overlapped'
    BY <1>2, <1>3, <1>11
  <2> QED BY <1>3, <1>8, <2>1 DEF MarksCounted, NeverLikedTwice, IsLiked, IsHated
<1> QED BY <1>9, <1>10, <1>11

\* A reaction takes back what was counted of the one it read.
LEMMA ReactStep ==
  ASSUME MarksInv, NEW w \in MarkWorker, React(w)
  PROVE  MarksInv'
<1> USE DEF MarksInv, MarkTypes
<1>1. PICK j, m : j = markJob[w] /\ m = j.m
  OBVIOUS
<1>2. /\ j \in MarkJob /\ j.op = "react" /\ m \in LikedComment /\ m \in Mark
      /\ j.to \in Value /\ j.seen \in MarkRow /\ j.pk \in Nat
  BY <1>1 DEF React, MarkJob, NoMarkJob, Mark
<1>3. mark[m] \in MarkRow /\ likes[m] \in Int /\ hates[m] \in Int /\ OthersMarks \in Nat
  BY <1>2, MarkAssumption
<1>4. /\ overlapped' = overlapped \cup IF mark[m] = j.seen THEN {} ELSE {m}
      /\ markJob' = [markJob EXCEPT ![w] = NoMarkJob]
      /\ UNCHANGED marksAsked
  BY <1>1 DEF React, Overlaps, MarkDone
<1>5. markJob' \in [MarkWorker -> MarkJob] /\ overlapped \subseteq overlapped'
  BY <1>4 DEF MarkJob
<1>6. CASE ReactFails(j)
  <2>1. UNCHANGED <<mark, likes, hates>>
    BY <1>1, <1>6 DEF React
  <2> QED BY <1>4, <1>5, <2>1 DEF MarksCounted, NeverLikedTwice, IsLiked, IsHated
<1>7. CASE ~ReactFails(j)
  <2> DEFINE new == [value |-> j.to, pk |-> j.pk]
             changed == [mark[m] EXCEPT !.value = j.to]
             row == CASE j.to = "none" -> IF SamePk(j) THEN NoMark ELSE mark[m]
                      [] j.to = j.seen.value -> mark[m]
                      [] j.seen.value = "none" -> new
                      [] OTHER -> changed
  <2>1. /\ new \in MarkRow /\ new.value = j.to
        /\ NoMark \in MarkRow /\ NoMark.value = "none"
    BY <1>2 DEF MarkRow, NoMark, Value
  <2>2. changed \in MarkRow /\ changed.value = j.to
    BY <1>2, <1>3 DEF MarkRow
  <2>3. /\ mark' = [mark EXCEPT ![m] = row]
        /\ likes' = [likes EXCEPT ![m] = likes[m] + DeltaOf(j, "like")]
        /\ hates' = [hates EXCEPT ![m] = hates[m] + DeltaOf(j, "hate")]
    BY <1>1, <1>7 DEF React
  <2>4. SamePk(j) <=> mark[m].pk = j.seen.pk
    BY <1>1 DEF SamePk
  <2> HIDE DEF new, changed
  <2>5. row \in MarkRow /\ (mark[m] = j.seen => row.value = j.to)
    BY <1>2, <1>3, <2>1, <2>2, <2>4
  <2> HIDE DEF row
  <2>6. DeltaOf(j, "like") \in Int /\ DeltaOf(j, "hate") \in Int
    BY DEF DeltaOf, Weight
  <2>7. MarkTypes'
    BY <1>2, <1>3, <1>4, <1>5, <2>3, <2>5, <2>6
  <2>8. /\ \A x \in Mark \ {m} : mark'[x] = mark[x] /\ likes'[x] = likes[x]
        /\ \A x \in LikedComment \ {m} : hates'[x] = hates[x]
        /\ mark'[m] = row
        /\ likes'[m] = likes[m] + DeltaOf(j, "like")
        /\ hates'[m] = hates[m] + DeltaOf(j, "hate")
    BY <1>2, <2>3
  <2>9. NeverLikedTwice'
    BY <1>2, <2>8 DEF NeverLikedTwice, IsLiked
  <2>10. ASSUME m \notin overlapped'
         PROVE  /\ likes'[m] = OthersMarks + IsLiked(m)'
                /\ hates'[m] = OthersMarks + IsHated(m)'
    <3>1. mark[m] = j.seen /\ m \notin overlapped
      BY <1>4, <2>10
    <3>2. row.value = j.to
      BY <2>5, <3>1
    <3>3. likes[m] = OthersMarks + IsLiked(m) /\ hates[m] = OthersMarks + IsHated(m)
      BY <1>2, <3>1 DEF MarksCounted
    <3> QED
      BY <1>3, <2>8, <3>1, <3>2, <3>3 DEF DeltaOf, Weight, IsLiked, IsHated
  <2>11. MarksCounted'
    BY <1>2, <1>5, <2>8, <2>10 DEF MarksCounted, IsLiked, IsHated
  <2> QED BY <2>7, <2>9, <2>11
<1> QED BY <1>6, <1>7

LEMMA MarksInvNext == MarksInv /\ [MarksNext]_markVars => MarksInv'
<1> SUFFICES ASSUME MarksInv, [MarksNext]_markVars PROVE MarksInv'
  OBVIOUS
<1>1. ASSUME NEW w \in MarkWorker, LikeMoment(w) \/ LikeResource(w) \/ Dislike(w)
      PROVE  MarksInv'
  <2>1. SamePk(markJob[w]) \in BOOLEAN
    BY DEF SamePk
  <2> QED BY <1>1, <2>1, TogglesStep DEF LikeMoment, LikeResource, Dislike, SamePk
<1>2. CASE UNCHANGED markVars
  BY <1>2
  DEF markVars, MarksInv, MarkTypes, MarksCounted, NeverLikedTwice, IsLiked, IsHated
<1> QED BY <1>1, <1>2, MarkReadsStep, ReactStep DEF MarksNext

\* Every counter of likes, dislikes and reactions is right unless two requests
\* of one user worked on one row, and even then no like is counted twice, for
\* any resources and any number of requests (do_like_generic, do_like_dynamic,
\* do_dislike, CommentActionService.action).
THEOREM MarksAreCounted == MarksSpec => []MarksHold
<1>1. MarksInv => MarksHold
  BY DEF MarksInv, MarksHold
<1> QED BY <1>1, MarksInvInit, MarksInvNext, PTL DEF MarksSpec

-----------------------------------------------------------------------------
(* Favourites and their folders.                                           *)

FavJob ==
  {NoFavJob} \cup [op: {"default"}, r: Favoured]
    \cup [op: {"add", "remove"}, r: Favoured, f: Folder]
    \cup [op: {"inserted", "deleted"}, r: Favoured, f: Folder, other: BOOLEAN]
    \cup [op: {"drop"}, f: Folder, rows: SUBSET Favoured, affected: SUBSET Favoured,
          kept: SUBSET Favoured]

FavTypes ==
  /\ folder \in [Folder -> {"absent", "plain", "default", "gone"}]
  /\ favs \subseteq Favoured \X Folder
  /\ favCount \in [Favoured -> Int]
  /\ favJob \in [FavWorker -> FavJob]

Holding(w) == favJob[w].op \in {"inserted", "deleted"}

\* No two transactions hold one row; one that inserts holds a row that is not
\* there; and what a deletion of a folder is to count is what it read.
FavHolds ==
  /\ \A v, w \in FavWorker : v # w /\ Holding(v) /\ Holding(w)
       => favJob[v].r # favJob[w].r \/ favJob[v].f # favJob[w].f
  /\ \A w \in FavWorker : favJob[w].op = "inserted"
       => <<favJob[w].r, favJob[w].f>> \notin favs
  /\ \A w \in FavWorker : favJob[w].op = "drop"
       => favJob[w].affected = favJob[w].rows \ favJob[w].kept

OneDefault == "defaults" \notin muddle => \A f, g \in Defaults : f = g

\* The inductive invariant.
FavInv ==
  /\ FavTypes /\ FavHolds
  /\ FavouritesCounted /\ FavouritesInFolders /\ OneDefault

LEMMA FavJobParts ==
  /\ NoFavJob \in FavJob /\ NoFavJob.op = "idle"
  /\ \A j \in FavJob :
       /\ j.op = "default" => j.r \in Favoured
       /\ j.op \in {"add", "remove", "inserted", "deleted"}
            => j.r \in Favoured /\ j.f \in Folder
       /\ j.op \in {"inserted", "deleted"} => j.other \in BOOLEAN
       /\ j.op = "drop" => /\ j.f \in Folder /\ j.rows \subseteq Favoured
                           /\ j.kept \subseteq Favoured
BY DEF FavJob, NoFavJob

LEMMA FavInvInit == FavInit => FavInv
<1> SUFFICES ASSUME FavInit PROVE FavInv
  OBVIOUS
<1> USE DEF FavInit
<1>1. FavTypes
  BY FavJobParts, FavAssumption DEF FavTypes
<1>2. FavHolds
  BY FavJobParts DEF FavHolds, Holding
<1>3. FavouritesCounted /\ FavouritesInFolders
  BY FavAssumption DEF FavouritesCounted, FavouritesInFolders, FavouredBy
<1>4. OneDefault
  BY DEF OneDefault, Defaults
<1> QED BY <1>1, <1>2, <1>3, <1>4 DEF FavInv

\* A step that touches neither rows nor folders, and lets go of a row at most.
LEMMA FavQuiet ==
  ASSUME FavInv, NEW w \in FavWorker, NEW job \in FavJob,
         favJob' = [favJob EXCEPT ![w] = job],
         job.op \notin {"inserted", "deleted"},
         job.op = "drop" => job.affected = job.rows \ job.kept,
         UNCHANGED <<folder, favs, favCount, muddle>>
  PROVE  FavInv'
<1> USE DEF FavInv, FavTypes
<1>1. FavTypes'
  OBVIOUS
<1>2. FavHolds'
  BY DEF FavHolds, Holding
<1>3. FavouritesCounted' /\ FavouritesInFolders' /\ OneDefault'
  BY DEF FavouritesCounted, FavouritesInFolders, FavouredBy, Usable, OneDefault, Defaults
<1> QED BY <1>1, <1>2, <1>3

\* A transaction writes its row once no other holds it.
LEMMA FavTakes ==
  ASSUME FavInv, NEW w \in FavWorker, NEW op \in {"inserted", "deleted"},
         NEW r \in Favoured, NEW f \in Folder,
         Free({<<r, f>>}), op = "inserted" => <<r, f>> \notin favs,
         favJob' = [favJob EXCEPT ![w] = [op |-> op, r |-> r, f |-> f,
                                          other |-> Elsewhere(r, f)]],
         UNCHANGED <<folder, favs, favCount, muddle>>
  PROVE  FavInv'
<1> USE DEF FavInv, FavTypes
<1> DEFINE job == [op |-> op, r |-> r, f |-> f, other |-> Elsewhere(r, f)]
<1>1. job \in FavJob /\ job.op = op /\ job.r = r /\ job.f = f
  BY DEF FavJob, Elsewhere
<1>2. favJob' = [favJob EXCEPT ![w] = job]
  OBVIOUS
<1> HIDE DEF job
<1>3. FavTypes'
  BY <1>1, <1>2
<1>4. \A v \in FavWorker : Holding(v) => favJob[v].r # r \/ favJob[v].f # f
  BY DEF Free, HeldBy, Holding
<1>5. FavHolds'
  BY <1>1, <1>2, <1>4 DEF FavHolds, Holding
<1>6. FavouritesCounted' /\ FavouritesInFolders' /\ OneDefault'
  BY DEF FavouritesCounted, FavouritesInFolders, FavouredBy, Usable, OneDefault, Defaults
<1> QED BY <1>3, <1>5, <1>6

LEMMA AddDoneStep ==
  ASSUME FavInv, NEW w \in FavWorker, AddDone(w)
  PROVE  FavInv'
<1> USE DEF FavInv, FavTypes
<1>1. PICK j, r, f : j = favJob[w] /\ r = j.r /\ f = j.f
  OBVIOUS
<1>2. /\ j \in FavJob /\ j.op = "inserted" /\ r \in Favoured /\ f \in Folder
      /\ j.other \in BOOLEAN /\ <<r, f>> \notin favs
  BY <1>1, FavJobParts DEF AddDone, FavHolds
<1>3. /\ favs' = favs \cup {<<r, f>>}
      /\ favCount' = [favCount EXCEPT ![r] = favCount[r] + IF j.other THEN 0 ELSE 1]
      /\ favJob' = [favJob EXCEPT ![w] = NoFavJob] /\ UNCHANGED folder
      /\ muddle \subseteq muddle'
      /\ "stale" \notin muddle' => (j.other <=> Elsewhere(r, f))
      /\ muddle' \cap {"unnamed", "folderGone"} = {} => folder[f] \in {"plain", "default"}
  <2>1. muddle' = muddle \cup Muddled(j.other # Elsewhere(r, f), "stale")
                    \cup Muddled(folder[f] = "gone", "folderGone")
                    \cup Muddled(folder[f] = "absent", "unnamed")
    BY <1>1 DEF AddDone
  <2>2. "stale" \notin muddle' => (j.other <=> Elsewhere(r, f))
    BY <1>2, <2>1, Zenon DEF Muddled, Elsewhere
  <2>3. folder[f] \in {"absent", "plain", "default", "gone"}
    BY <1>2
  <2>4. muddle' \cap {"unnamed", "folderGone"} = {} => folder[f] \in {"plain", "default"}
    BY <2>1, <2>3 DEF Muddled
  <2> QED BY <1>1, <2>1, <2>2, <2>4 DEF AddDone, Ends, Goes
<1>4. FavTypes'
  BY <1>2, <1>3, FavJobParts
<1>5. FavHolds'
  <2>1. \A v \in FavWorker \ {w} : favJob[v].op = "inserted"
          => <<favJob[v].r, favJob[v].f>> # <<r, f>>
    BY <1>1, <1>2 DEF FavHolds, Holding
  <2> QED BY <1>2, <1>3, <2>1, FavJobParts DEF FavHolds, Holding
<1>6. FavouritesInFolders'
  BY <1>2, <1>3 DEF FavouritesInFolders, Usable
<1>7. OneDefault'
  BY <1>3 DEF OneDefault, Defaults
<1>8. FavouritesCounted'
  <2> SUFFICES ASSUME muddle' \cap {"stale", "twice"} = {}, NEW x \in Favoured
               PROVE  favCount'[x] = OthersFavs + FavouredBy(x)'
    BY DEF FavouritesCounted
  <2>1. favCount[x] = OthersFavs + FavouredBy(x) /\ OthersFavs \in Nat
    BY <1>3, FavAssumption DEF FavouritesCounted
  <2>2. CASE x # r
    <3>1. FavouredBy(x)' = FavouredBy(x)
      BY <1>3, <2>2 DEF FavouredBy
    <3> QED BY <1>2, <1>3, <2>1, <2>2, <3>1
  <2>3. CASE x = r
    <3>1. FavouredBy(x)' = 1
      BY <1>2, <1>3, <2>3 DEF FavouredBy
    <3>2. j.other <=> \E g \in Folder : <<r, g>> \in favs
      BY <1>2, <1>3 DEF Elsewhere
    <3>3. FavouredBy(x) = IF j.other THEN 1 ELSE 0
      BY <2>3, <3>2 DEF FavouredBy
    <3> QED BY <1>2, <1>3, <2>1, <2>3, <3>1, <3>3
  <2> QED BY <2>2, <2>3
<1> QED BY <1>4, <1>5, <1>6, <1>7, <1>8

LEMMA RemoveDoneStep ==
  ASSUME FavInv, NEW w \in FavWorker, RemoveDone(w)
  PROVE  FavInv'
<1> USE DEF FavInv, FavTypes
<1>1. PICK j, r, f : j = favJob[w] /\ r = j.r /\ f = j.f
  OBVIOUS
<1>2. /\ j \in FavJob /\ j.op = "deleted" /\ r \in Favoured /\ f \in Folder
      /\ j.other \in BOOLEAN
  BY <1>1, FavJobParts DEF RemoveDone
<1> DEFINE less == favCount[r] - IF j.other THEN 0 ELSE 1
<1>3. /\ favs' = favs \ {<<r, f>>}
      /\ favCount' = [favCount EXCEPT ![r] = Below(r, less)]
      /\ favJob' = [favJob EXCEPT ![w] = NoFavJob] /\ UNCHANGED folder
      /\ muddle \subseteq muddle'
      /\ "stale" \notin muddle' => (j.other <=> Elsewhere(r, f))
      /\ "twice" \notin muddle' => <<r, f>> \in favs
      /\ {"unnamed", "folderGone", "defaults"} \cap muddle' \subseteq muddle
  <2>1. muddle' = muddle \cup Muddled(<<r, f>> \notin favs, "twice")
                    \cup Muddled(j.other # Elsewhere(r, f), "stale")
    BY <1>1 DEF RemoveDone
  <2>2. "stale" \notin muddle' => (j.other <=> Elsewhere(r, f))
    BY <1>2, <2>1, Zenon DEF Muddled, Elsewhere
  <2>3. /\ "twice" \notin muddle' => <<r, f>> \in favs
        /\ {"unnamed", "folderGone", "defaults"} \cap muddle' \subseteq muddle
    BY <2>1 DEF Muddled
  <2> QED BY <1>1, <2>1, <2>2, <2>3 DEF RemoveDone, Ends, Goes
<1>4. favCount[r] \in Int /\ less \in Int /\ Below(r, less) \in Int
  BY <1>2 DEF Below
<1>5. FavTypes'
  BY <1>2, <1>3, <1>4, FavJobParts
<1>6. FavHolds'
  BY <1>2, <1>3, FavJobParts DEF FavHolds, Holding
<1>7. FavouritesInFolders'
  BY <1>3 DEF FavouritesInFolders, Usable
<1>8. OneDefault'
  BY <1>3 DEF OneDefault, Defaults
<1>9. FavouritesCounted'
  <2> SUFFICES ASSUME muddle' \cap {"stale", "twice"} = {}, NEW x \in Favoured
               PROVE  favCount'[x] = OthersFavs + FavouredBy(x)'
    BY DEF FavouritesCounted
  <2>1. favCount[x] = OthersFavs + FavouredBy(x) /\ OthersFavs \in Nat
    BY <1>3, FavAssumption DEF FavouritesCounted
  <2>2. CASE x # r
    <3>1. FavouredBy(x)' = FavouredBy(x)
      BY <1>3, <2>2 DEF FavouredBy
    <3> QED BY <1>2, <1>3, <2>1, <2>2, <3>1
  <2>3. CASE x = r
    <3>1. <<r, f>> \in favs /\ (j.other <=> Elsewhere(r, f))
      BY <1>3
    <3>2. FavouredBy(x) = 1
      BY <1>2, <2>3, <3>1 DEF FavouredBy
    <3>3. FavouredBy(x)' = IF j.other THEN 1 ELSE 0
      BY <1>3, <2>3, <3>1 DEF FavouredBy, Elsewhere
    <3>4. less = OthersFavs + (IF j.other THEN 1 ELSE 0) /\ Below(r, less) = less
      BY <1>4, <2>1, <2>3, <3>2 DEF Below
    <3> QED BY <1>2, <1>3, <2>3, <3>3, <3>4
  <2> QED BY <2>2, <2>3
<1> QED BY <1>5, <1>6, <1>7, <1>8, <1>9

LEMMA DeleteFolderStep ==
  ASSUME FavInv, NEW w \in FavWorker, DeleteFolderCommits(w)
  PROVE  FavInv'
<1> USE DEF FavInv, FavTypes
<1>1. PICK j, f : j = favJob[w] /\ f = j.f
  OBVIOUS
<1>2. /\ j \in FavJob /\ j.op = "drop" /\ f \in Folder /\ j.rows \subseteq Favoured
      /\ j.affected = j.rows \ j.kept
  BY <1>1, FavJobParts DEF DeleteFolderCommits, FavHolds
<1>3. /\ favs' = favs \ (Favoured \X {f})
      /\ folder' = [folder EXCEPT ![f] = "gone"]
      /\ favCount' = [r \in Favoured |-> IF r \in j.affected THEN Below(r, favCount[r] - 1)
                                         ELSE favCount[r]]
      /\ favJob' = [favJob EXCEPT ![w] = NoFavJob]
      /\ muddle \subseteq muddle'
      /\ "stale" \notin muddle' => /\ InFolder(f) = j.rows
                                   /\ {r \in j.rows : Elsewhere(r, f)} = j.kept
  BY <1>1 DEF DeleteFolderCommits, ItemsOf, Ends, Goes, Muddled
<1>4. \A r \in Favoured : favCount[r] \in Int /\ Below(r, favCount[r] - 1) \in Int
  BY DEF Below
<1>5. FavTypes'
  BY <1>2, <1>3, <1>4, FavJobParts
<1>6. FavHolds'
  BY <1>2, <1>3, FavJobParts DEF FavHolds, Holding
<1>7. FavouritesInFolders'
  BY <1>2, <1>3 DEF FavouritesInFolders, Usable
<1>8. OneDefault'
  <2>1. Defaults' \subseteq Defaults
    BY <1>2, <1>3 DEF Defaults
  <2> QED BY <1>3, <2>1 DEF OneDefault
<1>9. FavouritesCounted'
  <2> SUFFICES ASSUME muddle' \cap {"stale", "twice"} = {}, NEW x \in Favoured
               PROVE  favCount'[x] = OthersFavs + FavouredBy(x)'
    BY DEF FavouritesCounted
  <2>1. favCount[x] = OthersFavs + FavouredBy(x) /\ OthersFavs \in Nat
    BY <1>3, FavAssumption DEF FavouritesCounted
  <2>2. x \in j.affected <=> <<x, f>> \in favs /\ ~Elsewhere(x, f)
    BY <1>2, <1>3 DEF InFolder
  <2>3. \A g \in Folder : <<x, g>> \in favs' <=> <<x, g>> \in favs /\ g # f
    BY <1>3
  <2>4. CASE x \in j.affected
    <3>1. FavouredBy(x) = 1 /\ FavouredBy(x)' = 0
      BY <1>2, <2>2, <2>3, <2>4 DEF FavouredBy, Elsewhere
    <3> QED BY <1>3, <2>1, <2>4, <3>1 DEF Below
  <2>5. CASE x \notin j.affected
    <3>1. FavouredBy(x)' = FavouredBy(x)
      BY <1>2, <2>2, <2>3, <2>5 DEF FavouredBy, Elsewhere
    <3> QED BY <1>3, <2>1, <2>5, <3>1
  <2> QED BY <2>4, <2>5
<1> QED BY <1>5, <1>6, <1>7, <1>8, <1>9

\* A folder is created: one more that is in use.
LEMMA FolderMade ==
  ASSUME FavInv, NEW w \in FavWorker, NEW f \in Folder,
         Create(w, f) \/ CreatesDefault(w, f)
  PROVE  FavInv'
<1> USE DEF FavInv, FavTypes
<1>1. PICK kind \in {"plain", "default"}, job \in FavJob :
        /\ folder[f] = "absent" /\ folder' = [folder EXCEPT ![f] = kind]
        /\ favJob' = [favJob EXCEPT ![w] = job] /\ job.op \in {"idle", "add"}
        /\ UNCHANGED <<favs, favCount>>
        /\ muddle' = muddle \/ muddle' = muddle \cup {"defaults"}
        /\ kind = "default" /\ "defaults" \notin muddle' => Defaults = {}
  <2>1. CASE Create(w, f)
    <3>1. favJob[w] = NoFavJob /\ favJob' = [favJob EXCEPT ![w] = NoFavJob]
      BY <2>1 DEF Create
    <3> QED BY <2>1, <3>1, FavJobParts DEF Create
  <2>2. CASE CreatesDefault(w, f)
    <3> DEFINE job == [op |-> "add", r |-> favJob[w].r, f |-> f]
    <3>1. favJob[w].r \in Favoured
      BY <2>2, FavJobParts DEF CreatesDefault
    <3>2. job \in FavJob /\ job.op = "add"
      BY <3>1 DEF FavJob
    <3>3. favJob' = [favJob EXCEPT ![w] = job]
      BY <2>2 DEF CreatesDefault, Goes
    <3> HIDE DEF job
    <3> QED BY <2>2, <3>2, <3>3 DEF CreatesDefault, Muddled
  <2> QED BY <2>1, <2>2
<1>2. FavTypes'
  BY <1>1
<1>3. FavHolds'
  BY <1>1 DEF FavHolds, Holding
<1>4. FavouritesCounted'
  BY <1>1 DEF FavouritesCounted, FavouredBy
<1>5. FavouritesInFolders'
  BY <1>1 DEF FavouritesInFolders, Usable
<1>6. OneDefault'
  <2>1. Defaults' \subseteq Defaults \cup IF kind = "default" THEN {f} ELSE {}
    BY <1>1 DEF Defaults
  <2> QED BY <1>1, <2>1 DEF OneDefault
<1> QED BY <1>2, <1>3, <1>4, <1>5, <1>6

LEMMA FavInvNext == FavInv /\ [FavNext]_favVars => FavInv'
<1> SUFFICES ASSUME FavInv, [FavNext]_favVars PROVE FavInv'
  OBVIOUS
<1> USE DEF FavInv, FavTypes
<1>1. ASSUME NEW w \in FavWorker, NEW r \in Favoured, NEW f \in Folder, RemoveReads(w, r, f)
      PROVE  FavInv'
  <2> DEFINE job == [op |-> "remove", r |-> r, f |-> f]
  <2>1. /\ job \in FavJob /\ job.op = "remove"
        /\ favJob' = [favJob EXCEPT ![w] = job] /\ UNCHANGED <<folder, favs, favCount, muddle>>
    BY <1>1 DEF RemoveReads, Starts, FavJob
  <2> HIDE DEF job
  <2> QED BY <2>1, FavQuiet
<1>2. ASSUME NEW w \in FavWorker, NEW f \in Folder, DeleteFolderReads(w, f)
      PROVE  FavInv'
  <2> DEFINE job == [op |-> "drop", f |-> f, rows |-> InFolder(f),
                     affected |-> Affected(f), kept |-> ElsewhereToo(f)]
  <2>1. job \in FavJob
    BY DEF FavJob, InFolder, Affected, ElsewhereToo
  <2>2. job.affected = job.rows \ job.kept /\ job.op = "drop"
    BY DEF Affected, ElsewhereToo
  <2>3. /\ favJob' = [favJob EXCEPT ![w] = job] /\ UNCHANGED <<folder, favs, favCount, muddle>>
    BY <1>2 DEF DeleteFolderReads, Starts
  <2> HIDE DEF job
  <2> QED BY <2>1, <2>2, <2>3, FavQuiet
<1>3. ASSUME NEW w \in FavWorker, NEW r \in Favoured, NeedsDefault(w, r) PROVE FavInv'
  <2> DEFINE job == [op |-> "default", r |-> r]
  <2>1. /\ job \in FavJob /\ job.op = "default"
        /\ favJob' = [favJob EXCEPT ![w] = job] /\ UNCHANGED <<folder, favs, favCount, muddle>>
    BY <1>3 DEF NeedsDefault, Starts, FavJob
  <2> HIDE DEF job
  <2> QED BY <2>1, FavQuiet
<1>4. ASSUME NEW w \in FavWorker, NEW r \in Favoured, NEW f \in Folder \cup {NoFolder},
             AddChecks(w, r, f)
      PROVE  FavInv'
  <2>1. PICK g \in Folder : Starts(w, [op |-> "add", r |-> r, f |-> g])
    BY <1>4 DEF AddChecks, Defaults
  <2> DEFINE job == [op |-> "add", r |-> r, f |-> g]
  <2>2. /\ job \in FavJob /\ job.op = "add"
        /\ favJob' = [favJob EXCEPT ![w] = job] /\ UNCHANGED <<folder, favs, favCount, muddle>>
    BY <2>1 DEF Starts, FavJob
  <2> HIDE DEF job
  <2> QED BY <2>2, FavQuiet
<1>5. ASSUME NEW w \in FavWorker, AddEnds(w) PROVE FavInv'
  BY <1>5, FavQuiet, FavJobParts DEF AddEnds, Ends, Goes
<1>6. ASSUME NEW w \in FavWorker, AddInserts(w) PROVE FavInv'
  <2>1. favJob[w].r \in Favoured /\ favJob[w].f \in Folder
    BY <1>6, FavJobParts DEF AddInserts
  <2> QED BY <1>6, <2>1, FavTakes DEF AddInserts, Goes
<1>7. ASSUME NEW w \in FavWorker, RemoveDeletes(w) PROVE FavInv'
  <2>1. favJob[w].r \in Favoured /\ favJob[w].f \in Folder
    BY <1>7, FavJobParts DEF RemoveDeletes
  <2> QED BY <1>7, <2>1, FavTakes DEF RemoveDeletes, Goes
<1>8. CASE UNCHANGED favVars
  BY <1>8
  DEF favVars, FavHolds, Holding, FavouritesCounted, FavouritesInFolders, FavouredBy,
      Usable, OneDefault, Defaults
<1> QED
  BY <1>1, <1>2, <1>3, <1>4, <1>5, <1>6, <1>7, <1>8, FolderMade, AddDoneStep,
     RemoveDoneStep, DeleteFolderStep
  DEF FavNext

\* Favourites are counted once per resource and kept in folders of the user,
\* one of which is the default, but for the overlaps that each part names, for
\* any folders, resources and requests (favorite, FavoriteFolderAction).
THEOREM FavouritesAreKept == FavSpec => []FavouritesHold
<1>1. FavInv => FavouritesHold
  <2> SUFFICES ASSUME FavInv PROVE OneDefaultFolder
    BY DEF FavInv, FavouritesHold
  <2> SUFFICES ASSUME "defaults" \notin muddle PROVE Cardinality(Defaults) <= 1
    BY DEF OneDefaultFolder
  <2>1. CASE Defaults = {}
    BY <2>1, FS_EmptySet
  <2>2. ASSUME NEW f \in Defaults PROVE Cardinality(Defaults) <= 1
    <3>1. Defaults = {f}
      BY <2>2 DEF FavInv, OneDefault
    <3> QED BY <3>1, FS_Singleton
  <2> QED BY <2>1, <2>2
<1> QED BY <1>1, FavInvInit, FavInvNext, PTL DEF FavSpec

-----------------------------------------------------------------------------
(* The comments of an area and their counters.                             *)

SeenRow(S) == [status : S, top : BOOLEAN, pinned : Comment \cup {NoComment}]
AreaJob ==
  {Idle}
    \cup [op : {"add"}, c : Comment, root : Comment \cup {NoComment}, seq : Nat]
    \cup [op : {"delete"}, c : Comment, seen : SeenRow(Status \ {"absent", "deleted"})]
    \cup [op : {"top"}, c : Comment, on : BOOLEAN, seen : SeenRow({"normal"}),
          old : BOOLEAN]
    \cup [op : {"set"}, c : Comment, to : {"normal", "rejected", "hidden"},
          seen : SeenRow(Status \ {"absent"})]
    \cup [op : {"sync"}, c : Comment, delta : {-1, 1}]
    \cup [op : {"write"}, c : Comment, delta : {-1, 1}, all : Int, root : Int]
    \cup [op : {"hide"}, c : Comment, seen : SeenRow(Status \ {"absent"})]
    \cup [op : {"recount"}, all : Nat, root : Nat, row : Int \X Int, stat : Nat]

AreaTypes ==
  /\ status \in [Comment -> Status]
  /\ rootOf \in [Comment -> Comment \cup {NoComment}]
  /\ topBit \in [Comment -> BOOLEAN]
  /\ floor \in [Comment -> Nat]
  /\ rcount \in [Comment -> Int]
  /\ subject \in Subject
  /\ commentCount \in Nat
  /\ request \in [AreaWorker -> AreaJob]
  /\ cause \subseteq Cause

OnAComment == {"delete", "top", "set", "sync", "write", "hide"}

\* A comment that is being added is added by one request and not stored yet;
\* any other request is about a stored one.
RequestsFit ==
  \A w \in AreaWorker :
    /\ request[w].op = "add" =>
         /\ status[request[w].c] = "absent"
         /\ \A v \in AreaWorker :
              request[v].op = "add" /\ request[v].c = request[w].c => v = w
    /\ request[w].op \in OnAComment => status[request[w].c] # "absent"

\* Decisions of which the counters do not know yet, by what they add.
Owed(d) == {w \in Syncing : request[w].delta = d}
OwedRoot(d) == {w \in Owed(d) : IsRoot(request[w].c)}

AreaFinite == IsFiniteSet(Stored) /\ IsFiniteSet(Syncing)

CountersExact ==
  cause \cap Repaired = {}
    => /\ subject.all + Cardinality(Owed(1)) - Cardinality(Owed(-1))
            = Cardinality(Visible)
       /\ subject.root + Cardinality(OwedRoot(1)) - Cardinality(OwedRoot(-1))
            = Cardinality(VisibleRoots)
       /\ commentCount = subject.all

CountersEnough ==
  cause \cap Repaired \subseteq {"takedown"}
    => subject.all + Cardinality(Owed(1)) - Cardinality(Owed(-1))
         >= Cardinality(Visible)

FloorsGiven == "floor" \notin cause => \A c \in Stored : floor[c] <= subject.seq

\* The replies that count, by the rows' status and root.
Replies(st, root, c) ==
  {d \in Comment : st[d] \notin {"absent", "deleted"} /\ root[d] = c}

\* The inductive invariant.
AreaInv ==
  /\ AreaTypes /\ RequestsFit /\ AreaFinite
  /\ CountersExact /\ CountersEnough
  /\ RepliesCounted /\ FloorsGiven /\ FloorsDistinct /\ TopIsMarked

\* Sets that differ in one element at most.
LEMMA CountMoves ==
  ASSUME NEW S, NEW T, NEW x, IsFiniteSet(S), T \ {x} = S \ {x}
  PROVE  /\ IsFiniteSet(T)
         /\ Cardinality(S) \in Nat /\ Cardinality(T) \in Nat
         /\ Cardinality(T) = Cardinality(S) + One(x \in T) - One(x \in S)
<1> DEFINE R == S \ {x}
<1>1. /\ IsFiniteSet(R)
      /\ Cardinality(R) = IF x \in S THEN Cardinality(S) - 1 ELSE Cardinality(S)
  BY FS_RemoveElement
<1>2. /\ IsFiniteSet(R \cup {x})
      /\ Cardinality(R \cup {x}) = Cardinality(R) + 1
  BY <1>1, FS_AddElement
<1>3. T = IF x \in T THEN R \cup {x} ELSE R
  OBVIOUS
<1>4. /\ IsFiniteSet(T)
      /\ Cardinality(T) = IF x \in T THEN Cardinality(R) + 1 ELSE Cardinality(R)
  <2>1. CASE x \in T
    BY <1>1, <1>2, <1>3, <2>1
  <2>2. CASE x \notin T
    BY <1>1, <1>3, <2>2
  <2> QED BY <2>1, <2>2
<1>5. Cardinality(S) \in Nat /\ Cardinality(T) \in Nat
  BY <1>4, FS_CardinalityType
<1> HIDE DEF R
<1> QED BY <1>1, <1>4, <1>5 DEF One

\* What the updates of the area row leave.
LEMMA RowAfterAdd ==
  ASSUME NEW x \in Subject, NEW n, NEW a, NEW b
  PROVE  [x EXCEPT !.seq = n, !.all = a, !.root = b]
           = [all |-> a, root |-> b, seq |-> n, top |-> x.top]
<1> DEFINE y == [x EXCEPT !.seq = n, !.all = a, !.root = b]
<1>1. /\ x = [all |-> x.all, root |-> x.root, seq |-> x.seq, top |-> x.top]
      /\ DOMAIN x = {"all", "root", "seq", "top"}
  BY DEF Subject
<1>2. /\ y.all = a /\ y.root = b /\ y.seq = n /\ y.top = x.top
      /\ DOMAIN y = DOMAIN x
  BY <1>1, Zenon
<1>3. y = [f \in DOMAIN y |-> y[f]]
  BY Zenon
<1>4. y = [all |-> y.all, root |-> y.root, seq |-> y.seq, top |-> y.top]
  <2> HIDE DEF y
  <2> QED BY <1>1, <1>2, <1>3
<1> QED BY <1>2, <1>4

LEMMA RowAfterDelete ==
  ASSUME NEW x \in Subject, NEW a, NEW b, NEW t
  PROVE  [x EXCEPT !.all = a, !.root = b, !.top = t]
           = [all |-> a, root |-> b, seq |-> x.seq, top |-> t]
<1> DEFINE y == [x EXCEPT !.all = a, !.root = b, !.top = t]
<1>1. /\ x = [all |-> x.all, root |-> x.root, seq |-> x.seq, top |-> x.top]
      /\ DOMAIN x = {"all", "root", "seq", "top"}
  BY DEF Subject
<1>2. /\ y.all = a /\ y.root = b /\ y.seq = x.seq /\ y.top = t
      /\ DOMAIN y = DOMAIN x
  BY <1>1, Zenon
<1>3. y = [f \in DOMAIN y |-> y[f]]
  BY Zenon
<1>4. y = [all |-> y.all, root |-> y.root, seq |-> y.seq, top |-> y.top]
  <2> HIDE DEF y
  <2> QED BY <1>1, <1>2, <1>3
<1> QED BY <1>2, <1>4

LEMMA RowAfterCount ==
  ASSUME NEW x \in Subject, NEW a, NEW b
  PROVE  [x EXCEPT !.all = a, !.root = b]
           = [all |-> a, root |-> b, seq |-> x.seq, top |-> x.top]
<1> DEFINE y == [x EXCEPT !.all = a, !.root = b]
<1>1. /\ x = [all |-> x.all, root |-> x.root, seq |-> x.seq, top |-> x.top]
      /\ DOMAIN x = {"all", "root", "seq", "top"}
  BY DEF Subject
<1>2. /\ y.all = a /\ y.root = b /\ y.seq = x.seq /\ y.top = x.top
      /\ DOMAIN y = DOMAIN x
  BY <1>1, Zenon
<1>3. y = [f \in DOMAIN y |-> y[f]]
  BY Zenon
<1>4. y = [all |-> y.all, root |-> y.root, seq |-> y.seq, top |-> y.top]
  <2> HIDE DEF y
  <2> QED BY <1>1, <1>2, <1>3
<1> QED BY <1>2, <1>4

LEMMA AreaJobParts ==
  \A j \in AreaJob :
    /\ j.op \in OnAComment \cup {"add"} => j.c \in Comment
    /\ j.op = "add" => j.root \in Comment \cup {NoComment} /\ j.seq \in Nat
    /\ j.op \in {"sync", "write"} => j.delta \in {-1, 1}
    /\ j.op = "write" => j.all \in Int /\ j.root \in Int
    /\ j.op = "delete" => j.seen \in SeenRow(Status \ {"absent", "deleted"})
    /\ j.op = "top" => /\ j.seen \in SeenRow({"normal"})
                       /\ j.on \in BOOLEAN /\ j.old \in BOOLEAN
    /\ j.op = "set" => /\ j.seen \in SeenRow(Status \ {"absent"})
                       /\ j.to \in {"normal", "rejected", "hidden"}
    /\ j.op = "hide" => j.seen \in SeenRow(Status \ {"absent"})
    /\ j.op = "recount" => /\ j.all \in Nat /\ j.root \in Nat /\ j.stat \in Nat
                           /\ j.row \in Int \X Int
<1> TAKE j \in AreaJob
<1> QED BY DEF AreaJob, OnAComment, Idle

\* The row of one comment changes.
LEMMA RowMoves ==
  ASSUME AreaTypes, AreaFinite, NEW c \in Comment, NEW s \in Status,
         NEW r \in Comment \cup {NoComment},
         status' = [status EXCEPT ![c] = s], rootOf' = [rootOf EXCEPT ![c] = r]
  PROVE  /\ IsFiniteSet(Stored')
         /\ Cardinality(Visible) \in Nat /\ Cardinality(Visible') \in Nat
         /\ Cardinality(VisibleRoots) \in Nat /\ Cardinality(VisibleRoots') \in Nat
         /\ Cardinality(Visible')
              = Cardinality(Visible) + One(s = "normal") - One(status[c] = "normal")
         /\ Cardinality(VisibleRoots')
              = Cardinality(VisibleRoots)
                  + One(s = "normal" /\ r = NoComment)
                  - One(status[c] = "normal" /\ IsRoot(c))
         /\ \A d \in Comment :
              /\ Cardinality(Replies(status, rootOf, d)) \in Nat
              /\ Cardinality(Replies(status', rootOf', d))
                   = Cardinality(Replies(status, rootOf, d))
                       + One(c \in Replies(status', rootOf', d))
                       - One(c \in Replies(status, rootOf, d))
<1>1. /\ c \in Visible <=> status[c] = "normal"
      /\ c \in Visible' <=> s = "normal"
      /\ c \in VisibleRoots <=> status[c] = "normal" /\ IsRoot(c)
      /\ c \in VisibleRoots' <=> s = "normal" /\ r = NoComment
      /\ Visible' \ {c} = Visible \ {c}
      /\ VisibleRoots' \ {c} = VisibleRoots \ {c}
      /\ Stored' \ {c} = Stored \ {c}
      /\ Visible \subseteq Stored /\ VisibleRoots \subseteq Stored
  BY DEF AreaTypes, Visible, VisibleRoots, Stored, IsRoot
<1>2. IsFiniteSet(Visible) /\ IsFiniteSet(VisibleRoots) /\ IsFiniteSet(Stored)
  BY <1>1, FS_Subset DEF AreaFinite
<1>3. IsFiniteSet(Stored')
  BY <1>1, <1>2, CountMoves
<1>4. /\ Cardinality(Visible) \in Nat /\ Cardinality(Visible') \in Nat
      /\ Cardinality(Visible')
           = Cardinality(Visible) + One(c \in Visible') - One(c \in Visible)
  BY <1>1, <1>2, CountMoves
<1>5. /\ Cardinality(VisibleRoots) \in Nat /\ Cardinality(VisibleRoots') \in Nat
      /\ Cardinality(VisibleRoots')
           = Cardinality(VisibleRoots)
               + One(c \in VisibleRoots') - One(c \in VisibleRoots)
  BY <1>1, <1>2, CountMoves
<1>6. ASSUME NEW d \in Comment
      PROVE  /\ Cardinality(Replies(status, rootOf, d)) \in Nat
             /\ Cardinality(Replies(status', rootOf', d))
                  = Cardinality(Replies(status, rootOf, d))
                      + One(c \in Replies(status', rootOf', d))
                      - One(c \in Replies(status, rootOf, d))
  <2>1. /\ Replies(status, rootOf, d) \subseteq Stored
        /\ Replies(status', rootOf', d) \ {c} = Replies(status, rootOf, d) \ {c}
        /\ c \in Replies(status', rootOf', d) <=> s \notin {"absent", "deleted"} /\ r = d
        /\ c \in Replies(status, rootOf, d) <=> /\ status[c] \notin {"absent", "deleted"}
                                /\ rootOf[c] = d
    BY DEF AreaTypes, Replies, Stored
  <2>2. IsFiniteSet(Replies(status, rootOf, d))
    BY <1>2, <2>1, FS_Subset
  <2>3. PICK S, T : S = Replies(status, rootOf, d) /\ T = Replies(status', rootOf', d)
    OBVIOUS
  <2>4. /\ Cardinality(S) \in Nat
        /\ Cardinality(T) = Cardinality(S) + One(c \in T) - One(c \in S)
    <3>1. IsFiniteSet(S) /\ T \ {c} = S \ {c}
      BY <2>1, <2>2, <2>3
    <3> QED BY <3>1, CountMoves
  <2> QED BY <2>3, <2>4
<1> QED BY <1>1, <1>3, <1>4, <1>5, <1>6 DEF One

Syncs(j) == j.op \in {"sync", "write"}

\* The request of one worker changes.
LEMMA OwedMoves ==
  ASSUME AreaTypes, RequestsFit, AreaFinite, NEW w \in AreaWorker, NEW j \in AreaJob,
         request' = [request EXCEPT ![w] = j],
         \A c \in Comment : status[c] # "absent" => rootOf'[c] = rootOf[c],
         Syncs(j) => status[j.c] # "absent"
  PROVE  /\ IsFiniteSet(Syncing')
         /\ \A d \in {-1, 1} :
              /\ Cardinality(Owed(d)) \in Nat /\ Cardinality(Owed(d)') \in Nat
              /\ Cardinality(OwedRoot(d)) \in Nat /\ Cardinality(OwedRoot(d)') \in Nat
              /\ Cardinality(Owed(d)')
                   = Cardinality(Owed(d))
                       + One(Syncs(j) /\ j.delta = d)
                       - One(Syncs(request[w]) /\ request[w].delta = d)
              /\ Cardinality(OwedRoot(d)')
                   = Cardinality(OwedRoot(d))
                       + One(Syncs(j) /\ j.delta = d /\ IsRoot(j.c))
                       - One(/\ Syncs(request[w]) /\ request[w].delta = d
                             /\ IsRoot(request[w].c))
<1>1. /\ \A v \in AreaWorker : request[v] \in AreaJob
      /\ \A v \in AreaWorker : request'[v] = IF v = w THEN j ELSE request[v]
  BY DEF AreaTypes
<1>2. \A v \in AreaWorker : Syncs(request[v]) =>
        request[v].c \in Comment /\ status[request[v].c] # "absent"
  BY <1>1, AreaJobParts DEF RequestsFit, Syncs, OnAComment
<1>3. Syncs(j) => j.c \in Comment
  BY AreaJobParts DEF Syncs, OnAComment
<1>4. /\ Syncing' \ {w} = Syncing \ {w}
      /\ Syncing = {v \in AreaWorker : Syncs(request[v])}
      /\ Syncing' = {v \in AreaWorker : Syncs(request'[v])}
  BY <1>1 DEF Syncing, Syncs
<1>5. IsFiniteSet(Syncing')
  BY <1>4, CountMoves DEF AreaFinite
<1>6. ASSUME NEW d \in {-1, 1}
      PROVE  /\ Owed(d)' \ {w} = Owed(d) \ {w}
             /\ OwedRoot(d)' \ {w} = OwedRoot(d) \ {w}
             /\ w \in Owed(d)' <=> Syncs(j) /\ j.delta = d
             /\ w \in Owed(d) <=> Syncs(request[w]) /\ request[w].delta = d
             /\ w \in OwedRoot(d)' <=> Syncs(j) /\ j.delta = d /\ IsRoot(j.c)
             /\ w \in OwedRoot(d) <=> /\ Syncs(request[w]) /\ request[w].delta = d
                                      /\ IsRoot(request[w].c)
  BY <1>1, <1>2, <1>3, <1>4 DEF Owed, OwedRoot, IsRoot
<1>7. ASSUME NEW d \in {-1, 1}
      PROVE  IsFiniteSet(Owed(d)) /\ IsFiniteSet(OwedRoot(d))
  <2>1. Owed(d) \subseteq Syncing /\ OwedRoot(d) \subseteq Syncing
    BY DEF Owed, OwedRoot
  <2> QED BY <2>1, FS_Subset DEF AreaFinite
<1>8. ASSUME NEW d \in {-1, 1}
      PROVE  /\ Cardinality(Owed(d)) \in Nat /\ Cardinality(Owed(d)') \in Nat
             /\ Cardinality(Owed(d)')
                  = Cardinality(Owed(d)) + One(w \in Owed(d)') - One(w \in Owed(d))
  BY <1>6, <1>7, CountMoves
<1>9. ASSUME NEW d \in {-1, 1}
      PROVE  /\ Cardinality(OwedRoot(d)) \in Nat /\ Cardinality(OwedRoot(d)') \in Nat
             /\ Cardinality(OwedRoot(d)')
                  = Cardinality(OwedRoot(d))
                      + One(w \in OwedRoot(d)') - One(w \in OwedRoot(d))
  BY <1>6, <1>7, CountMoves
<1> QED BY <1>5, <1>6, <1>8, <1>9 DEF One

LEMMA FitKept ==
  ASSUME AreaTypes, RequestsFit, NEW w \in AreaWorker, NEW j \in AreaJob,
         request' = [request EXCEPT ![w] = j], j.op # "add",
         \A c \in Comment : status[c] # "absent" => status'[c] # "absent",
         \A c \in Comment : status[c] = "absent" =>
           \/ status'[c] = status[c]
           \/ request[w].op = "add" /\ c = request[w].c,
         j.op \in OnAComment => status'[j.c] # "absent"
  PROVE  RequestsFit'
<1>1. /\ \A v \in AreaWorker : request[v] \in AreaJob
      /\ \A v \in AreaWorker : request'[v] = IF v = w THEN j ELSE request[v]
  BY DEF AreaTypes
<1>2. \A v \in AreaWorker : request[v].op \in OnAComment \cup {"add"} =>
        request[v].c \in Comment
  BY <1>1, AreaJobParts
<1> QED BY <1>1, <1>2 DEF RequestsFit

LEMMA Submitted ==
  ASSUME AreaInv, NEW w \in AreaWorker, NEW j \in AreaJob, Submit(w, j), ~Syncs(j),
         j.op = "add" =>
           /\ status[j.c] = "absent"
           /\ \A v \in AreaWorker : request[v].op = "add" => request[v].c # j.c,
         j.op \in OnAComment => status[j.c] # "absent"
  PROVE  AreaInv'
<1> USE DEF AreaInv
<1>1. /\ request[w] = Idle /\ request' = [request EXCEPT ![w] = j]
      /\ UNCHANGED <<status, rootOf, topBit, floor, rcount, subject, commentCount,
                     cause>>
  BY DEF Submit
<1>2. ~Syncs(request[w])
  BY <1>1 DEF Syncs, Idle
<1>3. AreaTypes'
  BY <1>1 DEF AreaTypes
<1>4. RequestsFit'
  <2>1. /\ \A v \in AreaWorker : request[v] \in AreaJob
        /\ \A v \in AreaWorker : request'[v] = IF v = w THEN j ELSE request[v]
    BY <1>1 DEF AreaTypes
  <2> QED BY <1>1, <2>1 DEF RequestsFit
<1>5. /\ IsFiniteSet(Syncing')
      /\ \A d \in {-1, 1} : /\ Cardinality(Owed(d)') = Cardinality(Owed(d))
                            /\ Cardinality(OwedRoot(d)') = Cardinality(OwedRoot(d))
  <2>1. \A c \in Comment : status[c] # "absent" => rootOf'[c] = rootOf[c]
    BY <1>1
  <2>2. AreaTypes /\ RequestsFit /\ AreaFinite
    OBVIOUS
  <2>3. /\ IsFiniteSet(Syncing')
        /\ \A d \in {-1, 1} :
              /\ Cardinality(Owed(d)) \in Nat /\ Cardinality(OwedRoot(d)) \in Nat
              /\ Cardinality(Owed(d)') = Cardinality(Owed(d)) + One(FALSE) - One(FALSE)
              /\ Cardinality(OwedRoot(d)')
                   = Cardinality(OwedRoot(d)) + One(FALSE) - One(FALSE)
    BY <1>1, <1>2, <2>1, <2>2, OwedMoves DEF One
  <2> QED BY <2>3 DEF One
<1>6. /\ Visible' = Visible /\ VisibleRoots' = VisibleRoots /\ Stored' = Stored
  BY <1>1 DEF Visible, VisibleRoots, Stored
<1>7. AreaFinite' /\ CountersExact' /\ CountersEnough'
  BY <1>1, <1>5, <1>6 DEF AreaFinite, CountersExact, CountersEnough
<1>8. RepliesCounted' /\ FloorsGiven' /\ FloorsDistinct' /\ TopIsMarked'
  BY <1>1, <1>6 DEF RepliesCounted, FloorsGiven, FloorsDistinct, TopIsMarked
<1> QED BY <1>3, <1>4, <1>7, <1>8

LEMMA ReadsStep ==
  ASSUME AreaInv, NEW w \in AreaWorker, NEW c \in Comment,
         \/ \E r \in Comment \cup {NoComment} : AddReads(w, c, r)
         \/ DeleteReads(w, c)
         \/ \E on \in BOOLEAN : TopReads(w, c, on)
         \/ \E to \in Status : SetReads(w, c, to)
         \/ HideReads(w, c)
  PROVE  AreaInv'
<1> USE DEF OnAComment, Syncs
<1>0. /\ status[c] \in Status
      /\ Row(c) = [status |-> status[c], top |-> topBit[c], pinned |-> subject.top]
      /\ topBit[c] \in BOOLEAN /\ subject.top \in Comment \cup {NoComment}
      /\ subject.seq \in Nat
      /\ \A S : status[c] \in S => Row(c) \in SeenRow(S)
  BY DEF AreaInv, AreaTypes, Row, SeenRow, Subject
<1> HIDE DEF Row
<1>1. ASSUME NEW r \in Comment \cup {NoComment}, AddReads(w, c, r) PROVE AreaInv'
  <2>1. PICK j : j = [op |-> "add", c |-> c, root |-> r, seq |-> subject.seq]
    OBVIOUS
  <2>2. j \in AreaJob /\ Submit(w, j)
    BY <1>1, <2>1, <1>0 DEF AreaJob, AddReads
  <2> QED BY <1>1, <2>1, <2>2, Submitted DEF AddReads
<1>2. CASE DeleteReads(w, c)
  <2>1. PICK j : j = [op |-> "delete", c |-> c, seen |-> Row(c)]
    OBVIOUS
  <2>2. j \in AreaJob /\ Submit(w, j)
    BY <1>2, <2>1, <1>0 DEF AreaJob, DeleteReads
  <2> QED BY <1>2, <2>1, <2>2, Submitted DEF DeleteReads
<1>3. ASSUME NEW on \in BOOLEAN, TopReads(w, c, on) PROVE AreaInv'
  <2>1. PICK j : j = [op |-> "top", c |-> c, on |-> on, seen |-> Row(c),
                old |-> subject.top # NoComment /\ topBit[subject.top]]
    OBVIOUS
  <2>2. j \in AreaJob /\ Submit(w, j) /\ status[c] = "normal"
    <3>1. status[c] = "normal" /\ Submit(w, j)
      BY <1>3, <2>1 DEF TopReads, VisibleRoots, Visible
    <3>2. j.old \in BOOLEAN /\ Row(c) \in SeenRow({"normal"})
      BY <1>0, <2>1, <3>1 DEF AreaInv, AreaTypes
    <3>3. j \in [op : {"top"}, c : Comment, on : BOOLEAN, seen : SeenRow({"normal"}),
                 old : BOOLEAN]
      BY <2>1, <3>2
    <3> QED BY <3>1, <3>3 DEF AreaJob
  <2> QED BY <2>1, <2>2, Submitted
<1>4. ASSUME NEW to \in Status, SetReads(w, c, to) PROVE AreaInv'
  <2>1. PICK j : j = [op |-> "set", c |-> c, to |-> to, seen |-> Row(c)]
    OBVIOUS
  <2>2. j \in AreaJob /\ Submit(w, j) /\ status[c] # "absent"
    BY <1>4, <2>1, <1>0 DEF AreaJob, SetReads, Stored
  <2> QED BY <2>1, <2>2, Submitted
<1>5. CASE HideReads(w, c)
  <2>1. PICK j : j = [op |-> "hide", c |-> c, seen |-> Row(c)]
    OBVIOUS
  <2>2. j \in AreaJob /\ Submit(w, j) /\ status[c] # "absent"
    BY <1>5, <2>1, <1>0 DEF AreaJob, HideReads, Stored
  <2> QED BY <2>1, <2>2, Submitted
<1> QED BY <1>1, <1>2, <1>3, <1>4, <1>5

LEMMA RecountReadsStep ==
  ASSUME AreaInv, NEW w \in AreaWorker, RecountReads(w)
  PROVE  AreaInv'
<1>1. PICK j : j = [op |-> "recount",
             all |-> Cardinality(Visible), root |-> Cardinality(VisibleRoots),
             row |-> <<subject.all, subject.root>>, stat |-> commentCount]
  OBVIOUS
<1>2. Cardinality(Visible) \in Nat /\ Cardinality(VisibleRoots) \in Nat
  <2>1. Visible \subseteq Stored /\ VisibleRoots \subseteq Stored
    BY DEF Visible, VisibleRoots, Stored
  <2>2. IsFiniteSet(Visible) /\ IsFiniteSet(VisibleRoots)
    BY <2>1, FS_Subset DEF AreaInv, AreaFinite
  <2> QED BY <2>2, FS_CardinalityType
<1>3. subject.all \in Int /\ subject.root \in Int /\ commentCount \in Nat
  BY DEF AreaInv, AreaTypes, Subject
<1>4. j \in AreaJob /\ Submit(w, j)
  BY <1>1, <1>2, <1>3 DEF AreaJob, RecountReads
<1> QED BY <1>1, <1>4, Submitted DEF Syncs, OnAComment

\* A request that is no synchronisation is answered.
LEMMA OwedSame ==
  ASSUME AreaInv, NEW w \in AreaWorker, Finish(w), ~Syncs(request[w]),
         \A c \in Comment : status[c] # "absent" => rootOf'[c] = rootOf[c]
  PROVE  /\ IsFiniteSet(Syncing')
         /\ \A d \in {-1, 1} :
              /\ Cardinality(Owed(d)) \in Nat /\ Cardinality(OwedRoot(d)) \in Nat
              /\ Cardinality(Owed(d)') = Cardinality(Owed(d))
              /\ Cardinality(OwedRoot(d)') = Cardinality(OwedRoot(d))
<1>1. Idle \in AreaJob /\ ~Syncs(Idle) /\ request' = [request EXCEPT ![w] = Idle]
  BY DEF AreaJob, Syncs, Idle, Finish
<1>2. AreaTypes /\ RequestsFit /\ AreaFinite
  BY DEF AreaInv
<1>3. /\ IsFiniteSet(Syncing')
      /\ \A d \in {-1, 1} :
           /\ Cardinality(Owed(d)) \in Nat /\ Cardinality(OwedRoot(d)) \in Nat
           /\ Cardinality(Owed(d)') = Cardinality(Owed(d)) + One(FALSE) - One(FALSE)
           /\ Cardinality(OwedRoot(d)')
                = Cardinality(OwedRoot(d)) + One(FALSE) - One(FALSE)
  BY <1>1, <1>2, OwedMoves DEF One
<1> QED BY <1>3 DEF One

LEMMA AnswerFits ==
  ASSUME AreaTypes, RequestsFit, NEW w \in AreaWorker, Finish(w),
         \A c \in Comment : status[c] # "absent" => status'[c] # "absent",
         \A c \in Comment : status[c] = "absent" =>
           \/ status'[c] = status[c]
           \/ request[w].op = "add" /\ c = request[w].c
  PROVE  RequestsFit' /\ request' \in [AreaWorker -> AreaJob]
<1>1. Idle \in AreaJob /\ request' = [request EXCEPT ![w] = Idle]
      /\ Idle.op = "idle"
  BY DEF AreaJob, Idle, Finish
<1>2. RequestsFit'
  BY <1>1, FitKept DEF OnAComment
<1> QED BY <1>1, <1>2 DEF AreaTypes

LEMMA AddCommitsStep ==
  ASSUME AreaInv, NEW w \in AreaWorker, NEW s \in Status, AddCommits(w, s)
  PROVE  AreaInv'
<1>0. PICK j : j = request[w]
  OBVIOUS
<1>1. /\ j \in AreaJob /\ j.op = "add" /\ status[j.c] = "absent"
      /\ j.c \in Comment /\ j.root \in Comment \cup {NoComment} /\ j.seq \in Nat
      /\ ~Syncs(request[w])
  BY <1>0, AreaJobParts DEF AreaInv, AreaTypes, RequestsFit, AddCommits, Syncs
<1>2. AreaTypes /\ AreaFinite /\ RequestsFit
  BY DEF AreaInv
<1>3. /\ s \in {"normal", "auditing", "rejected"}
      /\ status' = [status EXCEPT ![j.c] = s]
      /\ rootOf' = [rootOf EXCEPT ![j.c] = j.root]
      /\ floor' = [floor EXCEPT ![j.c] = j.seq + 1]
      /\ subject'.seq = subject.seq + 1
      /\ subject'.all = subject.all + One(s = "normal")
      /\ subject'.root = subject.root + One(s = "normal" /\ j.root = NoComment)
      /\ subject'.top = subject.top
      /\ subject' \in Subject
      /\ commentCount' = commentCount + One(s = "normal")
      /\ rcount' = [c \in Comment |-> rcount[c] + One(j.root = c)]
      /\ cause' = cause \cup If(subject.seq # j.seq, "floor")
      /\ Finish(w) /\ topBit' = topBit
  <2>1. subject' = [subject EXCEPT
                      !.seq = subject.seq + 1,
                      !.all = subject.all + One(s = "normal"),
                      !.root = subject.root
                        + IF j.root = NoComment THEN One(s = "normal") ELSE 0]
    BY <1>0 DEF AddCommits, FloorStep
  <2>2. subject \in Subject /\ subject.all \in Int /\ subject.root \in Int
          /\ subject.seq \in Nat /\ subject.top \in Comment \cup {NoComment}
    BY <1>2 DEF AreaTypes, Subject
  <2>3. subject' = [all |-> subject.all + One(s = "normal"),
                    root |-> subject.root
                        + IF j.root = NoComment THEN One(s = "normal") ELSE 0,
                    seq |-> subject.seq + 1, top |-> subject.top]
    <3>1. PICK n, a, b : /\ n = subject.seq + 1 /\ a = subject.all + One(s = "normal")
                         /\ b = subject.root
                              + IF j.root = NoComment THEN One(s = "normal") ELSE 0
      OBVIOUS
    <3>2. subject' = [subject EXCEPT !.seq = n, !.all = a, !.root = b]
      BY <2>1, <3>1
    <3>3. subject' = [all |-> a, root |-> b, seq |-> n, top |-> subject.top]
      BY <2>2, <3>2, RowAfterAdd
    <3> QED BY <3>1, <3>3
  <2>4. /\ subject' \in Subject
        /\ subject'.root = subject.root + One(s = "normal" /\ j.root = NoComment)
    BY <2>2, <2>3 DEF Subject, One
  <2> QED BY <1>0, <1>2, <2>3, <2>4 DEF AddCommits, FloorStep, Meets, One, AreaTypes
<1>4. /\ IsFiniteSet(Syncing')
      /\ \A d \in {-1, 1} :
           /\ Cardinality(Owed(d)) \in Nat /\ Cardinality(OwedRoot(d)) \in Nat
           /\ Cardinality(Owed(d)') = Cardinality(Owed(d))
           /\ Cardinality(OwedRoot(d)') = Cardinality(OwedRoot(d))
  BY <1>1, <1>2, <1>3, OwedSame DEF AreaTypes
<1>5. /\ IsFiniteSet(Stored')
      /\ Cardinality(Visible) \in Nat /\ Cardinality(VisibleRoots) \in Nat
      /\ Cardinality(Visible') = Cardinality(Visible) + One(s = "normal")
      /\ Cardinality(VisibleRoots')
           = Cardinality(VisibleRoots) + One(s = "normal" /\ j.root = NoComment)
      /\ \A d \in Comment :
           /\ Cardinality(Replies(status, rootOf, d)) \in Nat
           /\ Cardinality(Replies(status', rootOf', d)) = Cardinality(Replies(status, rootOf, d)) + One(j.root = d)
  <2>1. s \in Status /\ s \notin {"absent", "deleted"} /\ status[j.c] # "normal"
    BY <1>1, <1>3
  <2>2. /\ IsFiniteSet(Stored')
        /\ Cardinality(Visible) \in Nat /\ Cardinality(VisibleRoots) \in Nat
        /\ Cardinality(Visible')
             = Cardinality(Visible) + One(s = "normal") - One(FALSE)
        /\ Cardinality(VisibleRoots')
             = Cardinality(VisibleRoots) + One(s = "normal" /\ j.root = NoComment)
                 - One(FALSE)
        /\ \A d \in Comment :
             /\ Cardinality(Replies(status, rootOf, d)) \in Nat
             /\ Cardinality(Replies(status', rootOf', d))
                  = Cardinality(Replies(status, rootOf, d)) + One(j.root = d) - One(FALSE)
    <3>1. /\ IsFiniteSet(Stored')
          /\ Cardinality(Visible) \in Nat /\ Cardinality(VisibleRoots) \in Nat
          /\ Cardinality(Visible')
               = Cardinality(Visible) + One(s = "normal") - One(status[j.c] = "normal")
          /\ Cardinality(VisibleRoots')
               = Cardinality(VisibleRoots)
                   + One(s = "normal" /\ j.root = NoComment)
                   - One(status[j.c] = "normal" /\ IsRoot(j.c))
          /\ \A d \in Comment :
               /\ Cardinality(Replies(status, rootOf, d)) \in Nat
               /\ Cardinality(Replies(status', rootOf', d))
                    = Cardinality(Replies(status, rootOf, d))
                        + One(j.c \in Replies(status', rootOf', d))
                        - One(j.c \in Replies(status, rootOf, d))
      <4>1. /\ j.c \in Comment /\ s \in Status /\ j.root \in Comment \cup {NoComment}
            /\ AreaTypes /\ AreaFinite
            /\ status' = [status EXCEPT ![j.c] = s]
            /\ rootOf' = [rootOf EXCEPT ![j.c] = j.root]
        BY <1>1, <1>2, <1>3
      <4> QED BY <4>1, RowMoves, Zenon
    <3>2. \A d \in Comment :
            /\ j.c \in Replies(status', rootOf', d) <=> j.root = d
            /\ j.c \notin Replies(status, rootOf, d)
      BY <1>1, <1>2, <1>3, <2>1 DEF Replies, AreaTypes
    <3> QED BY <1>1, <2>1, <3>1, <3>2 DEF One
  <2> QED BY <2>2 DEF One
<1>6. RequestsFit' /\ request' \in [AreaWorker -> AreaJob]
  BY <1>0, <1>1, <1>2, <1>3, AnswerFits DEF AreaTypes
<1>7. AreaTypes'
  BY <1>1, <1>2, <1>3, <1>6 DEF AreaTypes, One, If, Cause
<1>8. cause \subseteq cause' /\ cause' \cap Repaired = cause \cap Repaired
  BY <1>3 DEF If, Repaired
<1>9. CountersExact'
  BY <1>2, <1>3, <1>4, <1>5, <1>8 DEF AreaInv, CountersExact, One, AreaTypes, Subject
<1>10. CountersEnough'
  BY <1>2, <1>3, <1>4, <1>5, <1>8 DEF AreaInv, CountersEnough, One, AreaTypes, Subject
<1>11. RepliesCounted'
  <2>1. SUFFICES ASSUME cause' \cap {"tree", "revived"} = {}, NEW c \in Comment
                 PROVE  rcount'[c] = Cardinality(Replies(status', rootOf', c))
    BY DEF RepliesCounted, Replies, Stored
  <2>2. rcount[c] = Cardinality(Replies(status, rootOf, c))
    BY <1>8, <2>1 DEF AreaInv, RepliesCounted, Replies, Stored
  <2> QED BY <1>3, <1>5, <2>2
<1>12. FloorsGiven' /\ FloorsDistinct'
  <2>1. SUFFICES ASSUME "floor" \notin cause' PROVE FloorsGiven' /\ FloorsDistinct'
    BY DEF FloorsGiven, FloorsDistinct
  <2>2. j.seq = subject.seq /\ "floor" \notin cause
    BY <1>3, <2>1 DEF If
  <2>3. Stored' = Stored \cup {j.c} /\ j.c \notin Stored
    BY <1>1, <1>2, <1>3 DEF Stored, AreaTypes
  <2>4. subject.seq \in Nat /\ \A c \in Comment : floor[c] \in Nat
    BY <1>2 DEF AreaTypes, Subject
  <2>5. \A c \in Stored : floor[c] <= subject.seq /\ floor'[c] = floor[c] /\ c \in Comment
    BY <1>2, <1>3, <2>2, <2>3 DEF AreaInv, FloorsGiven, AreaTypes, Stored
  <2>6. floor'[j.c] = subject.seq + 1
    BY <1>1, <1>2, <1>3, <2>2 DEF AreaTypes
  <2> QED BY <1>3, <2>2, <2>3, <2>4, <2>5, <2>6 DEF AreaInv, FloorsGiven, FloorsDistinct
<1>13. TopIsMarked'
  BY <1>1, <1>2, <1>3, <1>8 DEF AreaInv, TopIsMarked, AreaTypes, Subject
<1> QED BY <1>4, <1>5, <1>6, <1>7, <1>9, <1>10, <1>11, <1>12, <1>13 DEF AreaInv, AreaFinite

\* A stored comment gets another status.
LEMMA StatusMoves ==
  ASSUME AreaTypes, AreaFinite, NEW c \in Comment, NEW s \in Status \ {"absent"},
         status[c] # "absent",
         status' = [status EXCEPT ![c] = s], rootOf' = rootOf
  PROVE  /\ IsFiniteSet(Stored') /\ Stored' = Stored
         /\ Cardinality(Visible) \in Nat /\ Cardinality(Visible') \in Nat
         /\ Cardinality(VisibleRoots) \in Nat /\ Cardinality(VisibleRoots') \in Nat
         /\ Cardinality(Visible')
              = Cardinality(Visible) + One(s = "normal") - One(status[c] = "normal")
         /\ Cardinality(VisibleRoots')
              = Cardinality(VisibleRoots)
                  + One(s = "normal" /\ IsRoot(c))
                  - One(status[c] = "normal" /\ IsRoot(c))
         /\ (s = "deleted" <=> status[c] = "deleted") =>
              \A d \in Comment : Cardinality(Replies(status', rootOf', d))
                                   = Cardinality(Replies(status, rootOf, d))
         /\ s = "deleted" /\ status[c] # "deleted" =>
              \A d \in Comment :
                /\ Cardinality(Replies(status, rootOf, d)) \in Nat
                /\ Cardinality(Replies(status', rootOf', d))
                     = Cardinality(Replies(status, rootOf, d)) - One(rootOf[c] = d)
<1>1. /\ rootOf[c] \in Comment \cup {NoComment}
      /\ rootOf' = [rootOf EXCEPT ![c] = rootOf[c]]
      /\ s \in Status
  BY DEF AreaTypes
<1>2. /\ IsFiniteSet(Stored')
      /\ Cardinality(Visible) \in Nat /\ Cardinality(Visible') \in Nat
      /\ Cardinality(VisibleRoots) \in Nat /\ Cardinality(VisibleRoots') \in Nat
      /\ Cardinality(Visible')
           = Cardinality(Visible) + One(s = "normal") - One(status[c] = "normal")
      /\ Cardinality(VisibleRoots')
           = Cardinality(VisibleRoots)
               + One(s = "normal" /\ rootOf[c] = NoComment)
               - One(status[c] = "normal" /\ IsRoot(c))
      /\ \A d \in Comment :
           /\ Cardinality(Replies(status, rootOf, d)) \in Nat
           /\ Cardinality(Replies(status', rootOf', d))
                = Cardinality(Replies(status, rootOf, d))
                    + One(c \in Replies(status', rootOf', d))
                    - One(c \in Replies(status, rootOf, d))
  BY <1>1, RowMoves
<1>3. Stored' = Stored
  BY DEF Stored, AreaTypes
<1>4. \A d \in Comment :
        /\ c \in Replies(status', rootOf', d) <=> s # "deleted" /\ rootOf[c] = d
        /\ c \in Replies(status, rootOf, d) <=> status[c] # "deleted" /\ rootOf[c] = d
  BY DEF Replies, AreaTypes
<1>5. ASSUME s = "deleted" <=> status[c] = "deleted", NEW d \in Comment
      PROVE  Cardinality(Replies(status', rootOf', d))
               = Cardinality(Replies(status, rootOf, d))
  <2>1. PICK S, T : S = Replies(status, rootOf, d) /\ T = Replies(status', rootOf', d)
    OBVIOUS
  <2>2. /\ Cardinality(S) \in Nat
        /\ Cardinality(T) = Cardinality(S) + One(c \in T) - One(c \in S)
    BY <1>2, <2>1, Zenon
  <2>3. /\ c \in T <=> s # "deleted" /\ rootOf[c] = d
        /\ c \in S <=> status[c] # "deleted" /\ rootOf[c] = d
    BY <1>4, <2>1
  <2> QED BY <1>5, <2>1, <2>2, <2>3 DEF One
<1>6. ASSUME s = "deleted", status[c] # "deleted", NEW d \in Comment
      PROVE  /\ Cardinality(Replies(status, rootOf, d)) \in Nat
             /\ Cardinality(Replies(status', rootOf', d))
                  = Cardinality(Replies(status, rootOf, d)) - One(rootOf[c] = d)
  <2>1. PICK S, T : S = Replies(status, rootOf, d) /\ T = Replies(status', rootOf', d)
    OBVIOUS
  <2>2. /\ Cardinality(S) \in Nat
        /\ Cardinality(T) = Cardinality(S) + One(c \in T) - One(c \in S)
    BY <1>2, <2>1, Zenon
  <2>3. /\ c \in T <=> s # "deleted" /\ rootOf[c] = d
        /\ c \in S <=> status[c] # "deleted" /\ rootOf[c] = d
    BY <1>4, <2>1
  <2> QED BY <1>6, <2>1, <2>2, <2>3 DEF One
<1>7. Cardinality(VisibleRoots')
        = Cardinality(VisibleRoots)
            + One(s = "normal" /\ IsRoot(c)) - One(status[c] = "normal" /\ IsRoot(c))
  BY <1>2 DEF IsRoot
<1> QED BY <1>2, <1>3, <1>5, <1>6, <1>7

LEMMA SubjectParts ==
  ASSUME AreaTypes
  PROVE  /\ subject.all \in Int /\ subject.root \in Int /\ subject.seq \in Nat
         /\ subject.top \in Comment \cup {NoComment}
         /\ subject = [all |-> subject.all, root |-> subject.root,
                       seq |-> subject.seq, top |-> subject.top]
BY DEF AreaTypes, Subject

LEMMA FloorsStay ==
  ASSUME AreaTypes, FloorsGiven, FloorsDistinct, cause' \cap {"floor"} = cause \cap {"floor"},
         Stored' = Stored, floor' = floor, subject'.seq = subject.seq
  PROVE  FloorsGiven' /\ FloorsDistinct'
<1>1. "floor" \in cause' <=> "floor" \in cause
  OBVIOUS
<1> QED BY <1>1 DEF FloorsGiven, FloorsDistinct

LEMMA DeleteCommitsStep ==
  ASSUME AreaInv, NEW w \in AreaWorker, DeleteCommits(w)
  PROVE  AreaInv'
<1>0. PICK j : j = request[w]
  OBVIOUS
<1>1. /\ j \in AreaJob /\ j.op = "delete" /\ status[j.c] # "absent" /\ j.c \in Comment
      /\ j.seen \in SeenRow(Status \ {"absent", "deleted"})
      /\ ~Syncs(request[w])
  BY <1>0, AreaJobParts DEF AreaInv, AreaTypes, RequestsFit, DeleteCommits, Syncs,
     OnAComment
<1>2. AreaTypes /\ AreaFinite /\ RequestsFit
  BY DEF AreaInv
<1>3. PICK n : n = Counted(j)
  OBVIOUS
<1>4. n \in {0, 1} /\ (n = 1 <=> j.seen.status = "normal")
  BY <1>3 DEF Counted, One
<1>5. /\ status' = [status EXCEPT ![j.c] = "deleted"]
      /\ topBit' = [topBit EXCEPT ![j.c] = @ /\ ~j.seen.top]
      /\ commentCount' = AtLeastZero(commentCount - n)
      /\ rcount' = [c \in Comment |-> rcount[c] - One(rootOf[j.c] = c)]
      /\ cause' = cause \cup Changed(j) \cup If(commentCount < n, "floored")
      /\ rootOf' = rootOf /\ floor' = floor
      /\ Finish(w)
  BY <1>0, <1>3 DEF DeleteCommits, Meets, RepliesAfterDelete
<1>6. subject' = [all |-> subject.all - n,
                  root |-> subject.root - (IF IsRoot(j.c) THEN n ELSE 0),
                  seq |-> subject.seq, top |-> PinAfterDelete(j)]
  <2>1. PICK a, b, t : /\ a = subject.all - n
                       /\ b = subject.root - (IF IsRoot(j.c) THEN n ELSE 0)
                       /\ t = PinAfterDelete(j)
    OBVIOUS
  <2>2. subject' = [subject EXCEPT !.all = a, !.root = b, !.top = t]
    BY <1>0, <1>3, <2>1 DEF DeleteCommits
  <2>3. subject' = [all |-> a, root |-> b, seq |-> subject.seq, top |-> t]
    BY <1>2, <2>2, RowAfterDelete DEF AreaTypes
  <2> QED BY <2>1, <2>3
<1>7. PinAfterDelete(j) \in Comment \cup {NoComment}
  BY <1>2, SubjectParts DEF PinAfterDelete
<1>8. AreaTypes'
  <2>1. subject' \in Subject
    BY <1>2, <1>4, <1>6, <1>7, SubjectParts DEF Subject
  <2>2. commentCount' \in Nat
    BY <1>2, <1>4, <1>5 DEF AtLeastZero, AreaTypes
  <2>3. cause' \subseteq Cause
    BY <1>2, <1>5 DEF AreaTypes, Cause, Changed, StatusChanged, If
  <2>4. request' \in [AreaWorker -> AreaJob]
    BY <1>1, <1>2, <1>5, AnswerFits DEF AreaTypes
  <2>5. status' \in [Comment -> Status] /\ topBit' \in [Comment -> BOOLEAN]
        /\ rcount' \in [Comment -> Int]
    BY <1>1, <1>2, <1>5 DEF AreaTypes, Status, One
  <2> QED BY <1>2, <1>5, <2>1, <2>2, <2>3, <2>4, <2>5 DEF AreaTypes
<1>9. RequestsFit'
  BY <1>1, <1>2, <1>5, AnswerFits DEF AreaTypes
<1>10. /\ IsFiniteSet(Syncing')
       /\ \A d \in {-1, 1} :
            /\ Cardinality(Owed(d)) \in Nat /\ Cardinality(OwedRoot(d)) \in Nat
            /\ Cardinality(Owed(d)') = Cardinality(Owed(d))
            /\ Cardinality(OwedRoot(d)') = Cardinality(OwedRoot(d))
  BY <1>1, <1>2, <1>5, OwedSame
<1>11. "deleted" \in Status \ {"absent"}
  BY DEF Status
<1>12. /\ IsFiniteSet(Stored') /\ Stored' = Stored
       /\ Cardinality(Visible) \in Nat /\ Cardinality(VisibleRoots) \in Nat
       /\ Cardinality(Visible') = Cardinality(Visible) - One(status[j.c] = "normal")
       /\ Cardinality(VisibleRoots')
            = Cardinality(VisibleRoots) - One(status[j.c] = "normal" /\ IsRoot(j.c))
       /\ status[j.c] # "deleted" =>
            \A d \in Comment :
              /\ Cardinality(Replies(status, rootOf, d)) \in Nat
              /\ Cardinality(Replies(status', rootOf', d))
                   = Cardinality(Replies(status, rootOf, d)) - One(rootOf[j.c] = d)
  <2>1. /\ IsFiniteSet(Stored') /\ Stored' = Stored
        /\ Cardinality(Visible) \in Nat /\ Cardinality(VisibleRoots) \in Nat
        /\ Cardinality(Visible')
             = Cardinality(Visible) + One("deleted" = "normal") - One(status[j.c] = "normal")
        /\ Cardinality(VisibleRoots')
             = Cardinality(VisibleRoots)
                 + One("deleted" = "normal" /\ IsRoot(j.c))
                 - One(status[j.c] = "normal" /\ IsRoot(j.c))
        /\ "deleted" = "deleted" /\ status[j.c] # "deleted" =>
             \A d \in Comment :
               /\ Cardinality(Replies(status, rootOf, d)) \in Nat
               /\ Cardinality(Replies(status', rootOf', d))
                    = Cardinality(Replies(status, rootOf, d)) - One(rootOf[j.c] = d)
    BY <1>1, <1>2, <1>5, <1>11, StatusMoves
  <2> QED BY <2>1 DEF One
<1>13. /\ cause \subseteq cause'
       /\ "row" \notin cause' \/ "tree" \notin cause' => status[j.c] = j.seen.status
       /\ "floored" \notin cause' => commentCount >= n
  BY <1>2, <1>4, <1>5 DEF Changed, StatusChanged, If, AreaTypes
<1>14. CountersExact'
  <2>1. SUFFICES ASSUME cause' \cap Repaired = {} PROVE CountersExact'
    BY DEF CountersExact
  <2>2. /\ cause \cap Repaired = {} /\ status[j.c] = j.seen.status /\ commentCount >= n
    BY <1>13, <2>1 DEF Repaired
  <2>3. n = One(status[j.c] = "normal") /\ commentCount' = commentCount - n
    BY <1>2, <1>4, <1>5, <2>2 DEF One, AtLeastZero, AreaTypes
  <2> QED BY <1>2, <1>6, <1>10, <1>12, <2>2, <2>3, SubjectParts
          DEF AreaInv, CountersExact, One, AreaTypes
<1>15. CountersEnough'
  <2>1. SUFFICES ASSUME cause' \cap Repaired \subseteq {"takedown"} PROVE CountersEnough'
    BY DEF CountersEnough
  <2>2. cause \cap Repaired \subseteq {"takedown"} /\ status[j.c] = j.seen.status
    BY <1>13, <2>1 DEF Repaired
  <2>3. n = One(status[j.c] = "normal")
    BY <1>4, <2>2 DEF One
  <2> QED BY <1>2, <1>4, <1>6, <1>10, <1>12, <2>2, <2>3, SubjectParts
          DEF AreaInv, CountersEnough
<1>16. RepliesCounted'
  <2>1. SUFFICES ASSUME cause' \cap {"tree", "revived"} = {}, NEW c \in Comment
                 PROVE  rcount'[c] = Cardinality(Replies(status', rootOf', c))
    BY DEF RepliesCounted, Replies, Stored
  <2>2. rcount[c] = Cardinality(Replies(status, rootOf, c))
    BY <1>13, <2>1 DEF AreaInv, RepliesCounted, Replies, Stored
  <2>3. status[j.c] # "deleted"
    BY <1>1, <1>13, <2>1 DEF SeenRow
  <2> QED BY <1>5, <1>12, <2>2, <2>3
<1>17. FloorsGiven' /\ FloorsDistinct'
  BY <1>2, <1>5, <1>6, <1>12, FloorsStay
     DEF AreaInv, Changed, StatusChanged, If
<1>18. TopIsMarked'
  <2>1. SUFFICES ASSUME cause' \cap {"top", "tree", "revived"} = {} PROVE TopIsMarked'
    BY DEF TopIsMarked
  <2>2. /\ cause \cap {"top", "tree", "revived"} = {}
        /\ topBit[j.c] = j.seen.top /\ subject.top = j.seen.pinned
    BY <1>5, <2>1 DEF Changed, If
  <2>3. /\ {c \in Comment : topBit[c]} = {subject.top} \ {NoComment}
        /\ subject.top # NoComment => status[subject.top] # "deleted"
    BY <2>2 DEF AreaInv, TopIsMarked
  <2>4. subject'.top = IF subject.top = j.c THEN NoComment ELSE subject.top
    BY <1>6, <2>2 DEF PinAfterDelete
  <2>5. \A c \in Comment : topBit'[c] <=> topBit[c] /\ c # j.c
    BY <1>2, <1>5, <2>2 DEF AreaTypes
  <2>6. subject.top \in Comment \cup {NoComment} /\ NoComment \notin Comment
    BY <1>2, SubjectParts, AreaAssumption
  <2> QED BY <1>1, <1>2, <1>5, <2>3, <2>4, <2>5, <2>6 DEF TopIsMarked, AreaTypes
<1> QED BY <1>8, <1>9, <1>10, <1>12, <1>14, <1>15, <1>16, <1>17, <1>18
        DEF AreaInv, AreaFinite

\* The TOP bits and the pin stay as they are, and so does what is deleted.
LEMMA TopStays ==
  ASSUME AreaTypes, TopIsMarked, topBit' = topBit, subject'.top = subject.top,
         cause' \cap {"top", "tree", "revived"} = {} =>
           /\ cause \cap {"top", "tree", "revived"} = {}
           /\ \A c \in Comment : status'[c] = "deleted" => status[c] = "deleted"
  PROVE  TopIsMarked'
<1>1. subject.top \in Comment \cup {NoComment}
  BY SubjectParts
<1> QED BY <1>1 DEF TopIsMarked

\* The replies are the same ones.
LEMMA RepliesStay ==
  ASSUME RepliesCounted, rcount' = rcount,
         cause' \cap {"tree", "revived"} = {} =>
           /\ cause \cap {"tree", "revived"} = {}
           /\ \A c \in Comment : Cardinality(Replies(status', rootOf', c))
                                   = Cardinality(Replies(status, rootOf, c))
  PROVE  RepliesCounted'
<1>1. SUFFICES ASSUME cause' \cap {"tree", "revived"} = {}, NEW c \in Comment
               PROVE  rcount'[c] = Cardinality(Replies(status', rootOf', c))
  BY DEF RepliesCounted, Replies, Stored
<1>2. rcount[c] = Cardinality(Replies(status, rootOf, c))
  BY <1>1 DEF RepliesCounted, Replies, Stored
<1> QED BY <1>1, <1>2

LEMMA HideCommitsStep ==
  ASSUME AreaInv, NEW w \in AreaWorker, HideCommits(w)
  PROVE  AreaInv'
<1>0. PICK j : j = request[w]
  OBVIOUS
<1>1. /\ j \in AreaJob /\ j.op = "hide" /\ status[j.c] # "absent" /\ j.c \in Comment
      /\ j.seen \in SeenRow(Status \ {"absent"})
      /\ ~Syncs(request[w])
  BY <1>0, AreaJobParts DEF AreaInv, AreaTypes, RequestsFit, HideCommits, Syncs,
     OnAComment
<1>2. AreaTypes /\ AreaFinite /\ RequestsFit
  BY DEF AreaInv
<1>3. PICK s : s = IF j.seen.status # "hidden" THEN "hidden" ELSE status[j.c]
  OBVIOUS
<1>4. /\ s \in Status \ {"absent"}
      /\ status' = [status EXCEPT ![j.c] = s]
      /\ cause' = cause \cup If(status[j.c] = "normal" /\ j.seen.status # "hidden", "takedown")
           \cup If(status[j.c] = "deleted" /\ j.seen.status # "hidden", "revived")
           \cup StatusChanged(j)
      /\ Finish(w)
      /\ UNCHANGED <<rootOf, topBit, floor, rcount, subject, commentCount>>
  <2>1. status[j.c] \in Status /\ "hidden" \in Status
    BY <1>1, <1>2 DEF AreaTypes, Status
  <2>2. status' = [status EXCEPT ![j.c] = s]
    BY <1>0, <1>1, <1>2, <1>3 DEF HideCommits, AreaTypes
  <2> QED BY <1>0, <1>1, <1>3, <2>1, <2>2 DEF HideCommits, Meets
<1>5. AreaTypes' /\ RequestsFit'
  <2>1. cause' \subseteq Cause
    BY <1>2, <1>4 DEF AreaTypes, Cause, StatusChanged, If
  <2>2. RequestsFit' /\ request' \in [AreaWorker -> AreaJob]
    BY <1>1, <1>2, <1>4, AnswerFits DEF AreaTypes
  <2> QED BY <1>1, <1>2, <1>4, <2>1, <2>2 DEF AreaTypes
<1>6. /\ IsFiniteSet(Syncing')
      /\ \A d \in {-1, 1} :
           /\ Cardinality(Owed(d)) \in Nat /\ Cardinality(OwedRoot(d)) \in Nat
           /\ Cardinality(Owed(d)') = Cardinality(Owed(d))
           /\ Cardinality(OwedRoot(d)') = Cardinality(OwedRoot(d))
  BY <1>1, <1>2, <1>4, OwedSame
<1>7. /\ IsFiniteSet(Stored') /\ Stored' = Stored
      /\ Cardinality(Visible) \in Nat /\ Cardinality(VisibleRoots) \in Nat
      /\ Cardinality(Visible')
           = Cardinality(Visible) + One(s = "normal") - One(status[j.c] = "normal")
      /\ Cardinality(VisibleRoots')
           = Cardinality(VisibleRoots)
               + One(s = "normal" /\ IsRoot(j.c)) - One(status[j.c] = "normal" /\ IsRoot(j.c))
      /\ (s = "deleted" <=> status[j.c] = "deleted") =>
           \A d \in Comment : Cardinality(Replies(status', rootOf', d))
                                = Cardinality(Replies(status, rootOf, d))
  BY <1>1, <1>2, <1>4, StatusMoves
<1>8. /\ cause \subseteq cause'
      /\ "takedown" \notin cause' => (status[j.c] = "normal" => s = "normal")
      /\ "revived" \notin cause' => (status[j.c] = "deleted" => s = "deleted")
      /\ "floor" \in cause' => "floor" \in cause
      /\ s = "normal" => status[j.c] = "normal"
      /\ s = "deleted" => status[j.c] = "deleted"
  BY <1>1, <1>3, <1>4 DEF StatusChanged, If
<1>9. CountersExact'
  <2>1. SUFFICES ASSUME cause' \cap Repaired = {} PROVE CountersExact'
    BY DEF CountersExact
  <2>2. cause \cap Repaired = {} /\ (s = "normal" <=> status[j.c] = "normal")
    BY <1>8, <2>1 DEF Repaired
  <2> QED BY <1>4, <1>6, <1>7, <2>2 DEF AreaInv, CountersExact, One
<1>10. CountersEnough'
  <2>1. SUFFICES ASSUME cause' \cap Repaired \subseteq {"takedown"} PROVE CountersEnough'
    BY DEF CountersEnough
  <2>2. cause \cap Repaired \subseteq {"takedown"}
    BY <1>8, <2>1
  <2>3. subject.all \in Int
    BY <1>2, SubjectParts
  <2> QED BY <1>4, <1>6, <1>7, <1>8, <2>2, <2>3 DEF AreaInv, CountersEnough, One
<1>11. RepliesCounted'
  BY <1>4, <1>7, <1>8, RepliesStay DEF AreaInv
<1>12. FloorsGiven' /\ FloorsDistinct'
  BY <1>2, <1>4, <1>7, <1>8, FloorsStay DEF AreaInv
<1>13. TopIsMarked'
  BY <1>1, <1>2, <1>4, <1>8, TopStays DEF AreaInv, AreaTypes
<1> QED BY <1>5, <1>6, <1>7, <1>9, <1>10, <1>11, <1>12, <1>13 DEF AreaInv, AreaFinite

LEMMA SetCommitsStep ==
  ASSUME AreaInv, NEW w \in AreaWorker, SetCommits(w)
  PROVE  AreaInv'
<1>0. PICK j : j = request[w]
  OBVIOUS
<1>1. /\ j \in AreaJob /\ j.op = "set" /\ status[j.c] # "absent" /\ j.c \in Comment
      /\ j.seen \in SeenRow(Status \ {"absent"})
      /\ j.to \in {"normal", "rejected", "hidden"}
      /\ ~Syncs(request[w])
  BY <1>0, AreaJobParts DEF AreaInv, AreaTypes, RequestsFit, SetCommits, Syncs,
     OnAComment
<1>2. AreaTypes /\ AreaFinite /\ RequestsFit
  BY DEF AreaInv
<1>3. PICK s : s = IF j.to # j.seen.status THEN j.to ELSE status[j.c]
  OBVIOUS
<1>4. PICK k : k = IF Delta(j) # 0 THEN [op |-> "sync", c |-> j.c, delta |-> Delta(j)]
                   ELSE Idle
  OBVIOUS
<1>5. /\ s \in Status \ {"absent"}
      /\ status' = [status EXCEPT ![j.c] = s]
      /\ cause' = cause \cup StatusChanged(j)
           \cup If(j.to # j.seen.status /\ status[j.c] = "deleted", "revived")
      /\ request' = [request EXCEPT ![w] = k]
      /\ UNCHANGED <<rootOf, topBit, floor, rcount, subject, commentCount>>
  <2>1. status[j.c] \in Status /\ j.to \in Status
    BY <1>1, <1>2 DEF AreaTypes, Status
  <2>2. status' = [status EXCEPT ![j.c] = s]
    BY <1>0, <1>1, <1>2, <1>3 DEF SetCommits, AreaTypes
  <2>3. request' = [request EXCEPT ![w] = k]
    BY <1>0, <1>4 DEF SetCommits
  <2> QED BY <1>0, <1>1, <1>3, <2>1, <2>2, <2>3 DEF SetCommits, Meets
<1>6. /\ Delta(j) \in {-1, 0, 1}
      /\ Delta(j) = One(j.to = "normal") - One(j.seen.status = "normal")
  BY DEF Delta, One
<1>7. /\ k \in AreaJob /\ k.op # "add"
      /\ k.op \in OnAComment => k.c = j.c
      /\ Syncs(k) <=> Delta(j) # 0
      /\ Syncs(k) => k.c = j.c /\ k.delta = Delta(j)
  <2>1. CASE Delta(j) # 0
    BY <1>1, <1>4, <1>6, <2>1 DEF AreaJob, Syncs
  <2>2. CASE Delta(j) = 0
    BY <1>4, <2>2 DEF AreaJob, Syncs, Idle, OnAComment
  <2> QED BY <2>1, <2>2
<1>8. AreaTypes' /\ RequestsFit'
  <2>1. cause' \subseteq Cause
    BY <1>2, <1>5 DEF AreaTypes, Cause, StatusChanged, If
  <2>2. RequestsFit'
    BY <1>1, <1>2, <1>5, <1>7, FitKept DEF AreaTypes
  <2> QED BY <1>1, <1>2, <1>5, <1>7, <2>1, <2>2 DEF AreaTypes
<1>9. /\ IsFiniteSet(Syncing')
      /\ \A d \in {-1, 1} :
           /\ Cardinality(Owed(d)) \in Nat /\ Cardinality(OwedRoot(d)) \in Nat
           /\ Cardinality(Owed(d)')
                = Cardinality(Owed(d)) + One(Syncs(k) /\ k.delta = d)
           /\ Cardinality(OwedRoot(d)')
                = Cardinality(OwedRoot(d)) + One(Syncs(k) /\ k.delta = d /\ IsRoot(k.c))
  <2>1. /\ IsFiniteSet(Syncing')
        /\ \A d \in {-1, 1} :
             /\ Cardinality(Owed(d)) \in Nat /\ Cardinality(OwedRoot(d)) \in Nat
             /\ Cardinality(Owed(d)')
                  = Cardinality(Owed(d)) + One(Syncs(k) /\ k.delta = d) - One(FALSE)
             /\ Cardinality(OwedRoot(d)')
                  = Cardinality(OwedRoot(d))
                      + One(Syncs(k) /\ k.delta = d /\ IsRoot(k.c)) - One(FALSE)
    BY <1>1, <1>2, <1>5, <1>7, OwedMoves
  <2> QED BY <2>1 DEF One
<1>10. /\ IsFiniteSet(Stored') /\ Stored' = Stored
       /\ Cardinality(Visible) \in Nat /\ Cardinality(VisibleRoots) \in Nat
       /\ Cardinality(Visible')
            = Cardinality(Visible) + One(s = "normal") - One(status[j.c] = "normal")
       /\ Cardinality(VisibleRoots')
            = Cardinality(VisibleRoots)
                + One(s = "normal" /\ IsRoot(j.c)) - One(status[j.c] = "normal" /\ IsRoot(j.c))
       /\ (s = "deleted" <=> status[j.c] = "deleted") =>
            \A d \in Comment : Cardinality(Replies(status', rootOf', d))
                                 = Cardinality(Replies(status, rootOf, d))
  BY <1>1, <1>2, <1>5, StatusMoves
<1>11. /\ cause \subseteq cause'
       /\ "row" \notin cause' \/ "tree" \notin cause' => status[j.c] = j.seen.status
       /\ "revived" \notin cause' => (status[j.c] = "deleted" => s = "deleted")
       /\ "floor" \in cause' => "floor" \in cause
       /\ s = "deleted" => status[j.c] = "deleted"
  BY <1>1, <1>3, <1>5 DEF StatusChanged, If
<1>12. /\ Cardinality(Owed(1)') - Cardinality(Owed(-1)')
            = Cardinality(Owed(1)) - Cardinality(Owed(-1)) + Delta(j)
       /\ Cardinality(OwedRoot(1)') - Cardinality(OwedRoot(-1)')
            = Cardinality(OwedRoot(1)) - Cardinality(OwedRoot(-1))
                + IF IsRoot(j.c) THEN Delta(j) ELSE 0
  BY <1>6, <1>7, <1>9 DEF One
<1>13. status[j.c] = j.seen.status =>
         /\ Cardinality(Visible') = Cardinality(Visible) + Delta(j)
         /\ Cardinality(VisibleRoots')
              = Cardinality(VisibleRoots) + IF IsRoot(j.c) THEN Delta(j) ELSE 0
  BY <1>3, <1>6, <1>10 DEF One
<1>14. subject.all \in Int /\ subject.root \in Int
  BY <1>2, SubjectParts
<1>15. /\ Cardinality(Owed(1)') \in Int /\ Cardinality(Owed(-1)') \in Int
       /\ Cardinality(OwedRoot(1)') \in Int /\ Cardinality(OwedRoot(-1)') \in Int
  BY <1>9 DEF One
<1>16. CountersExact'
  <2>1. SUFFICES ASSUME cause' \cap Repaired = {} PROVE CountersExact'
    BY DEF CountersExact
  <2>2. cause \cap Repaired = {} /\ status[j.c] = j.seen.status
    BY <1>11, <2>1 DEF Repaired
  <2> QED BY <1>5, <1>6, <1>9, <1>10, <1>12, <1>13, <1>14, <1>15, <2>2
          DEF AreaInv, CountersExact
<1>17. CountersEnough'
  <2>1. SUFFICES ASSUME cause' \cap Repaired \subseteq {"takedown"} PROVE CountersEnough'
    BY DEF CountersEnough
  <2>2. cause \cap Repaired \subseteq {"takedown"} /\ status[j.c] = j.seen.status
    BY <1>11, <2>1 DEF Repaired
  <2> QED BY <1>5, <1>6, <1>9, <1>10, <1>12, <1>13, <1>14, <1>15, <2>2
          DEF AreaInv, CountersEnough
<1>18. RepliesCounted'
  BY <1>5, <1>10, <1>11, RepliesStay DEF AreaInv
<1>19. FloorsGiven' /\ FloorsDistinct'
  BY <1>2, <1>5, <1>10, <1>11, FloorsStay DEF AreaInv
<1>20. TopIsMarked'
  BY <1>1, <1>2, <1>5, <1>11, TopStays DEF AreaInv, AreaTypes
<1> QED BY <1>8, <1>9, <1>10, <1>16, <1>17, <1>18, <1>19, <1>20 DEF AreaInv, AreaFinite

\* Only the request and the counters change.
LEMMA OnlyCounters ==
  ASSUME AreaInv, UNCHANGED <<status, rootOf, topBit, floor, rcount>>,
         subject'.seq = subject.seq, subject'.top = subject.top,
         cause' \cap {"tree", "revived", "top", "floor"}
           = cause \cap {"tree", "revived", "top", "floor"}
  PROVE  /\ Visible' = Visible /\ VisibleRoots' = VisibleRoots /\ Stored' = Stored
         /\ RepliesCounted' /\ FloorsGiven' /\ FloorsDistinct' /\ TopIsMarked'
<1>1. Visible' = Visible /\ VisibleRoots' = VisibleRoots /\ Stored' = Stored
  BY DEF Visible, VisibleRoots, Stored
<1>2. /\ cause' \cap {"tree", "revived"} = cause \cap {"tree", "revived"}
      /\ cause' \cap {"top", "tree", "revived"} = cause \cap {"top", "tree", "revived"}
      /\ cause' \cap {"floor"} = cause \cap {"floor"}
  OBVIOUS
<1>3. RepliesCounted'
  BY <1>2, RepliesStay DEF AreaInv
<1>4. FloorsGiven' /\ FloorsDistinct'
  BY <1>1, <1>2, FloorsStay DEF AreaInv
<1>5. TopIsMarked'
  BY <1>2, TopStays DEF AreaInv
<1> QED BY <1>1, <1>3, <1>4, <1>5

LEMMA SyncReadsStep ==
  ASSUME AreaInv, NEW w \in AreaWorker, SyncReads(w)
  PROVE  AreaInv'
<1>0. PICK j, k : /\ j = request[w]
                  /\ k = [op |-> "write", c |-> j.c, delta |-> j.delta,
                          all |-> subject.all, root |-> subject.root]
  OBVIOUS
<1>1. /\ j \in AreaJob /\ j.op = "sync" /\ status[j.c] # "absent" /\ j.c \in Comment
      /\ j.delta \in {-1, 1}
  BY <1>0, AreaJobParts DEF AreaInv, AreaTypes, RequestsFit, SyncReads, OnAComment
<1>2. AreaTypes /\ AreaFinite /\ RequestsFit
  BY DEF AreaInv
<1>3. /\ request' = [request EXCEPT ![w] = k]
      /\ UNCHANGED <<status, rootOf, topBit, floor, rcount, subject, commentCount, cause>>
  BY <1>0, <1>2 DEF SyncReads, AreaTypes
<1>4. /\ k \in AreaJob /\ k.op # "add" /\ k.op \in OnAComment
      /\ Syncs(k) /\ Syncs(j) /\ k.c = j.c /\ k.delta = j.delta
  BY <1>0, <1>1, <1>2, SubjectParts DEF AreaJob, Syncs, OnAComment
<1>5. AreaTypes' /\ RequestsFit'
  <2>1. RequestsFit'
    BY <1>1, <1>2, <1>3, <1>4, FitKept
  <2> QED BY <1>2, <1>3, <1>4, <2>1 DEF AreaTypes
<1>6. /\ IsFiniteSet(Syncing')
      /\ \A d \in {-1, 1} :
           /\ Cardinality(Owed(d)') = Cardinality(Owed(d))
           /\ Cardinality(OwedRoot(d)') = Cardinality(OwedRoot(d))
  <2>1. /\ IsFiniteSet(Syncing')
        /\ \A d \in {-1, 1} :
             /\ Cardinality(Owed(d)) \in Nat /\ Cardinality(OwedRoot(d)) \in Nat
             /\ Cardinality(Owed(d)')
                  = Cardinality(Owed(d)) + One(Syncs(k) /\ k.delta = d)
                      - One(Syncs(j) /\ j.delta = d)
             /\ Cardinality(OwedRoot(d)')
                  = Cardinality(OwedRoot(d))
                      + One(Syncs(k) /\ k.delta = d /\ IsRoot(k.c))
                      - One(Syncs(j) /\ j.delta = d /\ IsRoot(j.c))
    BY <1>0, <1>1, <1>2, <1>3, <1>4, OwedMoves
  <2> QED BY <1>4, <2>1 DEF One
<1>7. /\ Visible' = Visible /\ VisibleRoots' = VisibleRoots /\ Stored' = Stored
      /\ RepliesCounted' /\ FloorsGiven' /\ FloorsDistinct' /\ TopIsMarked'
  BY <1>3, OnlyCounters
<1>8. AreaFinite' /\ CountersExact' /\ CountersEnough'
  BY <1>3, <1>6, <1>7 DEF AreaInv, AreaFinite, CountersExact, CountersEnough
<1> QED BY <1>5, <1>7, <1>8 DEF AreaInv

\* What a synchronisation owed is no longer owed when it is answered.
LEMMA SyncAnswered ==
  ASSUME AreaInv, NEW w \in AreaWorker, NEW j, j = request[w], Syncs(j), Finish(w),
         status' = status, rootOf' = rootOf
  PROVE  /\ IsFiniteSet(Syncing') /\ RequestsFit'
         /\ request' \in [AreaWorker -> AreaJob]
         /\ j.delta \in {-1, 1} /\ j.c \in Comment /\ j \in AreaJob
         /\ Cardinality(Owed(1)') \in Nat /\ Cardinality(Owed(-1)') \in Nat
         /\ Cardinality(OwedRoot(1)') \in Nat /\ Cardinality(OwedRoot(-1)') \in Nat
         /\ Cardinality(Owed(1)) \in Nat /\ Cardinality(Owed(-1)) \in Nat
         /\ Cardinality(OwedRoot(1)) \in Nat /\ Cardinality(OwedRoot(-1)) \in Nat
         /\ Cardinality(Owed(1)') - Cardinality(Owed(-1)')
              = Cardinality(Owed(1)) - Cardinality(Owed(-1)) - j.delta
         /\ Cardinality(OwedRoot(1)') - Cardinality(OwedRoot(-1)')
              = Cardinality(OwedRoot(1)) - Cardinality(OwedRoot(-1))
                  - IF IsRoot(j.c) THEN j.delta ELSE 0
<1>1. AreaTypes /\ AreaFinite /\ RequestsFit
  BY DEF AreaInv
<1>2. j \in AreaJob /\ j.delta \in {-1, 1} /\ j.c \in Comment
  BY <1>1, AreaJobParts DEF AreaTypes, Syncs, OnAComment
<1>3. Idle \in AreaJob /\ ~Syncs(Idle) /\ request' = [request EXCEPT ![w] = Idle]
  BY DEF AreaJob, Syncs, Idle, Finish
<1>4. RequestsFit' /\ request' \in [AreaWorker -> AreaJob]
  BY <1>1, AnswerFits
<1>5. /\ IsFiniteSet(Syncing')
      /\ \A d \in {-1, 1} :
           /\ Cardinality(Owed(d)) \in Nat /\ Cardinality(OwedRoot(d)) \in Nat
           /\ Cardinality(Owed(d)') \in Nat /\ Cardinality(OwedRoot(d)') \in Nat
           /\ Cardinality(Owed(d)')
                = Cardinality(Owed(d)) + One(FALSE) - One(Syncs(j) /\ j.delta = d)
           /\ Cardinality(OwedRoot(d)')
                = Cardinality(OwedRoot(d)) + One(FALSE)
                    - One(Syncs(j) /\ j.delta = d /\ IsRoot(j.c))
  BY <1>1, <1>2, <1>3, OwedMoves
<1> QED BY <1>2, <1>4, <1>5 DEF One

LEMMA SyncLostStep ==
  ASSUME AreaInv, NEW w \in AreaWorker, SyncLost(w)
  PROVE  AreaInv'
<1>1. /\ Finish(w) /\ Syncs(request[w]) /\ cause' = cause \cup {"lost"}
      /\ UNCHANGED <<status, rootOf, topBit, floor, rcount, subject, commentCount>>
  BY DEF SyncLost, Syncs, Meets
<1>2. /\ IsFiniteSet(Syncing') /\ RequestsFit' /\ request' \in [AreaWorker -> AreaJob]
  BY <1>1, SyncAnswered
<1>3. /\ Visible' = Visible /\ VisibleRoots' = VisibleRoots /\ Stored' = Stored
      /\ RepliesCounted' /\ FloorsGiven' /\ FloorsDistinct' /\ TopIsMarked'
  BY <1>1, OnlyCounters
<1>4. CountersExact' /\ CountersEnough'
  BY <1>1 DEF CountersExact, CountersEnough, Repaired
<1> QED BY <1>1, <1>2, <1>3, <1>4 DEF AreaInv, AreaTypes, AreaFinite, Cause

LEMMA SyncWritesStep ==
  ASSUME AreaInv, NEW w \in AreaWorker, SyncWrites(w)
  PROVE  AreaInv'
<1>0. PICK j : j = request[w]
  OBVIOUS
<1>1. /\ j \in AreaJob /\ j.op = "write" /\ Syncs(j) /\ j.c \in Comment
      /\ j.all \in Int /\ j.root \in Int /\ j.delta \in {-1, 1}
  BY <1>0, AreaJobParts DEF AreaInv, AreaTypes, SyncWrites, Syncs, OnAComment
<1>2. AreaTypes /\ AreaFinite /\ RequestsFit
  BY DEF AreaInv
<1>3. PICK a, b : /\ a = IF AtLeastZero(j.all + j.delta) # j.all
                         THEN AtLeastZero(j.all + j.delta) ELSE subject.all
                  /\ b = IF IsRoot(j.c) /\ AtLeastZero(j.root + j.delta) # j.root
                         THEN AtLeastZero(j.root + j.delta) ELSE subject.root
  OBVIOUS
<1>4. PICK counters : counters = {j.all, commentCount} \cup IF IsRoot(j.c) THEN {j.root} ELSE {}
  OBVIOUS
<1>5. /\ subject' = [subject EXCEPT !.all = a, !.root = b]
      /\ commentCount' = AtLeastZero(commentCount + j.delta)
      /\ cause' = cause \cup If(subject.all # j.all \/ subject.root # j.root, "counter")
                   \cup If(\E n \in counters : n + j.delta < 0, "floored")
      /\ Finish(w)
      /\ UNCHANGED <<status, rootOf, topBit, floor, rcount>>
  BY <1>0, <1>3, <1>4 DEF SyncWrites, Meets
<1>6. /\ subject.all \in Int /\ subject.root \in Int /\ commentCount \in Nat
      /\ subject.seq \in Nat /\ subject.top \in Comment \cup {NoComment}
  BY <1>2, SubjectParts DEF AreaTypes
<1>7. subject' = [all |-> a, root |-> b, seq |-> subject.seq, top |-> subject.top]
  BY <1>2, <1>5, RowAfterCount DEF AreaTypes
<1>8. /\ IsFiniteSet(Syncing') /\ RequestsFit' /\ request' \in [AreaWorker -> AreaJob]
      /\ Cardinality(Owed(1)') \in Nat /\ Cardinality(Owed(-1)') \in Nat
      /\ Cardinality(OwedRoot(1)') \in Nat /\ Cardinality(OwedRoot(-1)') \in Nat
      /\ Cardinality(Owed(1)) \in Nat /\ Cardinality(Owed(-1)) \in Nat
      /\ Cardinality(OwedRoot(1)) \in Nat /\ Cardinality(OwedRoot(-1)) \in Nat
      /\ Cardinality(Owed(1)') - Cardinality(Owed(-1)')
           = Cardinality(Owed(1)) - Cardinality(Owed(-1)) - j.delta
      /\ Cardinality(OwedRoot(1)') - Cardinality(OwedRoot(-1)')
           = Cardinality(OwedRoot(1)) - Cardinality(OwedRoot(-1))
               - IF IsRoot(j.c) THEN j.delta ELSE 0
  BY <1>0, <1>1, <1>5, SyncAnswered
<1>9. AreaTypes'
  <2>1. a \in Int /\ b \in Int /\ commentCount' \in Nat
    BY <1>1, <1>3, <1>5, <1>6 DEF AtLeastZero
  <2>2. subject' \in Subject
    BY <1>6, <1>7, <2>1 DEF Subject
  <2>3. cause' \subseteq Cause
    BY <1>2, <1>5 DEF AreaTypes, Cause, If
  <2> QED BY <1>2, <1>5, <1>8, <2>1, <2>2, <2>3 DEF AreaTypes
<1>10. /\ Visible' = Visible /\ VisibleRoots' = VisibleRoots /\ Stored' = Stored
       /\ RepliesCounted' /\ FloorsGiven' /\ FloorsDistinct' /\ TopIsMarked'
  BY <1>5, <1>7, OnlyCounters DEF If
<1>11. cause \subseteq cause'
  BY <1>5
<1>12. ASSUME "counter" \notin cause', "floored" \notin cause'
       PROVE  /\ a = subject.all + j.delta
              /\ b = subject.root + IF IsRoot(j.c) THEN j.delta ELSE 0
              /\ commentCount' = commentCount + j.delta
  <2>1. j.all = subject.all /\ j.root = subject.root
    BY <1>5, <1>12 DEF If
  <2>2. /\ j.all + j.delta >= 0 /\ commentCount + j.delta >= 0
        /\ IsRoot(j.c) => j.root + j.delta >= 0
    BY <1>1, <1>4, <1>5, <1>6, <1>12 DEF If
  <2> QED BY <1>1, <1>3, <1>5, <1>6, <2>1, <2>2 DEF AtLeastZero
<1>13. CountersExact'
  <2>1. SUFFICES ASSUME cause' \cap Repaired = {} PROVE CountersExact'
    BY DEF CountersExact
  <2>2. cause \cap Repaired = {} /\ "counter" \notin cause' /\ "floored" \notin cause'
    BY <1>11, <2>1 DEF Repaired
  <2>3. /\ subject.all + Cardinality(Owed(1)) - Cardinality(Owed(-1)) = Cardinality(Visible)
        /\ subject.root + Cardinality(OwedRoot(1)) - Cardinality(OwedRoot(-1))
             = Cardinality(VisibleRoots)
        /\ commentCount = subject.all
    BY <2>2 DEF AreaInv, CountersExact
  <2>4. subject'.all = a /\ subject'.root = b
    BY <1>7
  <2> QED BY <1>1, <1>6, <1>8, <1>10, <1>12, <2>2, <2>3, <2>4 DEF CountersExact
<1>14. CountersEnough'
  <2>1. SUFFICES ASSUME cause' \cap Repaired \subseteq {"takedown"} PROVE CountersEnough'
    BY DEF CountersEnough
  <2>2. /\ cause \cap Repaired \subseteq {"takedown"}
        /\ "counter" \notin cause' /\ "floored" \notin cause'
    BY <1>11, <2>1 DEF Repaired
  <2>3. subject.all + Cardinality(Owed(1)) - Cardinality(Owed(-1)) >= Cardinality(Visible)
    BY <2>2 DEF AreaInv, CountersEnough
  <2>4. subject'.all = a /\ IsFiniteSet(Visible)
    <3>1. Visible \subseteq Stored
      BY DEF Visible, Stored
    <3> QED BY <1>2, <1>7, <3>1, FS_Subset DEF AreaFinite
  <2>5. Cardinality(Visible) \in Nat
    BY <2>4, FS_CardinalityType
  <2> QED BY <1>1, <1>6, <1>8, <1>10, <1>12, <2>2, <2>3, <2>4, <2>5 DEF CountersEnough
<1> QED BY <1>2, <1>8, <1>9, <1>10, <1>13, <1>14 DEF AreaInv, AreaFinite

LEMMA TopCommitsStep ==
  ASSUME AreaInv, NEW w \in AreaWorker, TopCommits(w)
  PROVE  AreaInv'
<1>0. PICK j : j = request[w]
  OBVIOUS
<1>1. /\ j \in AreaJob /\ j.op = "top" /\ status[j.c] # "absent" /\ j.c \in Comment
      /\ j.seen \in SeenRow({"normal"}) /\ j.on \in BOOLEAN /\ j.old \in BOOLEAN
      /\ ~Syncs(request[w])
  BY <1>0, AreaJobParts DEF AreaInv, AreaTypes, RequestsFit, TopCommits, Syncs,
     OnAComment
<1>2. AreaTypes /\ AreaFinite /\ RequestsFit
  BY DEF AreaInv
<1>3. PICK old, t :
        /\ old = j.seen.pinned
        /\ t = IF j.on THEN (IF old # j.c THEN j.c ELSE subject.top)
               ELSE IF old = j.c THEN NoComment ELSE subject.top
  OBVIOUS
<1>4. /\ subject' = [subject EXCEPT !.top = t]
      /\ cause' = cause \cup Changed(j)
                   \cup If(old # NoComment /\ topBit[old] # j.old, "top")
      /\ Finish(w)
      /\ UNCHANGED <<status, rootOf, floor, rcount, commentCount>>
  BY <1>0, <1>3 DEF TopCommits, Meets
<1>5. /\ j.on => topBit' = [c \in Comment |->
                             \/ c = j.c /\ (topBit[c] \/ ~j.seen.top)
                             \/ /\ c # j.c
                                /\ topBit[c]
                                /\ ~(c = old /\ j.old)]
      /\ ~j.on => topBit' = [topBit EXCEPT ![j.c] = @ /\ ~(old = j.c /\ j.seen.top)]
  BY <1>0, <1>3 DEF TopCommits
<1>6. /\ subject'.all = subject.all /\ subject'.root = subject.root
      /\ subject'.seq = subject.seq /\ subject'.top = t
      /\ subject' \in Subject
      /\ subject.top \in Comment \cup {NoComment} /\ t \in Comment \cup {NoComment}
  BY <1>1, <1>2, <1>3, <1>4, SubjectParts DEF AreaTypes, Subject
<1>7. topBit' \in [Comment -> BOOLEAN]
  BY <1>1, <1>2, <1>5 DEF AreaTypes
<1>8. AreaTypes' /\ RequestsFit'
  <2>1. cause' \subseteq Cause
    BY <1>2, <1>4 DEF AreaTypes, Cause, Changed, StatusChanged, If
  <2>2. RequestsFit' /\ request' \in [AreaWorker -> AreaJob]
    BY <1>2, <1>4, AnswerFits
  <2> QED BY <1>2, <1>4, <1>6, <1>7, <2>1, <2>2 DEF AreaTypes
<1>9. /\ IsFiniteSet(Syncing')
      /\ \A d \in {-1, 1} :
           /\ Cardinality(Owed(d)') = Cardinality(Owed(d))
           /\ Cardinality(OwedRoot(d)') = Cardinality(OwedRoot(d))
  BY <1>1, <1>2, <1>4, OwedSame
<1>10. /\ Visible' = Visible /\ VisibleRoots' = VisibleRoots /\ Stored' = Stored
  BY <1>4 DEF Visible, VisibleRoots, Stored
<1>11. cause \subseteq cause' /\ ("floor" \in cause' => "floor" \in cause)
  BY <1>4 DEF Changed, StatusChanged, If
<1>12. AreaFinite' /\ CountersExact' /\ CountersEnough'
  BY <1>4, <1>6, <1>9, <1>10, <1>11
     DEF AreaInv, AreaFinite, CountersExact, CountersEnough
<1>13. RepliesCounted'
  BY <1>4, <1>11, RepliesStay DEF AreaInv
<1>14. FloorsGiven' /\ FloorsDistinct'
  BY <1>2, <1>4, <1>6, <1>10, <1>11, FloorsStay DEF AreaInv
<1>15. TopIsMarked'
  <2>1. SUFFICES ASSUME cause' \cap {"top", "tree", "revived"} = {} PROVE TopIsMarked'
    BY DEF TopIsMarked
  <2>2. /\ cause \cap {"top", "tree", "revived"} = {}
        /\ topBit[j.c] = j.seen.top /\ subject.top = old
        /\ status[j.c] = j.seen.status
        /\ old # NoComment => topBit[old] = j.old
    BY <1>3, <1>4, <2>1 DEF Changed, StatusChanged, If
  <2>3. /\ {c \in Comment : topBit[c]} = {subject.top} \ {NoComment}
        /\ subject.top # NoComment => status[subject.top] # "deleted"
    BY <2>2 DEF AreaInv, TopIsMarked
  <2>4. status[j.c] # "deleted" /\ NoComment \notin Comment
    BY <1>1, <2>2, AreaAssumption DEF SeenRow
  <2>5. \A c \in Comment : topBit[c] <=> c = subject.top
    BY <2>3, <2>4, <1>2 DEF AreaTypes
  <2>6. CASE j.on
    <3>1. t = j.c
      BY <1>3, <2>2, <2>6
    <3>2. \A c \in Comment : topBit'[c] <=> c = j.c
      BY <1>1, <1>2, <1>5, <2>2, <2>4, <2>5, <2>6 DEF AreaTypes
    <3>3. {c \in Comment : topBit'[c]} = {t} \ {NoComment}
      BY <1>1, <2>4, <3>1, <3>2
    <3> QED BY <1>4, <1>6, <2>4, <3>1, <3>3 DEF TopIsMarked
  <2>7. CASE ~j.on
    <3>1. t = IF subject.top = j.c THEN NoComment ELSE subject.top
      BY <1>3, <2>2, <2>7
    <3>2. \A c \in Comment : topBit'[c] <=> c = subject.top /\ c # j.c
      BY <1>1, <1>2, <1>5, <2>2, <2>4, <2>5, <2>7 DEF AreaTypes
    <3>3. {c \in Comment : topBit'[c]} = {t} \ {NoComment}
      BY <1>6, <2>4, <3>1, <3>2
    <3> QED BY <1>4, <1>6, <2>3, <3>1, <3>3 DEF TopIsMarked
  <2> QED BY <1>1, <2>6, <2>7
<1> QED BY <1>8, <1>12, <1>13, <1>14, <1>15 DEF AreaInv

LEMMA NothingOwed ==
  Syncing = {} => \A d \in {-1, 1} : /\ Cardinality(Owed(d)) = 0
                                     /\ Cardinality(OwedRoot(d)) = 0
<1>1. Syncing = {} => \A d \in {-1, 1} : Owed(d) = {} /\ OwedRoot(d) = {}
  BY DEF Owed, OwedRoot
<1> QED BY <1>1, FS_EmptySet

LEMMA RecountCommitsStep ==
  ASSUME AreaInv, NEW w \in AreaWorker, RecountCommits(w)
  PROVE  AreaInv'
<1>0. PICK j : j = request[w]
  OBVIOUS
<1>1. /\ j \in AreaJob /\ j.op = "recount" /\ ~Syncs(request[w])
      /\ j.all \in Nat /\ j.root \in Nat /\ j.stat \in Nat /\ j.row \in Int \X Int
  BY <1>0, AreaJobParts DEF AreaInv, AreaTypes, RecountCommits, Syncs
<1>2. AreaTypes /\ AreaFinite /\ RequestsFit
  BY DEF AreaInv
<1>3. PICK a, b : /\ a = IF j.row[1] # j.all THEN j.all ELSE subject.all
                  /\ b = IF j.row[2] # j.root THEN j.root ELSE subject.root
  OBVIOUS
<1>4. PICK clean \in BOOLEAN : clean = (/\ <<subject.all, subject.root>> = j.row
                            /\ commentCount = j.stat
                            /\ Cardinality(Visible) = j.all
                            /\ Cardinality(VisibleRoots) = j.root
                            /\ Syncing = {})
  OBVIOUS
<1>5. /\ subject' = [subject EXCEPT !.all = a, !.root = b]
      /\ commentCount' = IF j.stat # j.all THEN j.all ELSE commentCount
      /\ cause' = IF clean THEN cause \ Repaired ELSE cause \cup {"counter"}
      /\ Finish(w)
      /\ UNCHANGED <<status, rootOf, topBit, floor, rcount>>
  BY <1>0, <1>3, <1>4 DEF RecountCommits
<1>6. subject' = [all |-> a, root |-> b, seq |-> subject.seq, top |-> subject.top]
  BY <1>2, <1>5, RowAfterCount DEF AreaTypes
<1>7. AreaTypes' /\ RequestsFit'
  <2>1. subject' \in Subject
    BY <1>1, <1>2, <1>3, <1>6, SubjectParts DEF Subject
  <2>2. RequestsFit' /\ request' \in [AreaWorker -> AreaJob]
    BY <1>2, <1>5, AnswerFits
  <2> QED BY <1>1, <1>2, <1>5, <2>1, <2>2 DEF AreaTypes, Cause
<1>8. /\ IsFiniteSet(Syncing')
      /\ \A d \in {-1, 1} : /\ Cardinality(Owed(d)') = Cardinality(Owed(d))
                            /\ Cardinality(OwedRoot(d)') = Cardinality(OwedRoot(d))
  BY <1>1, <1>2, <1>5, OwedSame
<1>9. /\ Visible' = Visible /\ VisibleRoots' = VisibleRoots /\ Stored' = Stored
      /\ RepliesCounted' /\ FloorsGiven' /\ FloorsDistinct' /\ TopIsMarked'
  BY <1>5, <1>6, OnlyCounters DEF Repaired
<1>10. CountersExact' /\ CountersEnough'
  <2>1. CASE clean
    <3>1. /\ a = Cardinality(Visible) /\ b = Cardinality(VisibleRoots)
          /\ commentCount' = a
      <4>1. PICK row : row = j.row
        OBVIOUS
      <4>2. /\ row = <<subject.all, subject.root>> /\ commentCount = j.stat
            /\ Cardinality(Visible) = j.all /\ Cardinality(VisibleRoots) = j.root
        BY <1>4, <2>1, <4>1
      <4>3. row[1] = subject.all /\ row[2] = subject.root
        BY <4>2
      <4> QED BY <1>3, <1>5, <4>1, <4>2, <4>3
    <3>2. \A d \in {-1, 1} : Cardinality(Owed(d)) = 0 /\ Cardinality(OwedRoot(d)) = 0
      BY <1>4, <2>1, NothingOwed
    <3>3. a \in Int /\ b \in Int
      BY <1>1, <1>2, <1>3, SubjectParts
    <3> QED BY <1>6, <1>8, <1>9, <3>1, <3>2, <3>3 DEF CountersExact, CountersEnough
  <2>2. CASE ~clean
    BY <1>5, <2>2 DEF CountersExact, CountersEnough, Repaired
  <2> QED BY <2>1, <2>2
<1> QED BY <1>2, <1>7, <1>8, <1>9, <1>10 DEF AreaInv, AreaFinite

LEMMA AreaInvInit == AreaInit => AreaInv
<1> SUFFICES ASSUME AreaInit PROVE AreaInv
  OBVIOUS
<1>1. /\ Stored = {} /\ Visible = {} /\ VisibleRoots = {} /\ Syncing = {}
  BY DEF AreaInit, Stored, Visible, VisibleRoots, Syncing, Idle
<1>2. AreaTypes /\ RequestsFit
  BY DEF AreaInit, AreaTypes, RequestsFit, Status, Subject, AreaJob, Idle, OnAComment
<1>3. AreaFinite /\ CountersExact /\ CountersEnough
  BY <1>1, FS_EmptySet, NothingOwed
     DEF AreaInit, AreaFinite, CountersExact, CountersEnough
<1>4. RepliesCounted
  <2>1. \A c \in Comment : {d \in Stored : rootOf[d] = c /\ status[d] # "deleted"} = {}
    BY <1>1
  <2> QED BY <2>1, FS_EmptySet DEF RepliesCounted, AreaInit
<1>5. FloorsGiven /\ FloorsDistinct /\ TopIsMarked
  BY <1>1 DEF FloorsGiven, FloorsDistinct, TopIsMarked, AreaInit
<1> QED BY <1>2, <1>3, <1>4, <1>5 DEF AreaInv

LEMMA AreaInvNext == AreaInv /\ [AreaNext]_areaVars => AreaInv'
<1> SUFFICES ASSUME AreaInv, [AreaNext]_areaVars PROVE AreaInv'
  OBVIOUS
<1>1. CASE UNCHANGED areaVars
  BY <1>1 DEF areaVars, AreaInv, AreaTypes, RequestsFit, AreaFinite, CountersExact,
     CountersEnough, RepliesCounted, FloorsGiven, FloorsDistinct, TopIsMarked,
     Stored, Visible, VisibleRoots, Syncing, Owed, OwedRoot, IsRoot
<1>2. ASSUME NEW w \in AreaWorker, NEW c \in Comment,
             \/ \E r \in Comment \cup {NoComment} : AddReads(w, c, r)
             \/ DeleteReads(w, c)
             \/ \E on \in BOOLEAN : TopReads(w, c, on)
             \/ \E to \in Status : SetReads(w, c, to)
             \/ HideReads(w, c)
      PROVE  AreaInv'
  BY <1>2, ReadsStep
<1>3. ASSUME NEW w \in AreaWorker, NEW s \in Status, AddCommits(w, s)
      PROVE  AreaInv'
  BY <1>3, AddCommitsStep
<1>4. ASSUME NEW w \in AreaWorker,
             \/ DeleteCommits(w) \/ TopCommits(w) \/ SetCommits(w)
             \/ SyncReads(w) \/ SyncWrites(w) \/ SyncLost(w)
             \/ HideCommits(w) \/ RecountReads(w) \/ RecountCommits(w)
      PROVE  AreaInv'
  BY <1>4, DeleteCommitsStep, TopCommitsStep, SetCommitsStep, SyncReadsStep,
     SyncWritesStep, SyncLostStep, HideCommitsStep, RecountReadsStep, RecountCommitsStep
<1> QED BY <1>1, <1>2, <1>3, <1>4 DEF AreaNext

\* Whatever requests overlap, the counters of an area and of its moment are the
\* numbers of visible comments, every comment knows its replies, floors are
\* distinct and the pinned comment is marked, but for the named causes (add,
\* delete, set_top, set_state, hide, the recount script).
THEOREM CommentsAreCounted == AreaSpec => []CommentsHold
<1>1. AreaInv => CommentsHold
  <2> SUFFICES ASSUME AreaInv PROVE CommentsHold
    OBVIOUS
  <2>1. CountersAreVisible /\ TakedownOnlyOvercounts
    <3>1. Syncing = {} => \A d \in {-1, 1} : /\ Cardinality(Owed(d)) = 0
                                             /\ Cardinality(OwedRoot(d)) = 0
      BY NothingOwed
    <3>2. subject.all \in Int /\ subject.root \in Int
      BY SubjectParts DEF AreaInv
    <3> QED BY <3>1, <3>2 DEF AreaInv, CountersExact, CountersEnough,
                              CountersAreVisible, TakedownOnlyOvercounts
  <2> QED BY <2>1 DEF AreaInv, CommentsHold
<1> QED BY <1>1, AreaInvInit, AreaInvNext, PTL DEF AreaSpec

-----------------------------------------------------------------------------
(* Moments, their forwards and what repeats their state.                   *)

StoredRow(S, D) == [status : S, src : Moment \cup {NoMoment}, deleted : D, top : BOOLEAN]
KeptStatus == MomentStatus \ {"absent"}

MomentJob ==
  {NoJob}
    \cup [op : {"publish"}, m : Moment, src : Moment \cup {NoMoment}]
    \cup [op : {"approve", "reject"}, m : Moment, row : StoredRow(KeptStatus, BOOLEAN)]
    \cup [op : {"hide", "remove"}, m : Moment, row : StoredRow(KeptStatus, {FALSE})]
    \cup [op : {"top"}, m : Moment, on : BOOLEAN, row : StoredRow({"normal"}, {FALSE})]

OnARow == {"approve", "reject", "hide", "remove", "top"}

MomentTypes ==
  /\ moment \in [Moment -> MomentRow]
  /\ feed \in [Moment -> FeedRow]
  /\ lastLog \in [Moment -> MomentStatus]
  /\ repostCount \in [Moment -> Nat]
  /\ momentJob \in [MomentWorker -> MomentJob]
  /\ drift \subseteq Drift

\* A moment that is being published is in one request and not stored yet; any
\* other request is about a stored one.
MomentJobsFit ==
  \A w \in MomentWorker :
    /\ momentJob[w].op = "publish" =>
         /\ moment[momentJob[w].m].status = "absent"
         /\ \A v \in MomentWorker :
              momentJob[v].op = "publish" /\ momentJob[v].m = momentJob[w].m => v = w
    /\ momentJob[w].op \in OnARow => moment[momentJob[w].m].status # "absent"

AbsentIsEmpty == \A m \in Moment : moment[m].status = "absent" => moment[m] = NoRow

\* The inductive invariant.
MomentInv ==
  /\ MomentTypes /\ MomentJobsFit /\ AbsentIsEmpty /\ IsFiniteSet(Published)
  /\ RepostsNeverMissing /\ UnauditedNeverOvercounts
  /\ FeedAgrees /\ NoDeletedPin /\ LogEndsInStatus

Shows(row) == row.status = "normal" /\ ~row.deleted
ForwardsIn(rows, s) == {f \in Moment : rows[f].src = s /\ Shows(rows[f])}

LEMMA MomentJobParts ==
  \A j \in MomentJob :
    /\ j.op \in OnARow \cup {"publish"} => j.m \in Moment
    /\ j.op = "publish" => j.src \in Moment \cup {NoMoment}
    /\ j.op \in {"approve", "reject"} => j.row \in StoredRow(KeptStatus, BOOLEAN)
    /\ j.op \in {"hide", "remove"} => j.row \in StoredRow(KeptStatus, {FALSE})
    /\ j.op = "top" => j.on \in BOOLEAN /\ j.row \in StoredRow({"normal"}, {FALSE})
BY DEF MomentJob, OnARow, NoJob

\* The row of one moment changes.
LEMMA ForwardsMove ==
  ASSUME MomentTypes, AbsentIsEmpty, IsFiniteSet(Published),
         NEW m \in Moment, NEW row \in MomentRow,
         moment' = [moment EXCEPT ![m] = row], row.status # "absent"
  PROVE  /\ IsFiniteSet(Published')
         /\ \A s \in Moment :
              /\ Cardinality(ForwardsIn(moment, s)) \in Nat
              /\ Cardinality(ForwardsIn(moment', s)) \in Nat
              /\ Cardinality(ForwardsIn(moment', s))
                   = Cardinality(ForwardsIn(moment, s))
                       + One(m \in ForwardsIn(moment', s)) - One(m \in ForwardsIn(moment, s))
<1>1. Published' \ {m} = Published \ {m}
  BY DEF Published, MomentTypes
<1>2. IsFiniteSet(Published')
  BY <1>1, CountMoves
<1>3. ASSUME NEW s \in Moment
      PROVE  /\ Cardinality(ForwardsIn(moment, s)) \in Nat
             /\ Cardinality(ForwardsIn(moment', s)) \in Nat
             /\ Cardinality(ForwardsIn(moment', s))
                  = Cardinality(ForwardsIn(moment, s))
                      + One(m \in ForwardsIn(moment', s)) - One(m \in ForwardsIn(moment, s))
  <2>1. PICK S, T : S = ForwardsIn(moment, s) /\ T = ForwardsIn(moment', s)
    OBVIOUS
  <2>2. /\ ForwardsIn(moment, s) \subseteq Published
        /\ ForwardsIn(moment', s) \ {m} = ForwardsIn(moment, s) \ {m}
    BY DEF MomentTypes, Published, ForwardsIn, Shows
  <2>3. IsFiniteSet(S) /\ T \ {m} = S \ {m}
    BY <2>1, <2>2, FS_Subset
  <2>4. /\ Cardinality(S) \in Nat /\ Cardinality(T) \in Nat
        /\ Cardinality(T) = Cardinality(S) + One(m \in T) - One(m \in S)
    BY <2>3, CountMoves
  <2> QED BY <2>1, <2>4
<1> QED BY <1>2, <1>3

Gain(m, row) == One(Shows(row)) - One(Shows(moment[m]))

\* The counter of the forwarded moment moves with its forwards.
LEMMA CountsFollow ==
  ASSUME MomentInv, NEW m \in Moment, NEW row \in MomentRow, NEW delta \in {-1, 0, 1},
         moment' = [moment EXCEPT ![m] = row], row.status # "absent",
         moment[m].status = "absent" \/ moment[m].src = row.src,
         repostCount' = [s \in Moment |->
            FloorZero(repostCount[s] + IF s = row.src THEN delta ELSE 0)],
         drift \subseteq drift',
         drift' \cap {"passed", "twice", "row"} = {} /\ row.src # NoMoment
           => delta >= Gain(m, row),
         drift' \cap {"again", "hidden", "gone", "row"} = {} /\ row.src # NoMoment
           => delta <= Gain(m, row)
  PROVE  /\ IsFiniteSet(Published') /\ repostCount' \in [Moment -> Nat]
         /\ RepostsNeverMissing' /\ UnauditedNeverOvercounts'
<1>1. MomentTypes /\ AbsentIsEmpty /\ IsFiniteSet(Published)
  BY DEF MomentInv
<1>2. /\ IsFiniteSet(Published')
      /\ \A s \in Moment :
           /\ Cardinality(ForwardsIn(moment, s)) \in Nat
           /\ Cardinality(ForwardsIn(moment', s)) \in Nat
           /\ Cardinality(ForwardsIn(moment', s))
                = Cardinality(ForwardsIn(moment, s))
                    + One(m \in ForwardsIn(moment', s)) - One(m \in ForwardsIn(moment, s))
  BY <1>1, ForwardsMove
<1>3. \A s \in Moment :
        /\ m \in ForwardsIn(moment', s) <=> s = row.src /\ Shows(row)
        /\ m \in ForwardsIn(moment, s) => s = row.src
        /\ s = row.src => (m \in ForwardsIn(moment, s) <=> Shows(moment[m]))
  <2>1. moment'[m] = row
    BY <1>1 DEF MomentTypes
  <2>2. moment[m].status = "absent" => ~Shows(moment[m])
    BY DEF Shows
  <2> QED BY <2>1, <2>2 DEF ForwardsIn
<1>4. \A s \in Moment :
        Cardinality(ForwardsIn(moment', s))
          = Cardinality(ForwardsIn(moment, s)) + IF s = row.src THEN Gain(m, row) ELSE 0
  <2> TAKE s \in Moment
  <2>1. PICK S, T : S = ForwardsIn(moment, s) /\ T = ForwardsIn(moment', s)
    OBVIOUS
  <2>2. /\ Cardinality(S) \in Nat
        /\ Cardinality(T) = Cardinality(S) + One(m \in T) - One(m \in S)
    BY <1>2, <2>1
  <2>3. /\ m \in T <=> s = row.src /\ Shows(row)
        /\ m \in S => s = row.src
        /\ s = row.src => (m \in S <=> Shows(moment[m]))
    BY <1>3, <2>1
  <2> QED BY <2>1, <2>2, <2>3 DEF One, Gain
<1>5. \A s \in Moment : repostCount[s] \in Nat /\ s # NoMoment
  BY <1>1, MomentAssumption DEF MomentTypes
<1>6. \A s \in Moment :
        repostCount'[s] = FloorZero(repostCount[s] + IF s = row.src THEN delta ELSE 0)
  OBVIOUS
<1>7. repostCount' \in [Moment -> Nat]
  BY <1>5 DEF FloorZero
<1>8. Gain(m, row) \in {-1, 0, 1}
  BY DEF Gain, One
<1>9. \A s \in Moment : Forwards(s) = ForwardsIn(moment, s)
  BY DEF Forwards, ForwardsIn, Public, Shows
<1>10. RepostsNeverMissing'
  <2>1. SUFFICES ASSUME drift' \cap {"passed", "twice", "row"} = {}, NEW s \in Moment
                 PROVE  repostCount'[s] >= Cardinality(ForwardsIn(moment', s))
    BY DEF RepostsNeverMissing, Forwards, ForwardsIn, Public, Shows
  <2>2. repostCount[s] >= Cardinality(ForwardsIn(moment, s))
    BY <1>9, <2>1 DEF MomentInv, RepostsNeverMissing
  <2>3. PICK a, b : /\ a = Cardinality(ForwardsIn(moment, s))
                    /\ b = Cardinality(ForwardsIn(moment', s))
    OBVIOUS
  <2>4. a \in Nat /\ b = a + IF s = row.src THEN Gain(m, row) ELSE 0
    BY <1>2, <1>4, <2>3
  <2>5. s = row.src => delta >= Gain(m, row)
    BY <1>5, <2>1
  <2> QED BY <1>5, <1>6, <1>8, <2>2, <2>3, <2>4, <2>5 DEF FloorZero
<1>11. UnauditedNeverOvercounts'
  <2>1. SUFFICES ASSUME drift' \cap {"again", "hidden", "gone", "row"} = {}, NEW s \in Moment
                 PROVE  repostCount'[s] <= Cardinality(ForwardsIn(moment', s))
    BY DEF UnauditedNeverOvercounts, Forwards, ForwardsIn, Public, Shows
  <2>2. repostCount[s] <= Cardinality(ForwardsIn(moment, s))
    BY <1>9, <2>1 DEF MomentInv, UnauditedNeverOvercounts
  <2>3. PICK a, b : /\ a = Cardinality(ForwardsIn(moment, s))
                    /\ b = Cardinality(ForwardsIn(moment', s))
    OBVIOUS
  <2>4. a \in Nat /\ b \in Nat /\ b = a + IF s = row.src THEN Gain(m, row) ELSE 0
    BY <1>2, <1>4, <2>3
  <2>5. s = row.src => delta <= Gain(m, row)
    BY <1>5, <2>1
  <2> QED BY <1>5, <1>6, <1>8, <2>2, <2>3, <2>4, <2>5 DEF FloorZero
<1> QED BY <1>2, <1>7, <1>10, <1>11

LEMMA MomentAnswerFits ==
  ASSUME MomentTypes, MomentJobsFit, NEW w \in MomentWorker, Done(w),
         NEW m \in Moment, NEW row \in MomentRow,
         moment' = [moment EXCEPT ![m] = row], row.status # "absent",
         moment[m].status = "absent" =>
           momentJob[w].op = "publish" /\ momentJob[w].m = m
  PROVE  MomentJobsFit' /\ momentJob' \in [MomentWorker -> MomentJob]
<1>1. /\ \A v \in MomentWorker : momentJob[v] \in MomentJob
      /\ \A v \in MomentWorker : momentJob'[v] = IF v = w THEN NoJob ELSE momentJob[v]
      /\ NoJob \in MomentJob /\ NoJob.op = "idle"
  BY DEF MomentTypes, Done, MomentJob, NoJob
<1>2. \A v \in MomentWorker : momentJob[v].op \in OnARow \cup {"publish"} =>
        momentJob[v].m \in Moment
  BY <1>1, MomentJobParts
<1>3. MomentJobsFit'
  BY <1>1, <1>2 DEF MomentTypes, MomentJobsFit, OnARow
<1> QED BY <1>1, <1>3 DEF MomentTypes, Done

LEMMA LoadStep ==
  ASSUME MomentInv, NEW w \in MomentWorker, NEW j \in MomentJob, Load(w, j),
         j.op = "publish" =>
           /\ moment[j.m].status = "absent"
           /\ \A v \in MomentWorker : momentJob[v] # NoJob => momentJob[v].m # j.m,
         j.op \in OnARow => moment[j.m].status # "absent"
  PROVE  MomentInv'
<1>1. /\ \A v \in MomentWorker : momentJob[v] \in MomentJob
      /\ \A v \in MomentWorker : momentJob'[v] = IF v = w THEN j ELSE momentJob[v]
      /\ momentJob' \in [MomentWorker -> MomentJob]
      /\ UNCHANGED <<moment, feed, lastLog, repostCount, drift>>
  BY DEF MomentInv, MomentTypes, Load
<1>2. MomentJobsFit'
  BY <1>1 DEF MomentInv, MomentJobsFit, NoJob
<1>3. Published' = Published
  BY <1>1 DEF Published
<1>4. RepostsNeverMissing' /\ UnauditedNeverOvercounts'
  BY <1>1 DEF MomentInv, RepostsNeverMissing, UnauditedNeverOvercounts, Forwards, Public
<1> QED BY <1>1, <1>2, <1>3, <1>4 DEF MomentInv, MomentTypes, AbsentIsEmpty,
           FeedAgrees, NoDeletedPin, LogEndsInStatus

LEMMA LoadsStep ==
  ASSUME MomentInv, NEW w \in MomentWorker, NEW m \in Moment,
         \/ \E s \in Moment \cup {NoMoment} : PublishLoads(w, m, s)
         \/ \E op \in {"approve", "reject"} : AuditLoads(w, m, op)
         \/ HideLoads(w, m)
         \/ RemoveLoads(w, m)
         \/ \E on \in BOOLEAN : PinLoads(w, m, on)
  PROVE  MomentInv'
<1> USE DEF OnARow
<1>0. /\ moment[m] \in MomentRow
      /\ moment[m].status # "absent" => moment[m] \in StoredRow(KeptStatus, BOOLEAN)
      /\ moment[m].status # "absent" /\ ~moment[m].deleted =>
           moment[m] \in StoredRow(KeptStatus, {FALSE})
      /\ Public(m) => moment[m] \in StoredRow({"normal"}, {FALSE})
  BY DEF MomentInv, MomentTypes, MomentRow, StoredRow, KeptStatus, Public
<1>1. ASSUME NEW s \in Moment \cup {NoMoment}, PublishLoads(w, m, s) PROVE MomentInv'
  <2>1. PICK j : j = [op |-> "publish", m |-> m, src |-> s]
    OBVIOUS
  <2>2. j \in MomentJob /\ Load(w, j)
    BY <1>1, <2>1 DEF MomentJob, PublishLoads
  <2> QED BY <1>1, <2>1, <2>2, LoadStep DEF PublishLoads
<1>2. ASSUME NEW op \in {"approve", "reject"}, AuditLoads(w, m, op) PROVE MomentInv'
  <2>1. PICK j : j = [op |-> op, m |-> m, row |-> moment[m]]
    OBVIOUS
  <2>2. j \in MomentJob /\ Load(w, j) /\ moment[m].status # "absent"
    BY <1>0, <1>2, <2>1 DEF MomentJob, AuditLoads, Published
  <2> QED BY <2>1, <2>2, LoadStep
<1>3. CASE HideLoads(w, m)
  <2>1. PICK j : j = [op |-> "hide", m |-> m, row |-> moment[m]]
    OBVIOUS
  <2>2. j \in MomentJob /\ Load(w, j) /\ moment[m].status # "absent"
    BY <1>0, <1>3, <2>1 DEF MomentJob, HideLoads, Published
  <2> QED BY <2>1, <2>2, LoadStep
<1>4. CASE RemoveLoads(w, m)
  <2>1. PICK j : j = [op |-> "remove", m |-> m, row |-> moment[m]]
    OBVIOUS
  <2>2. j \in MomentJob /\ Load(w, j) /\ moment[m].status # "absent"
    BY <1>0, <1>4, <2>1 DEF MomentJob, RemoveLoads, Published
  <2> QED BY <2>1, <2>2, LoadStep
<1>5. ASSUME NEW on \in BOOLEAN, PinLoads(w, m, on) PROVE MomentInv'
  <2>1. PICK j : j = [op |-> "top", m |-> m, on |-> on, row |-> moment[m]]
    OBVIOUS
  <2>2. j \in MomentJob /\ Load(w, j) /\ moment[m].status # "absent"
    BY <1>0, <1>5, <2>1 DEF MomentJob, PinLoads, Public
  <2> QED BY <2>1, <2>2, LoadStep
<1> QED BY <1>1, <1>2, <1>3, <1>4, <1>5

\* What every commit does: one row, the counter its source has, and what
\* repeats the row elsewhere.
LEMMA CommitStep ==
  ASSUME MomentInv, NEW w \in MomentWorker, Done(w),
         NEW m \in Moment, NEW row \in MomentRow, NEW delta \in {-1, 0, 1},
         NEW f \in FeedRow, NEW l \in MomentStatus,
         moment' = [moment EXCEPT ![m] = row], row.status # "absent",
         feed' = [feed EXCEPT ![m] = f], lastLog' = [lastLog EXCEPT ![m] = l],
         moment[m].status = "absent" =>
           momentJob[w].op = "publish" /\ momentJob[w].m = m,
         moment[m].status = "absent" \/ moment[m].src = row.src,
         repostCount' = [s \in Moment |->
            FloorZero(repostCount[s] + IF s = row.src THEN delta ELSE 0)],
         drift \subseteq drift', drift' \subseteq Drift,
         drift' \cap {"passed", "twice", "row"} = {} /\ row.src # NoMoment
           => delta >= Gain(m, row),
         drift' \cap {"again", "hidden", "gone", "row"} = {} /\ row.src # NoMoment
           => delta <= Gain(m, row),
         "row" \notin drift' => f.status = row.status /\ f.deleted = row.deleted,
         drift' \cap {"row", "pin"} = {} => ~(row.deleted /\ row.top),
         drift' \cap {"unlogged", "row"} = {} => l = row.status
  PROVE  MomentInv'
<1>1. MomentTypes /\ MomentJobsFit /\ AbsentIsEmpty
  BY DEF MomentInv
<1>2. /\ IsFiniteSet(Published') /\ repostCount' \in [Moment -> Nat]
      /\ RepostsNeverMissing' /\ UnauditedNeverOvercounts'
  BY CountsFollow
<1>3. MomentJobsFit' /\ momentJob' \in [MomentWorker -> MomentJob]
  BY <1>1, MomentAnswerFits
<1>4. /\ moment' \in [Moment -> MomentRow] /\ feed' \in [Moment -> FeedRow]
      /\ lastLog' \in [Moment -> MomentStatus]
      /\ \A x \in Moment : moment'[x] = IF x = m THEN row ELSE moment[x]
      /\ \A x \in Moment : feed'[x] = IF x = m THEN f ELSE feed[x]
      /\ \A x \in Moment : lastLog'[x] = IF x = m THEN l ELSE lastLog[x]
  BY <1>1 DEF MomentTypes
<1>5. AbsentIsEmpty'
  BY <1>1, <1>4 DEF AbsentIsEmpty
<1>6. FeedAgrees'
  BY <1>4 DEF MomentInv, FeedAgrees
<1>7. NoDeletedPin'
  BY <1>4 DEF MomentInv, NoDeletedPin
<1>8. LogEndsInStatus'
  BY <1>4 DEF MomentInv, LogEndsInStatus
<1>9. MomentTypes'
  BY <1>2, <1>3, <1>4 DEF MomentTypes
<1> QED BY <1>2, <1>3, <1>5, <1>6, <1>7, <1>8, <1>9 DEF MomentInv

\* What a request on a stored row finds when it commits.
LEMMA OnARowParts ==
  ASSUME MomentInv, NEW w \in MomentWorker, momentJob[w].op \in OnARow
  PROVE  /\ momentJob[w] \in MomentJob /\ momentJob[w].m \in Moment
         /\ moment[momentJob[w].m] \in StoredRow(KeptStatus, BOOLEAN)
         /\ feed[momentJob[w].m] \in FeedRow
         /\ lastLog[momentJob[w].m] \in MomentStatus
         /\ \A s \in Moment : repostCount[s] \in Nat
         /\ NoMoment \notin Moment
<1>1. momentJob[w] \in MomentJob /\ momentJob[w].m \in Moment
  BY MomentJobParts DEF MomentInv, MomentTypes
<1>2. moment[momentJob[w].m].status # "absent"
  BY DEF MomentInv, MomentJobsFit
<1> QED BY <1>1, <1>2, MomentAssumption
    DEF MomentInv, MomentTypes, MomentRow, StoredRow, KeptStatus

LEMMA ApprovesStep ==
  ASSUME MomentInv, NEW w \in MomentWorker, Approves(w)
  PROVE  MomentInv'
<1>1. PICK j : j = momentJob[w]
  OBVIOUS
<1>2. PICK m : m = j.m
  OBVIOUS
<1>3. /\ j \in MomentJob /\ j.op = "approve" /\ m \in Moment
      /\ moment[m] \in StoredRow(KeptStatus, BOOLEAN)
      /\ feed[m] \in FeedRow /\ j.row \in StoredRow(KeptStatus, BOOLEAN)
  BY <1>1, <1>2, OnARowParts, MomentJobParts DEF Approves, OnARow
<1>4. PICK s : s = Written("normal", j.row.status, moment[m].status)
  OBVIOUS
<1>5. s \in KeptStatus /\ (Same(m, j.row) => s = "normal")
  BY <1>3, <1>4 DEF StoredRow, KeptStatus, Written, MomentStatus, Same
<1>6. PICK row : row = [moment[m] EXCEPT !.status = s]
  OBVIOUS
<1>7. /\ row \in MomentRow /\ row.status = s /\ row.src = moment[m].src
      /\ row.deleted = moment[m].deleted /\ row.top = moment[m].top
      /\ s # "absent"
  BY <1>3, <1>5, <1>6 DEF StoredRow, KeptStatus, MomentRow, MomentStatus
<1>8. PICK f : f = [feed[m] EXCEPT !.status = "normal"]
  OBVIOUS
<1>9. f \in FeedRow /\ f.status = "normal" /\ f.deleted = feed[m].deleted
  BY <1>3, <1>8 DEF FeedRow, MomentStatus
<1>10. /\ moment' = [moment EXCEPT ![m] = row]
       /\ feed' = [feed EXCEPT ![m] = f]
       /\ lastLog' = [lastLog EXCEPT ![m] = "normal"]
       /\ Done(w)
  BY <1>1, <1>2, <1>4, <1>6, <1>8, Zenon DEF Approves
<1>11. repostCount' = [x \in Moment |->
            FloorZero(repostCount[x] + IF x = row.src THEN 1 ELSE 0)]
  BY <1>1, <1>2, <1>7, Zenon DEF Approves, Repost
<1>12. /\ drift \subseteq drift' /\ drift' \subseteq Drift
       /\ "row" \notin drift' => Same(m, j.row)
       /\ "pin" \notin drift' => moment[m].top = j.row.top
       /\ moment[m].src # NoMoment /\ "again" \notin drift' => j.row.status # "normal"
       /\ moment[m].src # NoMoment /\ "gone" \notin drift' => ~j.row.deleted
  BY <1>1, <1>2 DEF Approves, Drifts, Drift, ForwardOf, MomentInv, MomentTypes
<1>13. "row" \notin drift =>
          feed[m].deleted = moment[m].deleted
  BY <1>3 DEF MomentInv, FeedAgrees
<1>14. drift \cap {"row", "pin"} = {} => ~(moment[m].deleted /\ moment[m].top)
  BY <1>3 DEF MomentInv, NoDeletedPin
<1>15. /\ drift' \cap {"passed", "twice", "row"} = {} /\ row.src # NoMoment
            => 1 >= Gain(m, row)
       /\ drift' \cap {"again", "hidden", "gone", "row"} = {} /\ row.src # NoMoment
            => 1 <= Gain(m, row)
  BY <1>5, <1>7, <1>12 DEF Gain, One, Shows, Same
<1>16. moment[m].status # "absent"
  BY <1>3 DEF StoredRow, KeptStatus
<1>17. "normal" \in MomentStatus
  BY DEF MomentStatus
<1>18. /\ "row" \notin drift' => f.status = row.status /\ f.deleted = row.deleted
       /\ drift' \cap {"row", "pin"} = {} => ~(row.deleted /\ row.top)
       /\ drift' \cap {"unlogged", "row"} = {} => "normal" = row.status
  BY <1>5, <1>7, <1>9, <1>12, <1>13, <1>14
<1> QED BY <1>3, <1>7, <1>9, <1>10, <1>11, <1>12, <1>15, <1>16, <1>17, <1>18, CommitStep

LEMMA NothingCounted ==
  ASSUME repostCount \in [Moment -> Nat]
  PROVE  \A src : repostCount = [x \in Moment |->
                    FloorZero(repostCount[x] + IF x = src THEN 0 ELSE 0)]
BY DEF FloorZero

LEMMA RejectsStep ==
  ASSUME MomentInv, NEW w \in MomentWorker, Rejects(w)
  PROVE  MomentInv'
<1>1. PICK j : j = momentJob[w]
  OBVIOUS
<1>2. PICK m : m = j.m
  OBVIOUS
<1>3. /\ j \in MomentJob /\ j.op = "reject" /\ m \in Moment
      /\ moment[m] \in StoredRow(KeptStatus, BOOLEAN)
      /\ feed[m] \in FeedRow /\ j.row \in StoredRow(KeptStatus, BOOLEAN)
  BY <1>1, <1>2, OnARowParts, MomentJobParts DEF Rejects, OnARow
<1>4. PICK s : s = Written("rejected", j.row.status, moment[m].status)
  OBVIOUS
<1>5. s \in KeptStatus /\ (Same(m, j.row) => s = "rejected")
  BY <1>3, <1>4 DEF StoredRow, KeptStatus, Written, MomentStatus, Same
<1>6. PICK row : row = [moment[m] EXCEPT !.status = s]
  OBVIOUS
<1>7. /\ row \in MomentRow /\ row.status = s /\ row.src = moment[m].src
      /\ row.deleted = moment[m].deleted /\ row.top = moment[m].top
      /\ s # "absent"
  BY <1>3, <1>5, <1>6 DEF StoredRow, KeptStatus, MomentRow, MomentStatus
<1>8. PICK f : f = [feed[m] EXCEPT !.status = "rejected"]
  OBVIOUS
<1>9. f \in FeedRow /\ f.status = "rejected" /\ f.deleted = feed[m].deleted
  BY <1>3, <1>8 DEF FeedRow, MomentStatus
<1>10. /\ moment' = [moment EXCEPT ![m] = row]
       /\ feed' = [feed EXCEPT ![m] = f]
       /\ lastLog' = [lastLog EXCEPT ![m] = "rejected"]
       /\ Done(w)
  BY <1>1, <1>2, <1>4, <1>6, <1>8, Zenon DEF Rejects, RejectFeed, LogsAfter
<1>11. PICK d : d = RejectDelta(j)
  OBVIOUS
<1>12. d = IF j.row.status = "normal" THEN -1 ELSE 0
  BY <1>11, Zenon DEF RejectDelta
<1>13. repostCount' = [x \in Moment |->
            FloorZero(repostCount[x] + IF x = row.src THEN d ELSE 0)]
  BY <1>1, <1>2, <1>7, <1>11, Zenon DEF Rejects, Repost
<1>14. /\ drift \subseteq drift' /\ drift' \subseteq Drift
       /\ "row" \notin drift' => Same(m, j.row)
       /\ "pin" \notin drift' => moment[m].top = j.row.top
       /\ moment[m].src # NoMoment /\ "twice" \notin drift' =>
            ~(j.row.deleted /\ j.row.status = "normal")
  BY <1>1, <1>2 DEF Rejects, Drifts, Drift, ForwardOf, MomentInv, MomentTypes
<1>15. "row" \notin drift => feed[m].deleted = moment[m].deleted
  BY <1>3 DEF MomentInv, FeedAgrees
<1>16. drift \cap {"row", "pin"} = {} => ~(moment[m].deleted /\ moment[m].top)
  BY <1>3 DEF MomentInv, NoDeletedPin
<1>17. /\ drift' \cap {"passed", "twice", "row"} = {} /\ row.src # NoMoment
            => d >= Gain(m, row)
       /\ drift' \cap {"again", "hidden", "gone", "row"} = {} /\ row.src # NoMoment
            => d <= Gain(m, row)
  BY <1>5, <1>7, <1>12, <1>14 DEF Gain, One, Shows, Same
<1>18. moment[m].status # "absent" /\ d \in {-1, 0, 1} /\ "rejected" \in MomentStatus
  BY <1>3, <1>12 DEF StoredRow, KeptStatus, MomentStatus
<1>19. /\ "row" \notin drift' => f.status = row.status /\ f.deleted = row.deleted
       /\ drift' \cap {"row", "pin"} = {} => ~(row.deleted /\ row.top)
       /\ drift' \cap {"unlogged", "row"} = {} => "rejected" = row.status
  BY <1>5, <1>7, <1>9, <1>14, <1>15, <1>16
<1> QED BY <1>3, <1>7, <1>9, <1>10, <1>13, <1>14, <1>17, <1>18, <1>19, CommitStep

LEMMA HidesStep ==
  ASSUME MomentInv, NEW w \in MomentWorker, Hides(w)
  PROVE  MomentInv'
<1>1. PICK j : j = momentJob[w]
  OBVIOUS
<1>2. PICK m : m = j.m
  OBVIOUS
<1>3. /\ j \in MomentJob /\ j.op = "hide" /\ m \in Moment
      /\ moment[m] \in StoredRow(KeptStatus, BOOLEAN)
      /\ feed[m] \in FeedRow /\ j.row \in StoredRow(KeptStatus, {FALSE})
      /\ lastLog[m] \in MomentStatus /\ \A x \in Moment : repostCount[x] \in Nat
  BY <1>1, <1>2, OnARowParts, MomentJobParts DEF Hides, OnARow
<1>4. PICK s : s = Written("hidden", j.row.status, moment[m].status)
  OBVIOUS
<1>5. s \in KeptStatus /\ (Same(m, j.row) => s = "hidden")
  BY <1>3, <1>4 DEF StoredRow, KeptStatus, Written, MomentStatus, Same
<1>6. PICK row : row = [moment[m] EXCEPT !.status = s]
  OBVIOUS
<1>7. /\ row \in MomentRow /\ row.status = s /\ row.src = moment[m].src
      /\ row.deleted = moment[m].deleted /\ row.top = moment[m].top
      /\ s # "absent"
  BY <1>3, <1>5, <1>6 DEF StoredRow, KeptStatus, MomentRow, MomentStatus
<1>8. PICK f : f = [feed[m] EXCEPT !.status = "hidden"]
  OBVIOUS
<1>9. f \in FeedRow /\ f.status = "hidden" /\ f.deleted = feed[m].deleted
  BY <1>3, <1>8 DEF FeedRow, MomentStatus
<1>10. /\ moment' = [moment EXCEPT ![m] = row]
       /\ feed' = [feed EXCEPT ![m] = f]
       /\ Done(w)
  BY <1>1, <1>2, <1>4, <1>6, <1>8, Zenon DEF Hides
<1>11. /\ lastLog' = [lastLog EXCEPT ![m] = lastLog[m]]
       /\ repostCount' = [x \in Moment |->
            FloorZero(repostCount[x] + IF x = row.src THEN 0 ELSE 0)]
  BY <1>3, NothingCounted DEF Hides, MomentInv, MomentTypes
<1>12. /\ drift \subseteq drift' /\ drift' \subseteq Drift /\ "unlogged" \in drift'
       /\ "row" \notin drift' => Same(m, j.row)
       /\ "pin" \notin drift' => moment[m].top = j.row.top
       /\ moment[m].src # NoMoment /\ "hidden" \notin drift' => j.row.status # "normal"
  BY <1>1, <1>2 DEF Hides, Drifts, Drift, ForwardOf, MomentInv, MomentTypes
<1>13. "row" \notin drift => feed[m].deleted = moment[m].deleted
  BY <1>3 DEF MomentInv, FeedAgrees
<1>14. drift \cap {"row", "pin"} = {} => ~(moment[m].deleted /\ moment[m].top)
  BY <1>3 DEF MomentInv, NoDeletedPin
<1>15. /\ drift' \cap {"passed", "twice", "row"} = {} /\ row.src # NoMoment
            => 0 >= Gain(m, row)
       /\ drift' \cap {"again", "hidden", "gone", "row"} = {} /\ row.src # NoMoment
            => 0 <= Gain(m, row)
  BY <1>5, <1>7, <1>12 DEF Gain, One, Shows, Same
<1>16. moment[m].status # "absent"
  BY <1>3 DEF StoredRow, KeptStatus
<1>17. /\ "row" \notin drift' => f.status = row.status /\ f.deleted = row.deleted
       /\ drift' \cap {"row", "pin"} = {} => ~(row.deleted /\ row.top)
       /\ drift' \cap {"unlogged", "row"} = {} => lastLog[m] = row.status
  BY <1>5, <1>7, <1>9, <1>12, <1>13, <1>14
<1> QED BY <1>3, <1>7, <1>9, <1>10, <1>11, <1>12, <1>15, <1>16, <1>17, CommitStep

LEMMA RemovesStep ==
  ASSUME MomentInv, NEW w \in MomentWorker, Removes(w)
  PROVE  MomentInv'
<1>1. PICK j : j = momentJob[w]
  OBVIOUS
<1>2. PICK m : m = j.m
  OBVIOUS
<1>3. /\ j \in MomentJob /\ j.op = "remove" /\ m \in Moment
      /\ moment[m] \in StoredRow(KeptStatus, BOOLEAN)
      /\ feed[m] \in FeedRow /\ j.row \in StoredRow(KeptStatus, {FALSE})
  BY <1>1, <1>2, OnARowParts, MomentJobParts DEF Removes, OnARow
<1>4. PICK p : p = PinAfterRemove(j)
  OBVIOUS
<1>5. p \in BOOLEAN /\ (moment[m].top = j.row.top => ~p)
  BY <1>2, <1>3, <1>4 DEF StoredRow, PinAfterRemove, Written
<1>6. PICK row : row = [moment[m] EXCEPT !.deleted = TRUE, !.top = p]
  OBVIOUS
<1>7. /\ row \in MomentRow /\ row.status = moment[m].status /\ row.src = moment[m].src
      /\ row.deleted = TRUE /\ row.top = p /\ row.status \in KeptStatus
  BY <1>3, <1>5, <1>6 DEF StoredRow, KeptStatus, MomentRow, MomentStatus
<1>8. PICK f : f = [feed[m] EXCEPT !.deleted = TRUE]
  OBVIOUS
<1>9. f \in FeedRow /\ f.deleted = TRUE /\ f.status = feed[m].status
  BY <1>3, <1>8 DEF FeedRow
<1>10. /\ moment' = [moment EXCEPT ![m].deleted = TRUE, ![m].top = p]
       /\ feed' = [feed EXCEPT ![m] = f]
       /\ lastLog' = [lastLog EXCEPT ![m] = j.row.status]
       /\ Done(w)
  BY <1>1, <1>2, <1>4, <1>8, Zenon DEF Removes
<1>11. moment' = [moment EXCEPT ![m] = row]
  BY <1>3, <1>6, <1>10 DEF MomentInv, MomentTypes
<1>12. PICK d : d = RemoveDelta(j)
  OBVIOUS
<1>13. d = IF j.row.status = "normal" THEN -1 ELSE 0
  BY <1>12, Zenon DEF RemoveDelta
<1>14. repostCount' = [x \in Moment |->
            FloorZero(repostCount[x] + IF x = row.src THEN d ELSE 0)]
  BY <1>1, <1>2, <1>7, <1>12, Zenon DEF Removes, Repost
<1>15. /\ drift \subseteq drift' /\ drift' \subseteq Drift
       /\ "row" \notin drift' => Same(m, j.row)
       /\ "pin" \notin drift' => moment[m].top = j.row.top
  BY <1>1, <1>2 DEF Removes, Drifts, Drift, MomentInv, MomentTypes
<1>16. "row" \notin drift => feed[m].status = moment[m].status
  BY <1>3 DEF MomentInv, FeedAgrees
<1>17. Same(m, j.row) => d = Gain(m, row)
  <2>1. j.row.deleted = FALSE
    BY <1>3 DEF StoredRow
  <2>2. ~Shows(row) /\ (Same(m, j.row) => (Shows(moment[m]) <=> j.row.status = "normal"))
    BY <1>7, <2>1 DEF Shows, Same
  <2> QED BY <1>13, <2>2 DEF Gain, One
<1>18. /\ drift' \cap {"passed", "twice", "row"} = {} /\ row.src # NoMoment
            => d >= Gain(m, row)
       /\ drift' \cap {"again", "hidden", "gone", "row"} = {} /\ row.src # NoMoment
            => d <= Gain(m, row)
  <2>1. Gain(m, row) \in Int
    BY DEF Gain, One
  <2> QED BY <1>15, <1>17, <2>1
<1>19. /\ moment[m].status # "absent" /\ row.status # "absent"
       /\ d \in {-1, 0, 1} /\ j.row.status \in MomentStatus
  BY <1>3, <1>7, <1>13 DEF StoredRow, KeptStatus
<1>20. /\ "row" \notin drift' => f.status = row.status /\ f.deleted = row.deleted
       /\ drift' \cap {"row", "pin"} = {} => ~(row.deleted /\ row.top)
       /\ drift' \cap {"unlogged", "row"} = {} => j.row.status = row.status
  BY <1>5, <1>7, <1>9, <1>15, <1>16 DEF Same
<1>21. moment[m].status = "absent" \/ moment[m].src = row.src
  BY <1>7
<1>22. PICK l : l = j.row.status
  OBVIOUS
<1>23. /\ lastLog' = [lastLog EXCEPT ![m] = l] /\ l \in MomentStatus
       /\ drift' \cap {"unlogged", "row"} = {} => l = row.status
  BY <1>10, <1>19, <1>20, <1>22
<1>24. Done(w) /\ feed' = [feed EXCEPT ![m] = f] /\ f \in FeedRow /\ row \in MomentRow
  BY <1>7, <1>9, <1>10
<1> QED BY <1>3, <1>11, <1>14, <1>15, <1>18, <1>19, <1>20, <1>21, <1>23, <1>24, CommitStep

LEMMA PinsStep ==
  ASSUME MomentInv, NEW w \in MomentWorker, Pins(w)
  PROVE  MomentInv'
<1>1. PICK j : j = momentJob[w]
  OBVIOUS
<1>2. PICK m : m = j.m
  OBVIOUS
<1>3. /\ j \in MomentJob /\ j.op = "top" /\ m \in Moment
      /\ moment[m] \in StoredRow(KeptStatus, BOOLEAN)
      /\ feed[m] \in FeedRow /\ j.row \in StoredRow({"normal"}, {FALSE})
      /\ j.on \in BOOLEAN
      /\ lastLog[m] \in MomentStatus /\ \A x \in Moment : repostCount[x] \in Nat
  BY <1>1, <1>2, OnARowParts, MomentJobParts DEF Pins, OnARow
<1>4. PICK row : row = [moment[m] EXCEPT !.top = j.on]
  OBVIOUS
<1>5. /\ row \in MomentRow /\ row.status = moment[m].status /\ row.src = moment[m].src
      /\ row.deleted = moment[m].deleted /\ row.status # "absent"
  BY <1>3, <1>4 DEF StoredRow, KeptStatus, MomentRow
<1>6. /\ moment' = [moment EXCEPT ![m] = row]
      /\ Done(w)
  BY <1>1, <1>2, <1>4, Zenon DEF Pins
<1>7. /\ lastLog' = [lastLog EXCEPT ![m] = lastLog[m]]
      /\ feed' = [feed EXCEPT ![m] = feed[m]]
      /\ repostCount' = [x \in Moment |->
            FloorZero(repostCount[x] + IF x = row.src THEN 0 ELSE 0)]
  BY <1>3, NothingCounted DEF Pins, MomentInv, MomentTypes
<1>8. /\ drift \subseteq drift' /\ drift' \subseteq Drift
      /\ "row" \notin drift' => Same(m, j.row)
  BY <1>1, <1>2 DEF Pins, Drifts, Drift, MomentInv, MomentTypes
<1>9. /\ "row" \notin drift =>
           feed[m].deleted = moment[m].deleted /\ feed[m].status = moment[m].status
      /\ drift \cap {"unlogged", "row"} = {} => lastLog[m] = moment[m].status
  BY <1>3 DEF MomentInv, FeedAgrees, LogEndsInStatus
<1>10. Gain(m, row) = 0
  BY <1>5 DEF Gain, One, Shows
<1>11. /\ "row" \notin drift' =>
            feed[m].status = row.status /\ feed[m].deleted = row.deleted
       /\ drift' \cap {"row", "pin"} = {} => ~(row.deleted /\ row.top)
       /\ drift' \cap {"unlogged", "row"} = {} => lastLog[m] = row.status
  BY <1>3, <1>5, <1>8, <1>9 DEF Same, StoredRow
<1>12. moment[m].status # "absent" /\ 0 \in {-1, 0, 1}
  BY <1>5
<1>13. /\ drift' \cap {"passed", "twice", "row"} = {} /\ row.src # NoMoment
            => 0 >= Gain(m, row)
       /\ drift' \cap {"again", "hidden", "gone", "row"} = {} /\ row.src # NoMoment
            => 0 <= Gain(m, row)
  BY <1>10
<1> QED BY <1>3, <1>5, <1>6, <1>7, <1>8, <1>11, <1>12, <1>13, CommitStep

LEMMA PublishCommitsStep ==
  ASSUME MomentInv, NEW w \in MomentWorker, NEW v \in Verdict, PublishCommits(w, v)
  PROVE  MomentInv'
<1>1. PICK j : j = momentJob[w]
  OBVIOUS
<1>2. PICK m : m = j.m
  OBVIOUS
<1>3. /\ j \in MomentJob /\ j.op = "publish" /\ m \in Moment
      /\ j.src \in Moment \cup {NoMoment} /\ Done(w) /\ UNCHANGED repostCount
  BY <1>1, <1>2, MomentJobParts DEF PublishCommits, MomentInv, MomentTypes
<1>4. moment[m] = NoRow /\ feed[m] \in FeedRow
  BY <1>1, <1>2, <1>3 DEF MomentInv, MomentTypes, MomentJobsFit, AbsentIsEmpty
<1>5. ASSUME UNCHANGED <<moment, feed, lastLog, drift>>
      PROVE  MomentInv'
  <2>1. /\ \A x \in MomentWorker : momentJob'[x] = IF x = w THEN NoJob ELSE momentJob[x]
        /\ momentJob' \in [MomentWorker -> MomentJob] /\ NoJob.op = "idle"
    BY <1>3 DEF Done, MomentInv, MomentTypes, MomentJob, NoJob
  <2>2. MomentJobsFit'
    BY <1>5, <2>1 DEF MomentInv, MomentJobsFit, OnARow
  <2>3. Published' = Published
    BY <1>5 DEF Published
  <2>4. RepostsNeverMissing' /\ UnauditedNeverOvercounts'
    BY <1>3, <1>5 DEF MomentInv, RepostsNeverMissing, UnauditedNeverOvercounts,
       Forwards, Public
  <2> QED BY <1>3, <1>5, <2>1, <2>2, <2>3, <2>4 DEF MomentInv, MomentTypes,
             AbsentIsEmpty, FeedAgrees, NoDeletedPin, LogEndsInStatus
<1>6. CASE v = "refused"
  BY <1>5, <1>6 DEF PublishCommits
<1>7. CASE v # "refused"
  <2>1. PICK row : row = NewMoment(j, v)
    OBVIOUS
  <2>2. /\ row = [status |-> v, src |-> j.src, deleted |-> FALSE, top |-> FALSE]
        /\ v \in {"normal", "auditing"}
    BY <1>7, <2>1 DEF NewMoment, NoRow, Verdict
  <2>3. row \in MomentRow /\ row.status # "absent" /\ v \in MomentStatus
    BY <1>3, <2>2 DEF MomentRow, MomentStatus
  <2>4. PICK f : f = [feed[m] EXCEPT !.status = v]
    OBVIOUS
  <2>5. f \in FeedRow /\ f.status = v /\ f.deleted = feed[m].deleted
    BY <1>4, <2>3, <2>4 DEF FeedRow
  <2>6. /\ moment' = [moment EXCEPT ![m] = row]
        /\ feed' = [feed EXCEPT ![m] = f]
        /\ lastLog' = [lastLog EXCEPT ![m] = v]
    BY <1>1, <1>2, <1>7, <2>1, <2>4, Zenon DEF PublishCommits
  <2>7. /\ drift \subseteq drift' /\ drift' \subseteq Drift
        /\ j.src # NoMoment /\ "passed" \notin drift' => v # "normal"
    BY <1>1, <1>7 DEF PublishCommits, MomentInv, MomentTypes, Drift
  <2>8. repostCount' = [x \in Moment |->
            FloorZero(repostCount[x] + IF x = row.src THEN 0 ELSE 0)]
    BY <1>3, NothingCounted DEF MomentInv, MomentTypes
  <2>9. moment[m].status = "absent" /\ ~moment[m].deleted
    BY <1>4 DEF NoRow
  <2>10. /\ drift' \cap {"passed", "twice", "row"} = {} /\ row.src # NoMoment
              => 0 >= Gain(m, row)
         /\ 0 <= Gain(m, row)
    BY <2>2, <2>7, <2>9 DEF Gain, One, Shows
  <2>11. "row" \notin drift => feed[m].deleted = FALSE
    BY <1>3, <2>9 DEF MomentInv, FeedAgrees, MomentTypes, MomentRow
  <2>12. /\ "row" \notin drift' => f.status = row.status /\ f.deleted = row.deleted
         /\ ~(row.deleted /\ row.top) /\ v = row.status
    BY <2>2, <2>5, <2>7, <2>11
  <2> QED BY <1>1, <1>2, <1>3, <2>3, <2>5, <2>6, <2>7, <2>8, <2>9, <2>10, <2>12, CommitStep
<1> QED BY <1>6, <1>7

LEMMA MomentInvInit == MomentsInit => MomentInv
<1> SUFFICES ASSUME MomentsInit PROVE MomentInv
  OBVIOUS
<1>1. /\ \A m \in Moment : moment[m] = NoRow
      /\ NoRow.status = "absent" /\ NoRow.src = NoMoment
      /\ NoRow.deleted = FALSE /\ NoRow.top = FALSE
  BY DEF MomentsInit, NoRow
<1>2. MomentTypes
  BY DEF MomentsInit, MomentTypes, MomentRow, FeedRow, NoRow, MomentStatus, MomentJob
<1>3. MomentJobsFit
  BY DEF MomentsInit, MomentJobsFit, NoJob, OnARow
<1>4. IsFiniteSet(Published)
  <2>1. Published = {}
    BY <1>1 DEF Published
  <2> QED BY <2>1, FS_EmptySet
<1>5. RepostsNeverMissing /\ UnauditedNeverOvercounts
  <2>1. \A m \in Moment : Forwards(m) = {}
    BY <1>1 DEF Forwards, Public
  <2>2. \A m \in Moment : repostCount[m] = Cardinality(Forwards(m))
    BY <2>1, FS_EmptySet DEF MomentsInit
  <2> QED BY <2>2 DEF RepostsNeverMissing, UnauditedNeverOvercounts, MomentsInit
<1>6. FeedAgrees /\ NoDeletedPin /\ LogEndsInStatus /\ AbsentIsEmpty
  BY <1>1 DEF MomentsInit, FeedAgrees, NoDeletedPin, LogEndsInStatus, AbsentIsEmpty
<1> QED BY <1>2, <1>3, <1>4, <1>5, <1>6 DEF MomentInv

LEMMA MomentInvNext == MomentInv /\ [MomentsNext]_momentVars => MomentInv'
<1> SUFFICES ASSUME MomentInv, [MomentsNext]_momentVars PROVE MomentInv'
  OBVIOUS
<1>1. CASE UNCHANGED momentVars
  <2>1. UNCHANGED <<moment, feed, lastLog, repostCount, momentJob, drift>>
    BY <1>1 DEF momentVars
  <2>2. Published' = Published
    BY <2>1 DEF Published
  <2>3. RepostsNeverMissing' /\ UnauditedNeverOvercounts'
    BY <2>1 DEF MomentInv, RepostsNeverMissing, UnauditedNeverOvercounts,
       Forwards, Public
  <2> QED BY <2>1, <2>2, <2>3 DEF MomentInv, MomentTypes, MomentJobsFit,
             AbsentIsEmpty, FeedAgrees, NoDeletedPin, LogEndsInStatus
<1>2. ASSUME NEW w \in MomentWorker, NEW m \in Moment,
             \/ \E s \in Moment \cup {NoMoment} : PublishLoads(w, m, s)
             \/ \E op \in {"approve", "reject"} : AuditLoads(w, m, op)
             \/ HideLoads(w, m)
             \/ RemoveLoads(w, m)
             \/ \E on \in BOOLEAN : PinLoads(w, m, on)
      PROVE  MomentInv'
  BY <1>2, LoadsStep
<1>3. ASSUME NEW w \in MomentWorker,
             \/ \E v \in Verdict : PublishCommits(w, v)
             \/ Approves(w) \/ Rejects(w) \/ Hides(w) \/ Removes(w) \/ Pins(w)
      PROVE  MomentInv'
  BY <1>3, PublishCommitsStep, ApprovesStep, RejectsStep, HidesStep, RemovesStep,
     PinsStep
<1> QED BY <1>1, <1>2, <1>3 DEF MomentsNext

\* However many requests are served at the same time, the repost counter of a
\* moment, its row in the feed, its pin and the end of its audit log agree with
\* the moment, but for the causes the properties name.
THEOREM MomentsAreCounted == MomentsSpec => []MomentsHold
<1>1. MomentInv => MomentsHold
  <2> SUFFICES ASSUME MomentInv PROVE MomentsHold
    OBVIOUS
  <2>1. \A m \in Moment : Cardinality(Forwards(m)) \in Nat /\ repostCount[m] \in Nat
    <3> TAKE m \in Moment
    <3>1. Forwards(m) \subseteq Published
      BY DEF Forwards, Public, Published
    <3> QED BY <3>1, FS_Subset, FS_CardinalityType DEF MomentInv, MomentTypes
  <2>2. RepostsCounted
    BY <2>1 DEF MomentInv, RepostsCounted, RepostsNeverMissing, UnauditedNeverOvercounts
  <2> QED BY <2>2 DEF MomentsHold, MomentInv
<1> QED BY <1>1, MomentInvInit, MomentInvNext, PTL DEF MomentsSpec

-----------------------------------------------------------------------------
(* Views behind a queue.  The sums of messages come from SumTheorems.     *)

ViewOps == {"held", "checked", "failed", "counted", "again"}
ViewJobs == {NoViewJob} \cup [op : ViewOps, v : Visit, n : Tries]

ViewTypes ==
  /\ visit \in [Visit -> Day \cup {Never}]
  /\ queued \in [Visit \X Tries -> Nat]
  /\ viewJob \in [ViewWorker -> ViewJobs]
  /\ viewLog \in Day \cup {Never} /\ viewCount \in Nat /\ today \in Day
  /\ failures \in [Visit -> Nat]
  /\ dropped \in [Visit -> SUBSET {"missing", "permanent", "exhausted", "unsent"}]
  /\ stops \in Nat

\* Days go forward, and the count follows the day that was counted last.
ViewTimes ==
  /\ \A v \in Visit : visit[v] <= today
  /\ viewLog <= today /\ viewCount <= viewLog + 1

\* A message comes back until its tries are used up.
TriesLeft ==
  /\ \A v \in Visit, n \in Tries : queued[<<v, n>>] > 0 => n < MaxViewTries
  /\ \A w \in ViewWorker :
       /\ viewJob[w].op # "idle" => viewJob[w].n < MaxViewTries
       /\ viewJob[w].op = "failed" => viewJob[w].n + 1 < MaxViewTries

\* Before its visit nothing of it is there; afterwards it is counted, waits or is
\* in work, or was given up.
ViewWays ==
  \A v \in Visit :
    /\ visit[v] = Never =>
         /\ failures[v] = 0
         /\ \A n \in Tries : queued[<<v, n>>] = 0
         /\ \A w \in ViewWorker : viewJob[w].op # "idle" => viewJob[w].v # v
    /\ visit[v] # Never =>
         \/ viewLog >= visit[v]
         \/ \E n \in Tries : queued[<<v, n>>] > 0
         \/ \E w \in ViewWorker : /\ viewJob[w].op \in {"held", "checked", "failed"}
                                  /\ viewJob[w].v = v
         \/ dropped[v] # {}

\* While the process has not stopped, a message says how often its visit failed.
ViewsOnce ==
  stops = 0 =>
    \A v \in Visit :
      /\ failures[v] <= MaxViewTries
      /\ \A n \in Tries : queued[<<v, n>>] > 0 => failures[v] <= n
      /\ \A w \in ViewWorker : viewJob[w].op # "idle" /\ viewJob[w].v = v =>
           /\ viewJob[w].op \in {"held", "checked"} => failures[v] <= viewJob[w].n
           /\ viewJob[w].op = "failed" => failures[v] <= viewJob[w].n + 1

\* The messages of a visit in a queue, and the consumers that have one which was
\* not put back.
QueuedOf(q, v) == [n \in Tries |-> q[<<v, n>>]]
MessagesIn(q, v) == SumOf(QueuedOf(q, v), Tries)
AtWork(jobs, v) ==
  {w \in ViewWorker : /\ jobs[w].op \in {"held", "checked", "failed", "counted"}
                      /\ jobs[w].v = v}
Room == 1 + stops * Cardinality(ViewWorker)
ViewsFew ==
  \A v \in Visit : MessagesIn(queued, v) + Cardinality(AtWork(viewJob, v)) <= Room

ViewInv ==
  ViewTypes /\ ViewTimes /\ TriesLeft /\ ViewWays /\ ViewsOnce /\ ViewsFew

LEMMA ViewConstants ==
  /\ IsFiniteSet(ViewWorker) /\ Cardinality(ViewWorker) \in Nat
  /\ IsFiniteSet(Tries) /\ Tries \subseteq Nat /\ 0 \in Tries
  /\ Day \subseteq Nat /\ 0 \in Day /\ Never \notin Day /\ Never = 0 - 1
  /\ MaxViewTries \in Nat \ {0}
<1>1. 0 \in Int /\ MaxViewTries \in Int
  BY ViewAssumption
<1>2. IsFiniteSet(0 .. MaxViewTries)
  BY <1>1, FS_Interval
<1>3. Cardinality(ViewWorker) \in Nat
  BY ViewAssumption, FS_CardinalityType
<1> QED BY <1>2, <1>3, ViewAssumption DEF Tries, Day, Never

LEMMA ViewJobParts ==
  /\ NoViewJob \in ViewJobs /\ NoViewJob.op = "idle"
  /\ \A j \in ViewJobs :
       /\ j.op \in ViewOps \cup {"idle"}
       /\ j # NoViewJob <=> j.op # "idle"
       /\ j.op # "idle" => j.v \in Visit /\ j.n \in Tries
       /\ \A op \in ViewOps : j.op # "idle" =>
            /\ [j EXCEPT !.op = op] \in ViewJobs
            /\ [j EXCEPT !.op = op].op = op
            /\ [j EXCEPT !.op = op].v = j.v
            /\ [j EXCEPT !.op = op].n = j.n
BY DEF ViewJobs, NoViewJob, ViewOps

LEMMA MessagesAreIn ==
  ASSUME queued \in [Visit \X Tries -> Nat], NEW v \in Visit
  PROVE  /\ Messages(v) = MessagesIn(queued, v)
         /\ MessagesIn(queued, v) \in Nat
         /\ MessagesIn(queued, v) > 0 <=> \E n \in Tries : queued[<<v, n>>] > 0
<1>1. PICK f : f = QueuedOf(queued, v)
  OBVIOUS
<1>2. f \in [Tries -> Nat] /\ \A n \in Tries : f[n] = queued[<<v, n>>]
  BY <1>1 DEF QueuedOf
<1>3. IsFiniteSet(Tries)
  BY ViewConstants
<1>4. /\ SumOf(f, Tries) \in Nat
      /\ SumOf(f, Tries) > 0 <=> \E n \in Tries : f[n] > 0
  BY <1>2, <1>3, SumBounds
<1>5. MessagesIn(queued, v) = SumOf(f, Tries)
  BY <1>1 DEF MessagesIn
<1>6. Messages(v) = SumOf(f, Tries)
  <2> DEFINE Body(g, s) == IF s = {} THEN 0
                           ELSE queued[<<v, Chosen(s)>>] + g[s \ {Chosen(s)}]
             Folds(g) == g = [s \in SUBSET Tries |-> Body(g, s)]
  <2>1. Messages(v) = (CHOOSE g : Folds(g))[Tries]
    BY Zenon DEF Messages, MapThenSumSet, MapThenFoldSet, Chosen
  <2>2. \A g : Folds(g) <=> Sums(f, g, Tries)
    <3>1. \A g : \A s \in SUBSET Tries : Body(g, s) = SumBody(f, g, s)
      BY <1>2, ChosenIsIn DEF SumBody
    <3> QED BY <3>1 DEF Sums
  <2>3. PICK g : g = CHOOSE x : Folds(x)
    OBVIOUS
  <2>4. \E x : Folds(x)
    BY <1>2, <1>3, <2>2, SumsExist
  <2>5. Folds(g) /\ Messages(v) = g[Tries]
    <3> HIDE DEF Folds
    <3> QED BY <2>1, <2>3, <2>4, Zenon
  <2>6. Sums(f, g, Tries)
    BY <2>2, <2>5
  <2> QED BY <1>2, <1>3, <2>5, <2>6, SumIs
<1> QED BY <1>2, <1>4, <1>5, <1>6

LEMMA MessagesNext ==
  ASSUME queued' \in [Visit \X Tries -> Nat], NEW v \in Visit
  PROVE  MessagesIn(queued', v) \in Nat
<1>1. PICK f : f = QueuedOf(queued', v)
  OBVIOUS
<1>2. f \in [Tries -> Nat]
  BY <1>1 DEF QueuedOf
<1>3. SumOf(f, Tries) \in Nat
  BY <1>2, ViewConstants, SumBounds
<1> QED BY <1>1, <1>3 DEF MessagesIn

\* One message more in a queue, and what that says of the sums.
OneMore(q, r, v, k) ==
  /\ v \in Visit /\ k \in Tries
  /\ q \in [Visit \X Tries -> Nat] /\ r \in [Visit \X Tries -> Nat]
  /\ r = [q EXCEPT ![<<v, k>>] = @ + 1]
CountsOneMore(q, r, v) ==
  /\ MessagesIn(r, v) = MessagesIn(q, v) + 1
  /\ \A x \in Visit : x # v => MessagesIn(r, x) = MessagesIn(q, x)

LEMMA OneMessageMore ==
  ASSUME NEW q, NEW r, NEW v, NEW k, OneMore(q, r, v, k)
  PROVE  CountsOneMore(q, r, v)
<1>0. /\ v \in Visit /\ k \in Tries
      /\ q \in [Visit \X Tries -> Nat] /\ r \in [Visit \X Tries -> Nat]
  BY DEF OneMore
<1>1. \A x \in Visit, n \in Tries :
        r[<<x, n>>] = IF x = v /\ n = k THEN q[<<x, n>>] + 1 ELSE q[<<x, n>>]
  BY <1>0 DEF OneMore
<1>2. \A x \in Visit : x # v => QueuedOf(r, x) = QueuedOf(q, x)
  BY <1>0, <1>1 DEF QueuedOf
<1>3. PICK f, e : f = QueuedOf(q, v) /\ e = QueuedOf(r, v)
  OBVIOUS
<1>4. /\ f \in [Tries -> Nat] /\ e \in [Tries -> Nat]
      /\ e[k] = f[k] + 1 /\ \A n \in Tries \ {k} : e[n] = f[n]
  BY <1>0, <1>1, <1>3 DEF QueuedOf
<1>5. IsFiniteSet(Tries) /\ Tries \in SUBSET Tries
  BY ViewConstants
<1>6. SumOf(e, Tries) + f[k] = SumOf(f, Tries) + e[k]
  BY <1>0, <1>4, <1>5, SumChanges
<1>7. PICK a, b, c \in Nat : a = SumOf(f, Tries) /\ b = SumOf(e, Tries) /\ c = f[k]
  BY <1>0, <1>4, <1>5, SumBounds
<1>8. b + c = a + (c + 1)
  BY <1>4, <1>6, <1>7
<1>9. b = a + 1
  BY <1>8
<1> QED BY <1>2, <1>3, <1>7, <1>9 DEF MessagesIn, CountsOneMore

LEMMA WorkersCount ==
  ASSUME NEW jobs \in [ViewWorker -> ViewJobs], NEW more \in [ViewWorker -> ViewJobs],
         NEW v \in Visit
  PROVE  /\ IsFiniteSet(AtWork(jobs, v)) /\ Cardinality(AtWork(jobs, v)) \in Nat
         /\ AtWork(jobs, v) \subseteq AtWork(more, v) =>
              Cardinality(AtWork(jobs, v)) <= Cardinality(AtWork(more, v))
         /\ \A w \in AtWork(more, v) : AtWork(jobs, v) = AtWork(more, v) \ {w} =>
              Cardinality(AtWork(more, v)) = Cardinality(AtWork(jobs, v)) + 1
<1>1. PICK A, B : A = AtWork(jobs, v) /\ B = AtWork(more, v)
  OBVIOUS
<1>2. A \subseteq ViewWorker /\ B \subseteq ViewWorker
  BY <1>1 DEF AtWork
<1>3. IsFiniteSet(A) /\ IsFiniteSet(B)
  BY <1>2, ViewConstants, FS_Subset
<1>4. Cardinality(A) \in Nat /\ Cardinality(B) \in Nat
  BY <1>3, FS_CardinalityType
<1>5. A \subseteq B => Cardinality(A) <= Cardinality(B)
  BY <1>3, FS_Subset
<1>6. \A w \in B : A = B \ {w} => Cardinality(B) = Cardinality(A) + 1
  <2> TAKE w \in B
  <2> HAVE A = B \ {w}
  <2>1. Cardinality(A) = Cardinality(B) - 1
    BY <1>3, FS_RemoveElement
  <2> QED BY <1>4, <2>1
<1> QED BY <1>1, <1>3, <1>4, <1>5, <1>6

LEMMA RoomIsNat == stops \in Nat => Room \in Nat
<1>1. PICK c \in Nat : c = Cardinality(ViewWorker)
  BY ViewConstants
<1>2. \A s \in Nat : 1 + s * c \in Nat
  OBVIOUS
<1> QED BY <1>1, <1>2 DEF Room

\* A step of a consumer that puts nothing into the queue and takes nothing out.
LEMMA WorkStep ==
  ASSUME ViewInv, ViewTypes', NEW w \in ViewWorker, NEW j \in ViewJobs,
         viewJob' = [viewJob EXCEPT ![w] = j],
         j.op \notin {"idle", "again"} =>
           viewJob[w].op \notin {"idle", "again"} /\ j.v = viewJob[w].v,
         queued' = queued, stops' = stops
  PROVE  ViewsFew'
<1>1. Room' = Room /\ \A v \in Visit : MessagesIn(queued', v) = MessagesIn(queued, v)
  BY DEF Room
<1>2. \A v \in Visit : AtWork(viewJob', v) \subseteq AtWork(viewJob, v)
  <2> TAKE v \in Visit
  <2>1. \A x \in ViewWorker : x # w => viewJob'[x] = viewJob[x]
    BY DEF ViewInv, ViewTypes
  <2>2. viewJob'[w] = j /\ viewJob[w] \in ViewJobs
    BY DEF ViewInv, ViewTypes
  <2>3. viewJob[w].op \in ViewOps \cup {"idle"}
    BY <2>2, ViewJobParts
  <2> QED BY <2>1, <2>2, <2>3 DEF AtWork, ViewOps
<1>3. ASSUME NEW v \in Visit
      PROVE  MessagesIn(queued', v) + Cardinality(AtWork(viewJob', v)) <= Room'
  <2>1. viewJob \in [ViewWorker -> ViewJobs] /\ viewJob' \in [ViewWorker -> ViewJobs]
    BY DEF ViewInv, ViewTypes
  <2>2. PICK a, b \in Nat : /\ a = Cardinality(AtWork(viewJob', v))
                            /\ b = Cardinality(AtWork(viewJob, v)) /\ a <= b
    BY <1>2, <2>1, WorkersCount
  <2>3. PICK m \in Nat : m = MessagesIn(queued, v)
    BY MessagesAreIn DEF ViewInv, ViewTypes
  <2>4. m + b <= Room
    BY <2>2, <2>3 DEF ViewInv, ViewsFew
  <2>5. Room \in Nat
    BY RoomIsNat DEF ViewInv, ViewTypes
  <2>6. m + a <= Room
    BY <2>2, <2>4, <2>5
  <2> QED BY <1>1, <2>2, <2>3, <2>6
<1> QED BY <1>3 DEF ViewsFew

LEMMA VisitsKeeps ==
  ASSUME ViewInv, NEW v \in Visit, NEW sent \in BOOLEAN, Visits(v, sent)
  PROVE  ViewInv'
<1> USE DEF ViewInv
<1>1. /\ visit[v] = Never /\ visit' = [visit EXCEPT ![v] = today]
      /\ UNCHANGED <<viewJob, viewLog, viewCount, today, failures, stops>>
      /\ \/ queued' = [queued EXCEPT ![<<v, 0>>] = @ + 1] /\ dropped' = dropped
         \/ queued' = queued /\ dropped' = [dropped EXCEPT ![v] = @ \cup {"unsent"}]
  BY Zenon DEF Visits, Puts
<1>2. <<v, 0>> \in Visit \X Tries /\ 0 \in Tries
  BY ViewConstants
<1>3. ViewTypes'
  <2>1. queued' \in [Visit \X Tries -> Nat]
    BY <1>1, <1>2 DEF ViewTypes
  <2>2. visit' \in [Visit -> Day \cup {Never}]
    BY <1>1 DEF ViewTypes
  <2>3. dropped' \in [Visit -> SUBSET {"missing", "permanent", "exhausted", "unsent"}]
    BY <1>1 DEF ViewTypes
  <2> QED BY <1>1, <2>1, <2>2, <2>3, Zenon DEF ViewTypes
<1>4. /\ \A x \in Visit : visit'[x] = IF x = v THEN today ELSE visit[x]
      /\ \A m \in Visit \X Tries : queued'[m] = queued[m] \/ (m = <<v, 0>> /\ queued'[m] = queued[m] + 1)
      /\ \A m \in Visit \X Tries : queued[m] \in Nat /\ queued'[m] >= queued[m]
  BY <1>1, <1>2 DEF ViewTypes
<1>5. today \in Nat /\ today # Never
  BY ViewConstants DEF ViewTypes
<1>6. /\ failures[v] = 0 /\ \A n \in Tries : queued[<<v, n>>] = 0
      /\ \A w \in ViewWorker : viewJob[w].op # "idle" => viewJob[w].v # v
  BY <1>1 DEF ViewWays
<1>7. ViewTimes'
  BY <1>1, <1>4, <1>5 DEF ViewTimes
<1>8. TriesLeft'
  <2>1. 0 < MaxViewTries
    BY ViewConstants
  <2>2. \A x \in Visit, n \in Tries : queued'[<<x, n>>] > 0 => n < MaxViewTries
    BY <1>4, <2>1 DEF TriesLeft
  <2> QED BY <1>1, <2>2 DEF TriesLeft
<1>9. ViewWays'
  <2>1. queued'[<<v, 0>>] > 0 \/ dropped'[v] # {}
    <3>1. CASE queued' = [queued EXCEPT ![<<v, 0>>] = @ + 1]
      BY <1>2, <1>6, <3>1 DEF ViewTypes
    <3>2. CASE dropped' = [dropped EXCEPT ![v] = @ \cup {"unsent"}]
      BY <3>2 DEF ViewTypes
    <3> QED BY <1>1, <3>1, <3>2
  <2>2. ASSUME NEW x \in Visit, x # v
        PROVE  /\ visit'[x] = visit[x] /\ dropped'[x] = dropped[x]
               /\ \A n \in Tries : queued'[<<x, n>>] = queued[<<x, n>>]
    BY <1>1, <1>4, <2>2 DEF ViewTypes
  <2>3. visit'[v] # Never
    BY <1>4, <1>5
  <2> QED BY <1>1, <1>2, <2>1, <2>2, <2>3 DEF ViewWays
<1>10. ViewsOnce'
  <2>1. MaxViewTries \in Nat /\ \A n \in Tries : n >= 0
    BY ViewConstants
  <2>2. \A x \in Visit, n \in Tries : queued'[<<x, n>>] > 0 =>
          queued[<<x, n>>] > 0 \/ (x = v /\ failures[x] <= n)
    BY <1>4, <1>6, <2>1
  <2> QED BY <1>1, <2>2 DEF ViewsOnce
<1>11. ViewsFew'
  <2>1. PICK a \in Nat : a = MessagesIn(queued, v)
    BY MessagesAreIn DEF ViewTypes
  <2>2. a = 0
    <3>1. ~(a > 0)
      <4>1. queued \in [Visit \X Tries -> Nat]
        BY DEF ViewTypes
      <4>2. a > 0 <=> \E n \in Tries : queued[<<v, n>>] > 0
        BY <2>1, <4>1, MessagesAreIn, Zenon
      <4>3. \A n \in Tries : ~(queued[<<v, n>>] > 0)
        BY <1>6
      <4> QED BY <4>2, <4>3, Zenon
    <3> QED BY <2>1, <3>1
  <2>3. AtWork(viewJob, v) = {}
    BY <1>6 DEF AtWork
  <2>4. Cardinality(AtWork(viewJob, v)) = 0
    BY <2>3, FS_EmptySet
  <2>5. /\ MessagesIn(queued', v) \in {0, 1}
        /\ \A x \in Visit : x # v => MessagesIn(queued', x) = MessagesIn(queued, x)
    <3>1. CASE queued' = queued
      BY <2>1, <2>2, <3>1
    <3>2. CASE queued' = [queued EXCEPT ![<<v, 0>>] = @ + 1]
      <4>1. PICK q, r \in [Visit \X Tries -> Nat] : q = queued /\ r = queued'
        BY <1>3 DEF ViewTypes
      <4>2. OneMore(q, r, v, 0)
        BY <1>2, <3>2, <4>1 DEF OneMore
      <4>3. CountsOneMore(q, r, v)
        BY <4>2, OneMessageMore
      <4>4. /\ MessagesIn(r, v) = MessagesIn(q, v) + 1
            /\ \A x \in Visit : x # v => MessagesIn(r, x) = MessagesIn(q, x)
        BY <4>3 DEF CountsOneMore
      <4>5. MessagesIn(q, v) = 0
        BY <2>1, <2>2, <4>1, Zenon
      <4>6. MessagesIn(r, v) = 1
        BY <4>4, <4>5
      <4> QED BY <4>1, <4>4, <4>6
    <3> QED BY <1>1, <3>1, <3>2
  <2>6. \A x \in Visit : x # v => MessagesIn(queued', x) = MessagesIn(queued, x)
    BY <2>5
  <2>7. 1 <= Room
    <3>1. PICK c \in Nat : c = Cardinality(ViewWorker)
      BY ViewConstants
    <3>2. \A s \in Nat : 1 <= 1 + s * c
      OBVIOUS
    <3> QED BY <3>1, <3>2 DEF Room, ViewTypes
  <2>8. Room \in Nat /\ Room' = Room
    BY <1>1, RoomIsNat DEF ViewTypes, Room
  <2>9. MessagesIn(queued', v) + Cardinality(AtWork(viewJob, v)) <= Room
    BY <2>4, <2>5, <2>7, <2>8
  <2> QED BY <1>1, <2>6, <2>8, <2>9 DEF ViewsFew
<1> QED BY <1>3, <1>7, <1>8, <1>9, <1>10, <1>11

LEMMA DeliversKeeps ==
  ASSUME ViewInv, NEW w \in ViewWorker, NEW v \in Visit, NEW n \in Tries, Delivers(w, v, n)
  PROVE  ViewInv'
<1> USE DEF ViewInv
<1>1. PICK j : j = [op |-> "held", v |-> v, n |-> n]
  OBVIOUS
<1>2. /\ viewJob[w] = NoViewJob /\ queued[<<v, n>>] > 0
      /\ queued' = [queued EXCEPT ![<<v, n>>] = @ - 1]
      /\ viewJob' = [viewJob EXCEPT ![w] = j]
      /\ UNCHANGED <<visit, viewLog, viewCount, today, failures, dropped, stops>>
  BY <1>1, Zenon DEF Delivers, Becomes
<1>3. j \in ViewJobs /\ j.op = "held" /\ j.v = v /\ j.n = n
  BY <1>1 DEF ViewJobs, ViewOps
<1>4. /\ viewJob[w].op = "idle"
      /\ \A x \in ViewWorker : viewJob'[x] = IF x = w THEN j ELSE viewJob[x]
  BY <1>2, ViewJobParts DEF ViewTypes
<1>5. queued' \in [Visit \X Tries -> Nat]
      /\ queued = [queued' EXCEPT ![<<v, n>>] = @ + 1]
      /\ \A m \in Visit \X Tries : queued'[m] <= queued[m] /\ queued[m] \in Nat
           /\ (m # <<v, n>> => queued'[m] = queued[m])
  <2>1. <<v, n>> \in Visit \X Tries
    OBVIOUS
  <2>2. PICK m, q, r : m = <<v, n>> /\ q = queued /\ r = queued'
    OBVIOUS
  <2>3. /\ m \in Visit \X Tries /\ q \in [Visit \X Tries -> Nat] /\ q[m] > 0
        /\ r = [q EXCEPT ![m] = q[m] - 1]
    BY <1>2, <2>1, <2>2 DEF ViewTypes
  <2>4. r \in [Visit \X Tries -> Nat]
    BY <2>3
  <2>5. q = [r EXCEPT ![m] = r[m] + 1]
    <3>1. r[m] + 1 = q[m]
      BY <2>3
    <3>2. \A x \in Visit \X Tries : q[x] = IF x = m THEN r[m] + 1 ELSE r[x]
      BY <2>3, <3>1
    <3> QED BY <2>3, <2>4, <3>2
  <2>6. \A x \in Visit \X Tries : r[x] <= q[x] /\ q[x] \in Nat /\ (x # m => r[x] = q[x])
    BY <2>3, <2>4
  <2> QED BY <2>2, <2>4, <2>5, <2>6
<1>6. ViewTypes'
  <2>1. viewJob' \in [ViewWorker -> ViewJobs]
    BY <1>2, <1>3 DEF ViewTypes
  <2> QED BY <1>2, <1>5, <2>1, Zenon DEF ViewTypes
<1>7. ViewTimes'
  BY <1>2 DEF ViewTimes
<1>8. \A m \in Visit \X Tries : queued'[m] > 0 => queued[m] > 0
  BY <1>5, <1>6 DEF ViewTypes
<1>9. TriesLeft'
  BY <1>2, <1>3, <1>4, <1>8 DEF TriesLeft
<1>10. ViewWays'
  <2>1. visit[v] # Never
    BY <1>2 DEF ViewWays, ViewTypes
  <2>2. \A m \in Visit \X Tries : queued[m] = 0 => queued'[m] = 0
    BY <1>5, <1>6 DEF ViewTypes
  <2>3. \A x \in Visit, k \in Tries : x # v => queued'[<<x, k>>] = queued[<<x, k>>]
    BY <1>5
  <2>4. \A x \in ViewWorker : viewJob[x].op # "idle" => viewJob'[x] = viewJob[x]
    BY <1>4
  <2> QED BY <1>2, <1>3, <1>4, <2>1, <2>2, <2>3, <2>4 DEF ViewWays
<1>11. ViewsOnce'
  BY <1>2, <1>3, <1>4, <1>8 DEF ViewsOnce
<1>12. ViewsFew'
  <2>1. viewJob \in [ViewWorker -> ViewJobs] /\ viewJob' \in [ViewWorker -> ViewJobs]
    BY <1>6 DEF ViewTypes
  <2>2. w \in AtWork(viewJob', v) /\ AtWork(viewJob, v) = AtWork(viewJob', v) \ {w}
    BY <1>3, <1>4 DEF AtWork
  <2>3. Cardinality(AtWork(viewJob', v)) = Cardinality(AtWork(viewJob, v)) + 1
        /\ Cardinality(AtWork(viewJob, v)) \in Nat
    BY <2>1, <2>2, WorkersCount
  <2>4. MessagesIn(queued, v) = MessagesIn(queued', v) + 1
        /\ \A x \in Visit : x # v => MessagesIn(queued, x) = MessagesIn(queued', x)
    <3>1. PICK q, r \in [Visit \X Tries -> Nat] : q = queued' /\ r = queued
      BY <1>5 DEF ViewTypes
    <3>2. OneMore(q, r, v, n)
      BY <1>5, <3>1 DEF OneMore
    <3>3. CountsOneMore(q, r, v)
      BY <3>2, OneMessageMore
    <3>4. /\ MessagesIn(r, v) = MessagesIn(q, v) + 1
          /\ \A x \in Visit : x # v => MessagesIn(r, x) = MessagesIn(q, x)
      BY <3>3 DEF CountsOneMore
    <3> QED BY <3>1, <3>4
  <2>5. PICK a, b, c, d \in Nat : /\ a = MessagesIn(queued, v) /\ b = MessagesIn(queued', v)
                                  /\ c = Cardinality(AtWork(viewJob, v))
                                  /\ d = Cardinality(AtWork(viewJob', v))
    BY <1>6, <2>3, MessagesAreIn, MessagesNext DEF ViewTypes
  <2>6. a = b + 1 /\ d = c + 1 /\ a + c <= Room /\ Room \in Nat /\ Room' = Room
    BY <1>2, <2>3, <2>4, <2>5, RoomIsNat DEF ViewsFew, Room, ViewTypes
  <2>7. b + d <= Room'
    BY <2>5, <2>6
  <2>8. \A x \in Visit : x # v => AtWork(viewJob', x) = AtWork(viewJob, x)
    BY <1>3, <1>4 DEF AtWork
  <2> QED BY <2>4, <2>5, <2>6, <2>7, <2>8 DEF ViewsFew
<1> QED BY <1>6, <1>7, <1>9, <1>10, <1>11, <1>12

LEMMA JobStep ==
  ASSUME ViewTypes, NEW w \in ViewWorker, NEW j \in ViewJobs, Becomes(w, j)
  PROVE  /\ viewJob' = [viewJob EXCEPT ![w] = j]
         /\ viewJob' \in [ViewWorker -> ViewJobs]
         /\ \A x \in ViewWorker : viewJob'[x] = IF x = w THEN j ELSE viewJob[x]
BY DEF ViewTypes, Becomes

LEMMA GaveUp ==
  ASSUME ViewTypes, NEW v \in Visit,
         NEW why \in {"missing", "permanent", "exhausted", "unsent"},
         dropped' = [dropped EXCEPT ![v] = @ \cup {why}]
  PROVE  /\ dropped' \in [Visit -> SUBSET {"missing", "permanent", "exhausted", "unsent"}]
         /\ dropped'[v] # {}
         /\ \A x \in Visit : dropped[x] # {} => dropped'[x] # {}
BY DEF ViewTypes

\* The consumer is free again and its visit was given up.
LEMMA GivesUpKeeps ==
  ASSUME ViewInv, NEW w \in ViewWorker, viewJob[w].op \in {"held", "checked"},
         NEW why \in {"missing", "permanent", "exhausted", "unsent"},
         GivesUp(w, viewJob[w].v, why),
         UNCHANGED <<visit, queued, viewLog, viewCount, today, stops>>,
         failures' \in [Visit -> Nat],
         \A x \in Visit : visit[x] = Never => failures'[x] = failures[x],
         ViewsOnce'
  PROVE  ViewInv'
<1> USE DEF ViewInv
<1>1. PICK v : v = viewJob[w].v
  OBVIOUS
<1>2. v \in Visit
  BY <1>1, ViewJobParts DEF ViewTypes
<1>3. /\ dropped' = [dropped EXCEPT ![v] = @ \cup {why}]
      /\ Becomes(w, NoViewJob)
  BY <1>1 DEF GivesUp
<1>4. NoViewJob \in ViewJobs /\ NoViewJob.op = "idle"
  BY ViewJobParts
<1>5. /\ viewJob' = [viewJob EXCEPT ![w] = NoViewJob]
      /\ viewJob' \in [ViewWorker -> ViewJobs]
      /\ \A x \in ViewWorker : viewJob'[x] = IF x = w THEN NoViewJob ELSE viewJob[x]
  BY <1>3, <1>4, JobStep
<1>6. /\ dropped' \in [Visit -> SUBSET {"missing", "permanent", "exhausted", "unsent"}]
      /\ dropped'[v] # {}
      /\ \A x \in Visit : dropped[x] # {} => dropped'[x] # {}
  BY <1>2, <1>3, GaveUp
<1>7. ViewTypes'
  BY <1>5, <1>6, Zenon DEF ViewTypes
<1>8. ViewTimes'
  BY DEF ViewTimes
<1>9. TriesLeft'
  BY <1>4, <1>5 DEF TriesLeft
<1>10. ViewWays'
  BY <1>1, <1>4, <1>5, <1>6 DEF ViewWays
<1>11. ViewsFew'
  <2>1. NoViewJob.op \notin {"idle", "again"} =>
          viewJob[w].op \notin {"idle", "again"} /\ NoViewJob.v = viewJob[w].v
    BY <1>4
  <2> QED BY <1>4, <1>5, <1>7, <2>1, WorkStep
<1> QED BY <1>7, <1>8, <1>9, <1>10, <1>11

\* The consumer goes on with its message, and nothing of it is lost.
LEMMA GoesOnKeeps ==
  ASSUME ViewInv, NEW w \in ViewWorker, viewJob[w].op \in {"held", "checked"},
         NEW op \in {"checked", "failed"},
         Becomes(w, [viewJob[w] EXCEPT !.op = op]),
         op = "failed" => viewJob[w].n + 1 < MaxViewTries,
         UNCHANGED <<visit, queued, viewLog, viewCount, today, stops, dropped>>,
         failures' \in [Visit -> Nat],
         \A x \in Visit : visit[x] = Never => failures'[x] = failures[x],
         ViewsOnce'
  PROVE  ViewInv'
<1> USE DEF ViewInv
<1>1. PICK i, j : i = viewJob[w] /\ j = [i EXCEPT !.op = op]
  OBVIOUS
<1>2. i \in ViewJobs /\ i.op # "idle" /\ op \in ViewOps
  BY <1>1 DEF ViewTypes, ViewOps
<1>3. j \in ViewJobs /\ j.op = op /\ j.v = i.v /\ j.n = i.n
  BY <1>1, <1>2, ViewJobParts
<1>4. /\ viewJob' = [viewJob EXCEPT ![w] = j]
      /\ viewJob' \in [ViewWorker -> ViewJobs]
      /\ \A x \in ViewWorker : viewJob'[x] = IF x = w THEN j ELSE viewJob[x]
  <2>1. Becomes(w, j)
    BY <1>1
  <2> QED BY <1>3, <2>1, JobStep
<1>5. ViewTypes'
  BY <1>4, Zenon DEF ViewTypes
<1>6. ViewTimes'
  BY DEF ViewTimes
<1>7. TriesLeft'
  BY <1>1, <1>2, <1>3, <1>4 DEF TriesLeft
<1>8. ViewWays'
  BY <1>1, <1>2, <1>3, <1>4 DEF ViewWays
<1>9. ViewsFew'
  <2>1. j.op \notin {"idle", "again"} =>
          viewJob[w].op \notin {"idle", "again"} /\ j.v = viewJob[w].v
    BY <1>1, <1>3
  <2> QED BY <1>3, <1>4, <1>5, <2>1, WorkStep
<1> QED BY <1>5, <1>6, <1>7, <1>8, <1>9

\* What is said of the first run of the process, of a step that counts no failure.
LEMMA OnceKept ==
  ASSUME ViewInv, NEW w \in ViewWorker, NEW j \in ViewJobs, Becomes(w, j),
         j.op \in {"held", "checked", "failed"} =>
           /\ viewJob[w].op \in {"held", "checked"} /\ j.op # "failed"
           /\ j.v = viewJob[w].v /\ j.n = viewJob[w].n,
         UNCHANGED <<queued, failures, stops>>
  PROVE  ViewsOnce'
<1>1. \A x \in ViewWorker : viewJob'[x] = IF x = w THEN j ELSE viewJob[x]
  BY JobStep DEF ViewInv
<1>2. j.op \in ViewOps \cup {"idle"}
  BY ViewJobParts
<1> QED BY <1>1, <1>2 DEF ViewInv, ViewsOnce, ViewOps

LEMMA ViewChecksKeeps ==
  ASSUME ViewInv, NEW w \in ViewWorker, NEW answer \in {"yes", "no", "unknown"},
         ViewChecks(w, answer)
  PROVE  ViewInv'
<1>1. /\ viewJob[w].op = "held"
      /\ UNCHANGED <<visit, queued, viewLog, viewCount, today, failures, stops>>
      /\ \/ GivesUp(w, viewJob[w].v, "missing")
         \/ Becomes(w, [viewJob[w] EXCEPT !.op = "checked"]) /\ UNCHANGED dropped
  BY Zenon DEF ViewChecks
<1>2. failures' \in [Visit -> Nat]
  BY <1>1 DEF ViewInv, ViewTypes
<1>3. CASE GivesUp(w, viewJob[w].v, "missing")
  <2>1. ViewsOnce'
    <3>1. Becomes(w, NoViewJob)
      BY <1>3 DEF GivesUp
    <3> QED BY <1>1, <3>1, ViewJobParts, OnceKept
  <2> QED BY <1>1, <1>2, <1>3, <2>1, GivesUpKeeps
<1>4. CASE Becomes(w, [viewJob[w] EXCEPT !.op = "checked"]) /\ UNCHANGED dropped
  <2>1. ViewsOnce'
    <3>1. PICK i, j : i = viewJob[w] /\ j = [i EXCEPT !.op = "checked"]
      OBVIOUS
    <3>2. i \in ViewJobs /\ i.op # "idle" /\ "checked" \in ViewOps
      BY <1>1, <3>1 DEF ViewInv, ViewTypes, ViewOps
    <3>3. j \in ViewJobs /\ j.op = "checked" /\ j.v = i.v /\ j.n = i.n
      BY <3>1, <3>2, ViewJobParts
    <3>4. Becomes(w, j)
      BY <1>4, <3>1
    <3> QED BY <1>1, <3>1, <3>3, <3>4, OnceKept
  <2> QED BY <1>1, <1>2, <1>4, <2>1, GoesOnKeeps
<1> QED BY <1>1, <1>3, <1>4

LEMMA ViewBreaksKeeps ==
  ASSUME ViewInv, NEW w \in ViewWorker, ViewBreaks(w)
  PROVE  ViewInv'
<1>1. /\ viewJob[w].op \in {"held", "checked"}
      /\ GivesUp(w, viewJob[w].v, "permanent")
      /\ UNCHANGED <<visit, queued, viewLog, viewCount, today, failures, stops>>
  BY Zenon DEF ViewBreaks
<1>2. failures' \in [Visit -> Nat]
  BY <1>1 DEF ViewInv, ViewTypes
<1>3. ViewsOnce'
  <2>1. Becomes(w, NoViewJob)
    BY <1>1 DEF GivesUp
  <2> QED BY <1>1, <2>1, ViewJobParts, OnceKept
<1> QED BY <1>1, <1>2, <1>3, GivesUpKeeps

\* While the process has not stopped, the message in work is the only one of its
\* visit.
LEMMA OnlyMessage ==
  ASSUME ViewInv, stops = 0, NEW w \in ViewWorker, NEW v \in Visit,
         w \in AtWork(viewJob, v)
  PROVE  /\ \A n \in Tries : queued[<<v, n>>] = 0
         /\ AtWork(viewJob, v) = {w}
<1>1. viewJob \in [ViewWorker -> ViewJobs] /\ queued \in [Visit \X Tries -> Nat]
  BY DEF ViewInv, ViewTypes
<1>2. PICK A : A = AtWork(viewJob, v)
  OBVIOUS
<1>3. IsFiniteSet(A) /\ Cardinality(A) \in Nat
  BY <1>1, <1>2, WorkersCount
<1>4. PICK m \in Nat : m = MessagesIn(queued, v)
  BY <1>1, MessagesAreIn
<1>5. m + Cardinality(A) <= 1
  <2>1. m + Cardinality(A) <= Room
    BY <1>2, <1>4 DEF ViewInv, ViewsFew
  <2>2. PICK c \in Nat : c = Cardinality(ViewWorker)
    BY ViewConstants
  <2>3. Room = 1 + 0 * c
    BY <2>2 DEF Room
  <2>4. Room = 1
    BY <2>3
  <2> QED BY <2>1, <2>4
<1>6. Cardinality(A \ {w}) = Cardinality(A) - 1 /\ IsFiniteSet(A \ {w})
  BY <1>2, <1>3, FS_RemoveElement
<1>7. Cardinality(A \ {w}) \in Nat
  BY <1>6, FS_CardinalityType
<1>8. m = 0 /\ Cardinality(A \ {w}) = 0
  BY <1>3, <1>5, <1>6, <1>7
<1>9. A \ {w} = {}
  BY <1>6, <1>8, FS_EmptySet
<1>10. \A n \in Tries : ~(queued[<<v, n>>] > 0)
  <2>1. ~(m > 0)
    BY <1>8
  <2> QED BY <1>1, <1>4, <2>1, MessagesAreIn, Zenon
<1>11. \A n \in Tries : queued[<<v, n>>] = 0
  BY <1>1, <1>10
<1> QED BY <1>2, <1>9, <1>11

LEMMA ViewFailsKeeps ==
  ASSUME ViewInv, NEW w \in ViewWorker, ViewFails(w)
  PROVE  ViewInv'
<1>1. PICK i, v, n : i = viewJob[w] /\ v = i.v /\ n = i.n
  OBVIOUS
<1>2. /\ i.op \in {"held", "checked"}
      /\ failures' = [failures EXCEPT ![v] = @ + 1]
      /\ UNCHANGED <<visit, queued, viewLog, viewCount, today, stops>>
      /\ \/ Exhausted(n) /\ GivesUp(w, v, "exhausted")
         \/ ~Exhausted(n) /\ Becomes(w, [i EXCEPT !.op = "failed"]) /\ UNCHANGED dropped
  BY <1>1, Zenon DEF ViewFails
<1>3. /\ i \in ViewJobs /\ i.op # "idle" /\ "failed" \in ViewOps
      /\ v \in Visit /\ n \in Tries /\ n \in Nat
  BY <1>1, <1>2, ViewJobParts, ViewConstants DEF ViewInv, ViewTypes, ViewOps
<1>4. n < MaxViewTries
  BY <1>1, <1>3 DEF ViewInv, TriesLeft
<1>5. /\ failures' \in [Visit -> Nat]
      /\ \A x \in Visit : failures'[x] = IF x = v THEN failures[x] + 1 ELSE failures[x]
  BY <1>2, <1>3 DEF ViewInv, ViewTypes
<1>6. \A x \in Visit : visit[x] = Never => failures'[x] = failures[x]
  BY <1>1, <1>3, <1>5 DEF ViewInv, ViewWays
<1>7. ASSUME NEW j \in ViewJobs, Becomes(w, j), j.op \in {"idle", "failed"},
             j.op = "failed" => j.v = v /\ j.n = n
      PROVE  ViewsOnce'
  <2>1. SUFFICES ASSUME stops = 0 PROVE ViewsOnce'
    BY <1>2 DEF ViewsOnce
  <2>2. w \in AtWork(viewJob, v)
    BY <1>1, <1>2 DEF AtWork
  <2>3. /\ \A k \in Tries : queued[<<v, k>>] = 0
        /\ AtWork(viewJob, v) = {w}
    BY <1>3, <2>1, <2>2, OnlyMessage
  <2>4. \A x \in ViewWorker : viewJob'[x] = IF x = w THEN j ELSE viewJob[x]
    BY <1>7, JobStep DEF ViewInv
  <2>5. failures[v] <= n /\ failures[v] \in Nat /\ MaxViewTries \in Nat
    BY <1>1, <1>2, <1>3, <2>1, ViewConstants DEF ViewInv, ViewsOnce, ViewTypes
  <2>6. failures[v] + 1 <= n + 1 /\ failures[v] + 1 <= MaxViewTries
    BY <1>3, <1>4, <2>5
  <2>7. \A x \in Visit, k \in Tries : queued'[<<x, k>>] > 0 => x # v /\ queued[<<x, k>>] > 0
    BY <1>2, <2>3
  <2>8. \A x \in ViewWorker : x # w /\ viewJob[x].op \in {"held", "checked", "failed"} =>
          viewJob[x].v # v
    BY <2>3 DEF AtWork
  <2>9. \A x \in Visit : failures'[x] <= MaxViewTries
    BY <1>5, <2>1, <2>6 DEF ViewInv, ViewsOnce
  <2>10. \A x \in Visit, k \in Tries : queued'[<<x, k>>] > 0 => failures'[x] <= k
    BY <1>5, <2>1, <2>7 DEF ViewInv, ViewsOnce
  <2>11. ASSUME NEW x \in Visit, NEW y \in ViewWorker, viewJob'[y].op # "idle", viewJob'[y].v = x
         PROVE  /\ viewJob'[y].op \in {"held", "checked"} => failures'[x] <= viewJob'[y].n
                /\ viewJob'[y].op = "failed" => failures'[x] <= viewJob'[y].n + 1
    <3>1. CASE y = w
      <4>1. viewJob'[y] = j
        BY <2>4, <3>1
      <4>2. j.op = "failed" /\ x = v /\ j.n = n
        BY <1>7, <2>11, <4>1
      <4> QED BY <1>5, <2>6, <4>1, <4>2
    <3>2. CASE y # w
      <4>1. viewJob'[y] = viewJob[y]
        BY <2>4, <3>2
      <4>2. viewJob[y].op \in {"held", "checked", "failed"} => x # v
        BY <2>8, <2>11, <3>2, <4>1
      <4> QED BY <1>5, <2>1, <2>11, <4>1, <4>2 DEF ViewInv, ViewsOnce
    <3> QED BY <3>1, <3>2
  <2> QED BY <2>9, <2>10, <2>11 DEF ViewsOnce
<1>8. CASE Exhausted(n) /\ GivesUp(w, v, "exhausted")
  <2>1. ViewsOnce'
    <3>1. Becomes(w, NoViewJob)
      BY <1>8 DEF GivesUp
    <3> QED BY <1>7, <3>1, ViewJobParts
  <2>2. GivesUp(w, viewJob[w].v, "exhausted") /\ viewJob[w].op \in {"held", "checked"}
    BY <1>1, <1>2, <1>8
  <2> QED BY <1>2, <1>5, <1>6, <2>1, <2>2, GivesUpKeeps
<1>9. CASE ~Exhausted(n) /\ Becomes(w, [i EXCEPT !.op = "failed"]) /\ UNCHANGED dropped
  <2>1. ViewsOnce'
    <3>1. PICK j : j = [i EXCEPT !.op = "failed"]
      OBVIOUS
    <3>2. j \in ViewJobs /\ j.op = "failed" /\ j.v = v /\ j.n = n
      BY <1>1, <1>3, <3>1, ViewJobParts
    <3>3. Becomes(w, j)
      BY <1>9, <3>1
    <3> QED BY <1>7, <3>2, <3>3
  <2>2. n + 1 < MaxViewTries
    BY <1>3, <1>9, ViewConstants DEF Exhausted
  <2>3. /\ viewJob[w].op \in {"held", "checked"} /\ viewJob[w].n + 1 < MaxViewTries
        /\ Becomes(w, [viewJob[w] EXCEPT !.op = "failed"])
    BY <1>1, <1>2, <1>9, <2>2
  <2> QED BY <1>2, <1>5, <1>6, <1>9, <2>1, <2>3, GoesOnKeeps
<1> QED BY <1>2, <1>8, <1>9

LEMMA ViewCommitsKeeps ==
  ASSUME ViewInv, NEW w \in ViewWorker, ViewCommits(w)
  PROVE  ViewInv'
<1> USE DEF ViewInv
<1>1. PICK i, j : i = viewJob[w] /\ j = [i EXCEPT !.op = "counted"]
  OBVIOUS
<1>2. /\ i.op = "checked" /\ Becomes(w, j)
      /\ viewCount' = viewCount + (IF viewLog = today THEN 0 ELSE 1)
      /\ viewLog' = today
      /\ UNCHANGED <<visit, queued, today, failures, dropped, stops>>
  BY <1>1 DEF ViewCommits, ReportView
<1>3. i \in ViewJobs /\ i.op # "idle" /\ "counted" \in ViewOps
  BY <1>1, <1>2 DEF ViewTypes, ViewOps
<1>4. j \in ViewJobs /\ j.op = "counted" /\ j.v = i.v /\ j.n = i.n
  BY <1>1, <1>3, ViewJobParts
<1>5. /\ viewJob' = [viewJob EXCEPT ![w] = j]
      /\ viewJob' \in [ViewWorker -> ViewJobs]
      /\ \A x \in ViewWorker : viewJob'[x] = IF x = w THEN j ELSE viewJob[x]
  BY <1>2, <1>4, JobStep
<1>6. /\ today \in Nat /\ viewCount \in Nat /\ viewLog \in Nat \cup {0 - 1}
      /\ viewLog <= today /\ viewCount <= viewLog + 1
  BY ViewConstants DEF ViewTypes, ViewTimes
<1>7. viewCount' \in Nat /\ viewCount' <= viewLog' + 1
  BY <1>2, <1>6
<1>8. ViewTypes'
  <2>1. viewLog' \in Day \cup {Never}
    BY <1>2 DEF ViewTypes
  <2> QED BY <1>2, <1>5, <1>7, <2>1, Zenon DEF ViewTypes
<1>9. ViewTimes'
  BY <1>2, <1>6, <1>7 DEF ViewTimes
<1>10. TriesLeft'
  BY <1>1, <1>2, <1>3, <1>4, <1>5 DEF TriesLeft
<1>11. ViewWays'
  <2>1. \A x \in Visit : visit[x] <= today
    BY DEF ViewTimes
  <2>2. \A x \in Visit : viewLog' >= visit'[x]
    <3>1. \A x \in Visit : visit[x] \in Nat \cup {0 - 1}
      BY ViewConstants DEF ViewTypes
    <3> QED BY <1>2, <1>6, <2>1, <3>1
  <2> QED BY <1>1, <1>2, <1>3, <1>4, <1>5, <2>2 DEF ViewWays
<1>12. ViewsOnce'
  BY <1>2, <1>4, OnceKept
<1>13. ViewsFew'
  <2>1. viewJob[w].op \notin {"idle", "again"} /\ j.v = viewJob[w].v
    BY <1>1, <1>2, <1>4
  <2> QED BY <1>2, <1>4, <1>5, <1>8, <2>1, WorkStep
<1> QED BY <1>8, <1>9, <1>10, <1>11, <1>12, <1>13

LEMMA AcksKeeps ==
  ASSUME ViewInv, NEW w \in ViewWorker, Acks(w)
  PROVE  ViewInv'
<1> USE DEF ViewInv
<1>1. /\ viewJob[w].op \in {"counted", "again"} /\ Becomes(w, NoViewJob)
      /\ UNCHANGED <<visit, queued, viewLog, viewCount, today, failures, dropped, stops>>
  BY DEF Acks
<1>2. NoViewJob \in ViewJobs /\ NoViewJob.op = "idle"
  BY ViewJobParts
<1>3. /\ viewJob' = [viewJob EXCEPT ![w] = NoViewJob]
      /\ viewJob' \in [ViewWorker -> ViewJobs]
      /\ \A x \in ViewWorker : viewJob'[x] = IF x = w THEN NoViewJob ELSE viewJob[x]
  BY <1>1, <1>2, JobStep
<1>4. ViewTypes'
  BY <1>1, <1>3, Zenon DEF ViewTypes
<1>5. ViewTimes'
  BY <1>1 DEF ViewTimes
<1>6. TriesLeft'
  BY <1>1, <1>2, <1>3 DEF TriesLeft
<1>7. ViewWays'
  BY <1>1, <1>2, <1>3 DEF ViewWays
<1>8. ViewsOnce'
  BY <1>1, <1>2, OnceKept
<1>9. ViewsFew'
  <2>1. NoViewJob.op \notin {"idle", "again"} =>
          viewJob[w].op \notin {"idle", "again"} /\ NoViewJob.v = viewJob[w].v
    BY <1>2
  <2> QED BY <1>1, <1>2, <1>3, <1>4, <2>1, WorkStep
<1> QED BY <1>4, <1>5, <1>6, <1>7, <1>8, <1>9

LEMMA RepublishesKeeps ==
  ASSUME ViewInv, NEW w \in ViewWorker, NEW sent \in BOOLEAN, Republishes(w, sent)
  PROVE  ViewInv'
<1> USE DEF ViewInv
<1>1. PICK i, v, n, k, j : /\ i = viewJob[w] /\ v = i.v /\ n = i.n /\ k = NextRetries(n)
                           /\ j = [i EXCEPT !.op = "again"]
  OBVIOUS
<1>2. /\ i.op = "failed" /\ Becomes(w, j)
      /\ UNCHANGED <<visit, viewLog, viewCount, today, failures, stops>>
      /\ \/ queued' = [queued EXCEPT ![<<v, k>>] = @ + 1] /\ dropped' = dropped
         \/ queued' = queued /\ dropped' = [dropped EXCEPT ![v] = @ \cup {"unsent"}]
  BY <1>1, Zenon DEF Republishes, Puts
<1>3. /\ i \in ViewJobs /\ i.op # "idle" /\ "again" \in ViewOps
      /\ v \in Visit /\ n \in Tries /\ n \in Nat
  BY <1>1, <1>2, ViewJobParts, ViewConstants DEF ViewTypes, ViewOps
<1>4. n + 1 < MaxViewTries /\ k = n + 1
  BY <1>1, <1>2, <1>3 DEF TriesLeft, NextRetries
<1>5. k \in Tries /\ <<v, k>> \in Visit \X Tries
  BY <1>3, <1>4, ViewConstants DEF Tries
<1>6. j \in ViewJobs /\ j.op = "again" /\ j.v = v /\ j.n = n
  BY <1>1, <1>3, ViewJobParts
<1>7. /\ viewJob' = [viewJob EXCEPT ![w] = j]
      /\ viewJob' \in [ViewWorker -> ViewJobs]
      /\ \A x \in ViewWorker : viewJob'[x] = IF x = w THEN j ELSE viewJob[x]
  BY <1>2, <1>6, JobStep
<1>8. /\ queued' \in [Visit \X Tries -> Nat]
      /\ \A m \in Visit \X Tries :
           /\ queued[m] \in Nat /\ queued'[m] >= queued[m]
           /\ queued'[m] = queued[m] \/ m = <<v, k>>
  BY <1>2, <1>5 DEF ViewTypes
<1>9. queued'[<<v, k>>] > 0 \/ dropped'[v] # {}
  <2>1. CASE queued' = [queued EXCEPT ![<<v, k>>] = @ + 1]
    <3>1. PICK m : m = <<v, k>>
      OBVIOUS
    <3>2. queued[m] \in Nat /\ queued'[m] = queued[m] + 1
      BY <1>5, <2>1, <3>1 DEF ViewTypes
    <3> QED BY <3>1, <3>2
  <2>2. CASE dropped' = [dropped EXCEPT ![v] = @ \cup {"unsent"}]
    BY <1>3, <2>2, GaveUp
  <2> QED BY <1>2, <2>1, <2>2
<1>10. /\ dropped' \in [Visit -> SUBSET {"missing", "permanent", "exhausted", "unsent"}]
       /\ \A x \in Visit : dropped[x] # {} => dropped'[x] # {}
  <2>1. CASE dropped' = dropped
    BY <2>1 DEF ViewTypes
  <2>2. CASE dropped' = [dropped EXCEPT ![v] = @ \cup {"unsent"}]
    BY <1>3, <2>2, GaveUp
  <2> QED BY <1>2, <2>1, <2>2
<1>11. ViewTypes'
  BY <1>2, <1>7, <1>8, <1>10, Zenon DEF ViewTypes
<1>12. ViewTimes'
  BY <1>2 DEF ViewTimes
<1>13. TriesLeft'
  <2>1. \A x \in Visit, y \in Tries : queued'[<<x, y>>] > 0 => y < MaxViewTries
    BY <1>4, <1>8 DEF TriesLeft
  <2>2. n < MaxViewTries
    BY <1>3, <1>4, ViewConstants
  <2> QED BY <1>6, <1>7, <2>1, <2>2 DEF TriesLeft
<1>14. visit[v] # Never
  BY <1>1, <1>2 , <1>3 DEF ViewWays
<1>15. ViewWays'
  <2>1. ASSUME NEW x \in Visit, visit'[x] = Never
        PROVE  /\ failures'[x] = 0
               /\ \A y \in Tries : queued'[<<x, y>>] = 0
               /\ \A y \in ViewWorker : viewJob'[y].op # "idle" => viewJob'[y].v # x
    <3>1. x # v /\ visit[x] = Never
      BY <1>2, <1>14, <2>1
    <3> QED BY <1>2, <1>6, <1>7, <1>8, <3>1 DEF ViewWays
  <2>2. ASSUME NEW x \in Visit, visit'[x] # Never
        PROVE  \/ viewLog' >= visit'[x]
               \/ \E y \in Tries : queued'[<<x, y>>] > 0
               \/ \E y \in ViewWorker : /\ viewJob'[y].op \in {"held", "checked", "failed"}
                                        /\ viewJob'[y].v = x
               \/ dropped'[x] # {}
    <3>1. CASE x = v
      BY <1>5, <1>9, <3>1
    <3>2. CASE x # v
      <4>1. \A y \in Tries : queued[<<x, y>>] > 0 => queued'[<<x, y>>] > 0
        BY <1>8
      <4>2. \A y \in ViewWorker : viewJob[y].op # "idle" /\ viewJob[y].v = x => viewJob'[y] = viewJob[y]
        BY <1>1, <1>7, <3>2
      <4> QED BY <1>2, <1>10, <2>2, <4>1, <4>2 DEF ViewWays
    <3> QED BY <3>1, <3>2
  <2> QED BY <2>1, <2>2 DEF ViewWays
<1>16. ViewsOnce'
  <2>1. SUFFICES ASSUME stops = 0 PROVE ViewsOnce'
    BY <1>2 DEF ViewsOnce
  <2>2. failures[v] <= k
    BY <1>1, <1>2, <1>3, <1>4, <2>1 DEF ViewsOnce
  <2>3. \A x \in Visit, y \in Tries : queued'[<<x, y>>] > 0 => failures'[x] <= y
    BY <1>2, <1>8, <2>1, <2>2 DEF ViewsOnce
  <2> QED BY <1>2, <1>6, <1>7, <2>1, <2>3 DEF ViewsOnce
<1>17. ViewsFew'
  <2>1. viewJob \in [ViewWorker -> ViewJobs]
    BY DEF ViewTypes
  <2>2. w \in AtWork(viewJob, v) /\ AtWork(viewJob', v) = AtWork(viewJob, v) \ {w}
    BY <1>1, <1>2, <1>6, <1>7 DEF AtWork
  <2>3. Cardinality(AtWork(viewJob, v)) = Cardinality(AtWork(viewJob', v)) + 1
        /\ Cardinality(AtWork(viewJob', v)) \in Nat
    BY <1>3, <1>7, <2>1, <2>2, WorkersCount
  <2>4. /\ MessagesIn(queued', v) \in {MessagesIn(queued, v), MessagesIn(queued, v) + 1}
        /\ \A x \in Visit : x # v => MessagesIn(queued', x) = MessagesIn(queued, x)
    <3>1. CASE queued' = queued
      BY <3>1
    <3>2. CASE queued' = [queued EXCEPT ![<<v, k>>] = @ + 1]
      <4>1. PICK q, r \in [Visit \X Tries -> Nat] : q = queued /\ r = queued'
        BY <1>8 DEF ViewTypes
      <4>2. OneMore(q, r, v, k)
        BY <1>3, <1>5, <3>2, <4>1 DEF OneMore
      <4>3. CountsOneMore(q, r, v)
        BY <4>2, OneMessageMore
      <4>4. /\ MessagesIn(r, v) = MessagesIn(q, v) + 1
            /\ \A x \in Visit : x # v => MessagesIn(r, x) = MessagesIn(q, x)
        BY <4>3 DEF CountsOneMore
      <4> QED BY <4>1, <4>4
    <3> QED BY <1>2, <3>1, <3>2
  <2>5. PICK a, b, c, d \in Nat : /\ a = MessagesIn(queued, v) /\ b = MessagesIn(queued', v)
                                  /\ c = Cardinality(AtWork(viewJob, v))
                                  /\ d = Cardinality(AtWork(viewJob', v))
    BY <1>3, <1>8, <2>3, MessagesAreIn, MessagesNext DEF ViewTypes
  <2>6. /\ b \in {a, a + 1} /\ c = d + 1 /\ a + c <= Room
        /\ Room \in Nat /\ Room' = Room
    BY <1>2, <1>3, <2>3, <2>4, <2>5, RoomIsNat DEF ViewsFew, Room, ViewTypes
  <2>7. b + d <= Room'
    BY <2>5, <2>6
  <2>8. \A x \in Visit : x # v => AtWork(viewJob', x) = AtWork(viewJob, x)
    BY <1>1, <1>6, <1>7 DEF AtWork
  <2> QED BY <1>2, <2>4, <2>5, <2>6, <2>7, <2>8 DEF ViewsFew
<1> QED BY <1>11, <1>12, <1>13, <1>15, <1>16, <1>17

\* What a stop puts back: the messages of all consumers.
LEMMA HeldParts ==
  ASSUME ViewTypes, NEW v \in Visit, NEW n \in Tries
  PROVE  /\ Held(v, n) \subseteq ViewWorker /\ IsFiniteSet(Held(v, n))
         /\ Cardinality(Held(v, n)) \in Nat
         /\ \A w \in ViewWorker :
              w \in Held(v, n) <=> viewJob[w].op # "idle" /\ viewJob[w].v = v /\ viewJob[w].n = n
         /\ Cardinality(Held(v, n)) > 0 <=> Held(v, n) # {}
<1>1. Held(v, n) \subseteq ViewWorker
  BY DEF Held
<1>2. IsFiniteSet(Held(v, n))
  BY <1>1, ViewConstants, FS_Subset
<1>3. Cardinality(Held(v, n)) \in Nat /\ (Cardinality(Held(v, n)) = 0 <=> Held(v, n) = {})
  BY <1>2, FS_CardinalityType, FS_EmptySet
<1>4. \A w \in ViewWorker : viewJob[w] # NoViewJob <=> viewJob[w].op # "idle"
  BY ViewJobParts DEF ViewTypes
<1> QED BY <1>1, <1>2, <1>3, <1>4 DEF Held

LEMMA StopsGain ==
  ASSUME ViewTypes, Stops, queued' \in [Visit \X Tries -> Nat], NEW v \in Visit
  PROVE  MessagesIn(queued', v) <= MessagesIn(queued, v) + Cardinality(ViewWorker)
<1>1. PICK f, e, p : /\ f = QueuedOf(queued, v) /\ e = QueuedOf(queued', v)
                     /\ p = [n \in Tries |-> Held(v, n)]
  OBVIOUS
<1>2. /\ f \in [Tries -> Nat] /\ \A n \in Tries : f[n] = queued[<<v, n>>]
      /\ e \in [Tries -> Nat] /\ \A n \in Tries : e[n] = queued'[<<v, n>>]
  BY <1>1 DEF QueuedOf, ViewTypes
<1>3. p \in [Tries -> SUBSET ViewWorker] /\ \A n \in Tries : p[n] = Held(v, n)
  BY <1>1 DEF Held
<1>4. \A n, k \in Tries : n # k => p[n] \cap p[k] = {}
  BY <1>3 DEF Held
<1>5. \A n \in Tries : e[n] = f[n] + Cardinality(p[n])
  <2> TAKE n \in Tries
  <2>1. \A m \in Visit \X Tries : queued'[m] = queued[m] + Cardinality(Held(m[1], m[2]))
    BY Zenon DEF Stops
  <2>2. <<v, n>> \in Visit \X Tries /\ <<v, n>>[1] = v /\ <<v, n>>[2] = n
    OBVIOUS
  <2>3. queued'[<<v, n>>] = queued[<<v, n>>] + Cardinality(Held(v, n))
    BY <2>1, <2>2
  <2> QED BY <1>2, <1>3, <2>3
<1>6. PICK U : U = UNION {p[n] : n \in Tries}
  OBVIOUS
<1>7. SumOf(e, Tries) = SumOf(f, Tries) + Cardinality(U)
  <2>1. IsFiniteSet(Tries) /\ IsFiniteSet(ViewWorker) /\ Tries \in SUBSET Tries
    BY ViewConstants
  <2> QED BY <1>2, <1>3, <1>4, <1>5, <1>6, <2>1, SumGains
<1>8. Cardinality(U) <= Cardinality(ViewWorker)
  <2>1. U \subseteq ViewWorker
    BY <1>3, <1>6
  <2> QED BY <2>1, ViewConstants, FS_Subset
<1>9. Cardinality(U) \in Nat
  <2>1. U \subseteq ViewWorker
    BY <1>3, <1>6
  <2> QED BY <2>1, ViewConstants, FS_Subset, FS_CardinalityType
<1>10. PICK a, b, c, d \in Nat : /\ a = SumOf(f, Tries) /\ b = SumOf(e, Tries)
                                 /\ c = Cardinality(U) /\ d = Cardinality(ViewWorker)
  BY <1>2, <1>9, ViewConstants, SumBounds
<1>11. b <= a + d
  BY <1>7, <1>8, <1>10
<1> QED BY <1>1, <1>10, <1>11 DEF MessagesIn

LEMMA StopsKeeps ==
  ASSUME ViewInv, Stops
  PROVE  ViewInv'
<1> USE DEF ViewInv
<1>1. /\ stops' = stops + 1 /\ viewJob' = [w \in ViewWorker |-> NoViewJob]
      /\ UNCHANGED <<visit, viewLog, viewCount, today, failures, dropped>>
  BY DEF Stops
<1>2. /\ DOMAIN queued' = Visit \X Tries
      /\ \A x \in Visit, n \in Tries :
           queued'[<<x, n>>] = queued[<<x, n>>] + Cardinality(Held(x, n))
  <2>1. queued' = [m \in Visit \X Tries |-> queued[m] + Cardinality(Held(m[1], m[2]))]
    BY DEF Stops
  <2>2. \A x \in Visit, n \in Tries : <<x, n>> \in Visit \X Tries /\ <<x, n>>[1] = x /\ <<x, n>>[2] = n
    OBVIOUS
  <2> QED BY <2>1, <2>2
<1>3. \A x \in Visit, n \in Tries :
        /\ queued[<<x, n>>] \in Nat
        /\ Cardinality(Held(x, n)) \in Nat
        /\ Cardinality(Held(x, n)) > 0 <=> Held(x, n) # {}
  BY HeldParts DEF ViewTypes
<1>4. /\ \A x \in Visit, n \in Tries :
           /\ queued'[<<x, n>>] \in Nat
           /\ queued'[<<x, n>>] > 0 <=> queued[<<x, n>>] > 0 \/ Held(x, n) # {}
      /\ queued' \in [Visit \X Tries -> Nat]
  <2>1. ASSUME NEW x \in Visit, NEW n \in Tries
        PROVE  /\ queued'[<<x, n>>] \in Nat
               /\ queued'[<<x, n>>] > 0 <=> queued[<<x, n>>] > 0 \/ Held(x, n) # {}
    <3>1. PICK a, b \in Nat : a = queued[<<x, n>>] /\ b = Cardinality(Held(x, n))
      BY <1>3
    <3>2. queued'[<<x, n>>] = a + b /\ (b > 0 <=> Held(x, n) # {})
      BY <1>2, <1>3, <3>1
    <3>3. a + b \in Nat /\ (a + b > 0 <=> a > 0 \/ b > 0)
      OBVIOUS
    <3> QED BY <3>1, <3>2, <3>3
  <2>2. queued' = [m \in Visit \X Tries |-> queued'[m]]
    BY Zenon DEF Stops
  <2>3. \A m \in Visit \X Tries : queued'[m] \in Nat
    BY <2>1
  <2> QED BY <2>1, <2>2, <2>3
<1>5. NoViewJob \in ViewJobs /\ NoViewJob.op = "idle"
  BY ViewJobParts
<1>6. /\ viewJob' \in [ViewWorker -> ViewJobs]
      /\ \A w \in ViewWorker : viewJob'[w].op = "idle"
  BY <1>1, <1>5
<1>7. stops' \in Nat /\ stops' # 0
  BY <1>1 DEF ViewTypes
<1>8. ViewTypes'
  BY <1>1, <1>4, <1>6, <1>7, Zenon DEF ViewTypes
<1>9. ViewTimes'
  BY <1>1 DEF ViewTimes
<1>10. \A x \in Visit, n \in Tries, w \in ViewWorker :
         w \in Held(x, n) <=> viewJob[w].op # "idle" /\ viewJob[w].v = x /\ viewJob[w].n = n
  BY HeldParts
<1>11. \A x \in Visit, n \in Tries : Held(x, n) # {} => \E w \in ViewWorker : w \in Held(x, n)
  BY DEF Held
<1>12. TriesLeft'
  <2>1. \A x \in Visit, n \in Tries : queued'[<<x, n>>] > 0 => n < MaxViewTries
    BY <1>4, <1>10, <1>11 DEF TriesLeft
  <2> QED BY <1>6, <2>1 DEF TriesLeft
<1>13. ViewWays'
  <2>1. ASSUME NEW x \in Visit, visit'[x] = Never
        PROVE  /\ failures'[x] = 0
               /\ \A n \in Tries : queued'[<<x, n>>] = 0
    <3>1. visit[x] = Never
      BY <1>1, <2>1
    <3>2. \A n \in Tries : Held(x, n) = {} /\ queued[<<x, n>>] = 0
      BY <1>10, <1>11, <3>1 DEF ViewWays
    <3>3. \A n \in Tries : ~(queued'[<<x, n>>] > 0) /\ queued'[<<x, n>>] \in Nat
      BY <1>4, <3>2
    <3>4. \A n \in Tries : queued'[<<x, n>>] = 0
      BY <3>3
    <3> QED BY <1>1, <3>1, <3>4 DEF ViewWays
  <2>2. ASSUME NEW x \in Visit, visit'[x] # Never
        PROVE  \/ viewLog' >= visit'[x]
               \/ \E n \in Tries : queued'[<<x, n>>] > 0
               \/ dropped'[x] # {}
    <3>1. ASSUME NEW w \in ViewWorker, viewJob[w].op \in {"held", "checked", "failed"}, viewJob[w].v = x
          PROVE  \E n \in Tries : queued'[<<x, n>>] > 0
      <4>1. viewJob[w] \in ViewJobs /\ viewJob[w].op # "idle"
        BY <3>1 DEF ViewTypes
      <4>2. viewJob[w].n \in Tries
        BY <4>1, ViewJobParts
      <4>3. w \in Held(x, viewJob[w].n)
        BY <1>10, <3>1, <4>1, <4>2
      <4> QED BY <1>4, <4>2, <4>3
    <3>2. ASSUME NEW n \in Tries, queued[<<x, n>>] > 0
          PROVE  queued'[<<x, n>>] > 0
      BY <1>4, <3>2
    <3> QED BY <1>1, <2>2, <3>1, <3>2 DEF ViewWays
  <2> QED BY <1>6, <2>1, <2>2 DEF ViewWays
<1>14. ViewsOnce'
  BY <1>7 DEF ViewsOnce
<1>15. ViewsFew'
  <2>1. ASSUME NEW v \in Visit
        PROVE  MessagesIn(queued', v) + Cardinality(AtWork(viewJob', v)) <= Room'
    <3>1. AtWork(viewJob', v) = {}
      BY <1>6 DEF AtWork
    <3>2. Cardinality(AtWork(viewJob', v)) = 0
      BY <3>1, FS_EmptySet
    <3>3. viewJob \in [ViewWorker -> ViewJobs]
      BY DEF ViewTypes
    <3>4. PICK a, b, c, d \in Nat : /\ a = MessagesIn(queued, v) /\ b = MessagesIn(queued', v)
                                    /\ c = Cardinality(ViewWorker)
                                    /\ d = Cardinality(AtWork(viewJob, v))
      BY <1>4, <3>3, ViewConstants, MessagesAreIn, MessagesNext, WorkersCount DEF ViewTypes
    <3>5. b <= a + c
      BY <1>4, <3>4, StopsGain
    <3>6. PICK s \in Nat : s = stops
      BY DEF ViewTypes
    <3>7. Room = 1 + s * c /\ Room' = 1 + (s + 1) * c
      BY <1>1, <3>4, <3>6 DEF Room
    <3>8. a + d <= 1 + s * c
      BY <3>4, <3>7 DEF ViewsFew
    <3>9. PICK m \in Nat : m = s * c /\ (s + 1) * c = m + c
      OBVIOUS
    <3>10. b + 0 <= 1 + (m + c)
      BY <3>5, <3>8, <3>9
    <3> QED BY <3>2, <3>4, <3>7, <3>9, <3>10
  <2> QED BY <2>1 DEF ViewsFew
<1> QED BY <1>8, <1>9, <1>12, <1>13, <1>14, <1>15

LEMMA NextDayKeeps ==
  ASSUME ViewInv, NextDay
  PROVE  ViewInv'
<1> USE DEF ViewInv
<1>1. /\ today < LastDay /\ today' = today + 1
      /\ UNCHANGED <<visit, queued, viewJob, viewLog, viewCount, failures, dropped, stops>>
  BY DEF NextDay
<1>2. today \in 0 .. LastDay /\ LastDay \in Nat
  BY ViewAssumption DEF ViewTypes, Day
<1>3. today' \in Day
  BY <1>1, <1>2 DEF Day
<1>4. ViewTypes'
  BY <1>1, <1>3, Zenon DEF ViewTypes
<1>5. ViewTimes'
  <2>1. \A x \in Visit : visit[x] \in Nat \cup {0 - 1}
    BY ViewConstants DEF ViewTypes
  <2>2. viewLog \in Nat \cup {0 - 1}
    BY ViewConstants DEF ViewTypes
  <2> QED BY <1>1, <1>2, <2>1, <2>2 DEF ViewTimes
<1>6. TriesLeft' /\ ViewWays' /\ ViewsOnce'
  BY <1>1 DEF TriesLeft, ViewWays, ViewsOnce
<1>7. ViewsFew'
  BY <1>1 DEF ViewsFew, MessagesIn, QueuedOf, AtWork, Room
<1> QED BY <1>4, <1>5, <1>6, <1>7

LEMMA NothingMoves ==
  ASSUME ViewInv, UNCHANGED <<visit, queued, viewJob, viewLog, viewCount, today,
                              failures, dropped, stops>>
  PROVE  ViewInv'
<1> USE DEF ViewInv
<1>1. ViewTypes' /\ ViewTimes'
  BY DEF ViewTypes, ViewTimes
<1>2. TriesLeft' /\ ViewWays' /\ ViewsOnce'
  BY DEF TriesLeft, ViewWays, ViewsOnce
<1>3. ViewsFew'
  BY DEF ViewsFew, MessagesIn, QueuedOf, AtWork, Room
<1> QED BY <1>1, <1>2, <1>3

LEMMA ViewsBegin ==
  ASSUME ViewsInit
  PROVE  ViewInv
<1>1. /\ visit = [v \in Visit |-> Never]
      /\ queued = [m \in Visit \X Tries |-> 0]
      /\ viewJob = [w \in ViewWorker |-> NoViewJob]
      /\ viewLog = Never /\ viewCount = 0 /\ today = 0
      /\ failures = [v \in Visit |-> 0] /\ dropped = [v \in Visit |-> {}] /\ stops = 0
  BY DEF ViewsInit
<1>2. NoViewJob \in ViewJobs /\ NoViewJob.op = "idle"
  BY ViewJobParts
<1>3. ViewTypes
  BY <1>1, <1>2, ViewConstants DEF ViewTypes
<1>4. ViewTimes
  BY <1>1, ViewConstants DEF ViewTimes
<1>5. TriesLeft
  BY <1>1, <1>2 DEF TriesLeft
<1>6. ViewWays
  BY <1>1, <1>2 DEF ViewWays
<1>7. ViewsOnce
  BY <1>1, <1>2, ViewConstants DEF ViewsOnce
<1>8. ViewsFew
  <2>1. ASSUME NEW v \in Visit
        PROVE  MessagesIn(queued, v) + Cardinality(AtWork(viewJob, v)) <= Room
    <3>1. queued \in [Visit \X Tries -> Nat]
      BY <1>3 DEF ViewTypes
    <3>2. \A n \in Tries : ~(queued[<<v, n>>] > 0)
      BY <1>1
    <3>3. MessagesIn(queued, v) \in Nat /\ ~(MessagesIn(queued, v) > 0)
      BY <3>1, <3>2, MessagesAreIn, Zenon
    <3>4. MessagesIn(queued, v) = 0
      BY <3>3
    <3>5. AtWork(viewJob, v) = {}
      BY <1>1, <1>2 DEF AtWork
    <3>6. Cardinality(AtWork(viewJob, v)) = 0
      BY <3>5, FS_EmptySet
    <3>7. PICK c \in Nat : c = Cardinality(ViewWorker)
      BY ViewConstants
    <3>8. Room = 1 + 0 * c
      BY <1>1, <3>7 DEF Room
    <3> QED BY <3>4, <3>6, <3>8
  <2> QED BY <2>1 DEF ViewsFew
<1> QED BY <1>3, <1>4, <1>5, <1>6, <1>7, <1>8 DEF ViewInv

LEMMA ViewsKeep ==
  ASSUME ViewInv, [ViewsNext]_viewVars
  PROVE  ViewInv'
<1>1. CASE UNCHANGED viewVars
  BY <1>1, NothingMoves DEF viewVars
<1>2. CASE ViewsNext
  <2>1. ASSUME NEW v \in Visit, NEW sent \in BOOLEAN, Visits(v, sent)
        PROVE  ViewInv'
    BY <2>1, VisitsKeeps
  <2>2. ASSUME NEW v \in Visit, NEW w \in ViewWorker, NEW n \in Tries, Delivers(w, v, n)
        PROVE  ViewInv'
    BY <2>2, DeliversKeeps
  <2>3. ASSUME NEW w \in ViewWorker, NEW answer \in {"yes", "no", "unknown"},
               ViewChecks(w, answer)
        PROVE  ViewInv'
    BY <2>3, ViewChecksKeeps
  <2>4. ASSUME NEW w \in ViewWorker, \/ ViewCommits(w) \/ ViewBreaks(w)
                                     \/ ViewFails(w) \/ Acks(w)
        PROVE  ViewInv'
    BY <2>4, ViewCommitsKeeps, ViewBreaksKeeps, ViewFailsKeeps, AcksKeeps
  <2>5. ASSUME NEW w \in ViewWorker, NEW sent \in BOOLEAN, Republishes(w, sent)
        PROVE  ViewInv'
    BY <2>5, RepublishesKeeps
  <2>6. CASE Stops
    BY <2>6, StopsKeeps
  <2>7. CASE NextDay
    BY <2>7, NextDayKeeps
  <2>8. CASE Vanishes
    BY <2>8, NothingMoves DEF Vanishes
  <2> QED BY <1>2, <2>1, <2>2, <2>3, <2>4, <2>5, <2>6, <2>7, <2>8, Zenon DEF ViewsNext
<1> QED BY <1>1, <1>2

LEMMA ViewsAreHeld ==
  ASSUME ViewInv
  PROVE  ViewsHold
<1>1. queued \in [Visit \X Tries -> Nat] /\ viewJob \in [ViewWorker -> ViewJobs]
  BY DEF ViewInv, ViewTypes
<1>2. VisitsAccounted
  <2>1. ASSUME NEW v \in Visit, visit[v] # Never
        PROVE  \/ viewLog >= visit[v]
               \/ Messages(v) > 0 \/ \E n \in Tries : Held(v, n) # {}
               \/ dropped[v] # {}
    <3>1. ASSUME NEW w \in ViewWorker, viewJob[w].op \in {"held", "checked", "failed"},
                 viewJob[w].v = v
          PROVE  \E n \in Tries : Held(v, n) # {}
      <4>1. viewJob[w] \in ViewJobs /\ viewJob[w].op # "idle"
        BY <1>1, <3>1
      <4>2. viewJob[w].n \in Tries
        BY <4>1, ViewJobParts
      <4>3. w \in Held(v, viewJob[w].n)
        BY <3>1, <4>1, <4>2, HeldParts DEF ViewInv
      <4> QED BY <4>2, <4>3
    <3>2. ASSUME NEW n \in Tries, queued[<<v, n>>] > 0
          PROVE  Messages(v) > 0
      BY <1>1, <3>2, MessagesAreIn, Zenon
    <3> QED BY <2>1, <3>1, <3>2 DEF ViewInv, ViewWays
  <2> QED BY <2>1 DEF VisitsAccounted, Came
<1>3. TriesBounded
  <2>1. stops = 0 => \A v \in Visit : failures[v] <= MaxViewTries
    BY DEF ViewInv, ViewsOnce
  <2>2. ASSUME NEW v \in Visit
        PROVE  Messages(v) <= 1 + stops * Cardinality(ViewWorker)
    <3>1. PICK a, b \in Nat : a = MessagesIn(queued, v) /\ b = Cardinality(AtWork(viewJob, v))
      BY <1>1, MessagesAreIn, WorkersCount
    <3>2. a + b <= Room /\ Room \in Nat
      BY <3>1, RoomIsNat DEF ViewInv, ViewsFew, ViewTypes
    <3>3. a <= Room
      BY <3>1, <3>2
    <3>4. Messages(v) = a
      BY <1>1, <3>1, MessagesAreIn
    <3> QED BY <3>3, <3>4 DEF Room
  <2> QED BY <2>1, <2>2 DEF TriesBounded
<1>4. OncePerDay
  <2>1. today \in Nat /\ viewLog \in Nat \cup {0 - 1} /\ viewCount \in Nat
    BY ViewConstants DEF ViewInv, ViewTypes
  <2> QED BY <2>1 DEF OncePerDay, ViewInv, ViewTimes
<1> QED BY <1>2, <1>3, <1>4 DEF ViewsHold

\* For any visits, days, tries, consumers and stops: a visit that came is counted,
\* waits, is in work, or was given up for a reason; without a stop it fails at most
\* MaxViewTries times, and every stop leaves at most one message more of it per
\* consumer; the user counts at most once a day (handle_interaction_view,
\* republish_with_retry_count, report_view).
THEOREM ViewsAreCounted == ViewsSpec => []ViewsHold
<1>1. ViewsInit => ViewInv
  BY ViewsBegin
<1>2. ViewInv /\ [ViewsNext]_viewVars => ViewInv'
  BY ViewsKeep
<1>3. ViewInv => ViewsHold
  BY ViewsAreHeld
<1> QED BY <1>1, <1>2, <1>3, PTL DEF ViewsSpec

-----------------------------------------------------------------------------
(* The gate before the operations on a resource.                           *)

States == {"normal", "auditing", "rejected", "hidden", "deleted"}

Request == [op: Deeds, phase: Phases, author: BOOLEAN, down: BOOLEAN,
            shapes: SUBSET States, blocks: SUBSET BOOLEAN]

\* The resource and the relation that requests see.
Around ==
  /\ kindAsked \in Biz
  /\ shape \in [Biz -> States] /\ shape[kindAsked] \in Shapes(kindAsked)
  /\ owned \in BOOLEAN
  /\ blocking \in SUBSET Sides
  /\ owned => blocking = {}
  /\ gateReqs \in 0 .. GateRequests

\* A request under way has been there at the present state of things.
Witness(q) ==
  q.phase \notin Outcomes =>
    /\ shape[kindAsked] \in q.shapes
    /\ blocking = {} => FALSE \in q.blocks
    /\ blocking # {} => TRUE \in q.blocks

\* What stands behind the phase a request has come to.
Justified(q) ==
  LET need == Needs(kindAsked, q.op)
      at == q.phase
  IN /\ at \in {"post", "consume"} => need = "view"
     /\ at \in {"author", "relation", "act", "acted"} =>
          (need \in {"resource", "unblocked"} /\ kindAsked \notin Rpa
             => "normal" \in q.shapes)
     /\ at \in {"act", "acted"} =>
          (need = "unblocked" /\ q.author => FALSE \in q.blocks)
     /\ at = "missing" => \/ q.shapes # {"normal"}
                          \/ kindAsked \in Crawled /\ q.down
     /\ at = "blocked" => TRUE \in q.blocks
     /\ at = "dropped" => (kindAsked \in Remote => "deleted" \in q.shapes)

Asked ==
  gateReq # NoGateRequest =>
    gateReq \in Request /\ Witness(gateReq) /\ Justified(gateReq)

\* The inductive invariant.
GateInv == Around /\ Asked

LEMMA GateInvInit == GateInit => GateInv
<1> SUFFICES ASSUME GateInit PROVE GateInv
  OBVIOUS
<1>1. shape[kindAsked] = "normal" /\ "normal" \in Shapes(kindAsked)
  BY DEF GateInit, Shapes
<1>2. Around
  BY <1>1, GateAssumption DEF GateInit, Around, States
<1> QED BY <1>2 DEF GateInit, GateInv, Asked

\* A step of the request under way that only changes where it is.
LEMMA Advance ==
  ASSUME GateInv, gateReq # NoGateRequest, NEW p \in Phases,
         gateReq' = [gateReq EXCEPT !.phase = p]
  PROVE  /\ gateReq' \in Request
         /\ gateReq'.phase = p /\ gateReq'.op = gateReq.op
         /\ gateReq'.author = gateReq.author /\ gateReq'.down = gateReq.down
         /\ gateReq'.shapes = gateReq.shapes /\ gateReq'.blocks = gateReq.blocks
<1>1. gateReq \in Request
  BY DEF GateInv, Asked
<1> QED BY <1>1 DEF Request

LEMMA AroundStep ==
  ASSUME GateInv, [GateNext]_gateVars
  PROVE  Around'
<1> USE DEF GateInv, Around
<1>1. ASSUME SameAround PROVE Around'
  BY <1>1 DEF SameAround
<1>2. ASSUME NEW op \in Deeds, Requests(op) PROVE Around'
  BY <1>2, GateAssumption DEF Requests
<1>3. ASSUME NEW state \in Shapes(kindAsked), Turns(state) PROVE Around'
  <2>1. state \in States
    BY DEF Shapes, States
  <2> QED BY <1>3, <2>1 DEF Turns
<1>4. ASSUME NEW side \in Sides, Blocks(side) PROVE Around'
  BY <1>4 DEF Blocks
<1>5. CASE UNCHANGED gateVars
  BY <1>5 DEF gateVars
<1> QED
  BY <1>1, <1>2, <1>3, <1>4, <1>5
  DEF GateNext, ReadsRow, ChecksRelation, FindsAccused, Answered, AsksExistence,
      AsksAuthor, PostsView, ConsumesView, Performs

\* A request that moves on while nothing changes around it stays justified
\* when its new phase is.
LEMMA StaysWitness ==
  ASSUME GateInv, SameAround, gateReq # NoGateRequest, gateReq.phase \notin Outcomes,
         gateReq' \in Request, gateReq'.shapes = gateReq.shapes,
         gateReq'.blocks = gateReq.blocks, Justified(gateReq)'
  PROVE  Asked'
BY DEF GateInv, Asked, Witness, SameAround

LEMMA ReadsRowStep ==
  ASSUME GateInv, ReadsRow
  PROVE  Asked'
<1> USE DEF GateInv
<1>1. /\ gateReq # NoGateRequest /\ gateReq.phase = "exists" /\ SameAround
      /\ gateReq.phase \notin Outcomes /\ gateReq \in Request
      /\ shape[kindAsked] \in gateReq.shapes /\ kindAsked \in Biz \ Remote
  BY DEF ReadsRow, Outcomes, Asked, Witness, Around
<1>2. CASE kindAsked = "user"
  <2>1. gateReq' = [gateReq EXCEPT !.phase = "failed"]
    BY <1>2 DEF ReadsRow, GoesTo
  <2> QED BY <1>1, <2>1, Advance, StaysWitness DEF Justified, Phases, Outcomes
<1>3. CASE kindAsked # "user" /\ Open(kindAsked, shape[kindAsked])
  <2>1. gateReq' = [gateReq EXCEPT !.phase = "relation", !.author = TRUE]
    BY <1>3 DEF ReadsRow
  <2>2. /\ gateReq' \in Request /\ gateReq'.phase = "relation"
        /\ gateReq'.shapes = gateReq.shapes /\ gateReq'.blocks = gateReq.blocks
    BY <1>1, <2>1 DEF Request, Phases
  <2>3. "normal" \in gateReq.shapes
    BY <1>1, <1>3 DEF Open
  <2> QED BY <1>1, <2>2, <2>3, StaysWitness DEF Justified
<1>4. CASE kindAsked # "user" /\ ~Open(kindAsked, shape[kindAsked])
  <2>1. gateReq' = [gateReq EXCEPT !.phase = "missing"]
    BY <1>4 DEF ReadsRow, GoesTo
  <2>2. shape[kindAsked] # "normal"
    BY <1>1, <1>4 DEF Open, Exists, Biz
  <2>3. gateReq.shapes # {"normal"}
    BY <1>1, <2>2
  <2> QED BY <1>1, <2>1, <2>3, Advance, StaysWitness DEF Justified, Phases, Outcomes
<1> QED BY <1>2, <1>3, <1>4

LEMMA AsksExistenceStep ==
  ASSUME GateInv, NEW answer \in Answers(kindAsked), AsksExistence(answer)
  PROVE  Asked'
<1> USE DEF GateInv
<1>1. /\ gateReq # NoGateRequest /\ gateReq.phase = "exists" /\ SameAround
      /\ gateReq.phase \notin Outcomes /\ gateReq \in Request
      /\ shape[kindAsked] \in gateReq.shapes /\ kindAsked \in Remote
  BY DEF AsksExistence, Outcomes, Asked, Witness
<1>2. CASE kindAsked \in Rpa \/ answer = "yes"
  <2>1. gateReq' = [gateReq EXCEPT !.phase = "author"]
    BY <1>2 DEF AsksExistence, GoesTo
  <2>2. kindAsked \notin Rpa => "normal" \in gateReq.shapes
    BY <1>1, <1>2 DEF Answers
  <2> QED
    BY <1>1, <2>1, <2>2, Advance, StaysWitness
    DEF Justified, Phases, Outcomes, SameAround
<1>3. CASE ~(kindAsked \in Rpa \/ answer = "yes")
  <2>1. gateReq' = [gateReq EXCEPT !.phase = "missing", !.down = @ \/ answer = "down"]
    BY <1>3 DEF AsksExistence
  <2>2. /\ gateReq' \in Request /\ gateReq'.phase = "missing"
        /\ gateReq'.shapes = gateReq.shapes /\ gateReq'.blocks = gateReq.blocks
        /\ answer = "down" => gateReq'.down
    BY <1>1, <2>1 DEF Request, Phases, Outcomes
  <2>3. CASE answer = "down"
    <3>1. kindAsked \in Crawled /\ kindAsked' = kindAsked
      BY <1>1, <1>3 DEF Remote, SameAround
    <3> QED BY <1>1, <2>2, <2>3, <3>1, StaysWitness DEF Justified
  <2>4. CASE answer # "down"
    <3>1. shape[kindAsked] # "normal"
      BY <1>3, <2>4 DEF Answers
    <3> QED BY <1>1, <2>2, <3>1, StaysWitness DEF Justified
  <2> QED BY <2>3, <2>4
<1> QED BY <1>2, <1>3

LEMMA AsksAuthorStep ==
  ASSUME GateInv, NEW answer \in Answers(kindAsked), AsksAuthor(answer)
  PROVE  Asked'
<1>1. /\ gateReq # NoGateRequest /\ gateReq.phase = "author" /\ SameAround
      /\ gateReq.phase \notin Outcomes /\ gateReq \in Request /\ Justified(gateReq)
  BY DEF AsksAuthor, Outcomes, Asked, GateInv
<1>2. gateReq' = [gateReq EXCEPT !.phase = "relation",
                                 !.author = kindAsked \in Rpa /\ answer = "yes",
                                 !.down = @ \/ answer = "down"]
  BY DEF AsksAuthor
<1>3. /\ gateReq' \in Request /\ gateReq'.phase = "relation"
      /\ gateReq'.op = gateReq.op
      /\ gateReq'.shapes = gateReq.shapes /\ gateReq'.blocks = gateReq.blocks
  BY <1>1, <1>2 DEF Request, Phases
<1> QED BY <1>1, <1>3, StaysWitness DEF Justified, SameAround

LEMMA ChecksRelationStep ==
  ASSUME GateInv, ChecksRelation
  PROVE  Asked'
<1>1. /\ gateReq # NoGateRequest /\ gateReq.phase = "relation" /\ SameAround
      /\ gateReq.phase \notin Outcomes /\ gateReq \in Request /\ Justified(gateReq)
      /\ Witness(gateReq)
  BY DEF ChecksRelation, Outcomes, Asked, GateInv
<1> DEFINE turned == /\ Needs(kindAsked, gateReq.op) = "unblocked"
                     /\ gateReq.author /\ ~owned /\ Blocked
<1>2. CASE turned
  <2>1. gateReq' = [gateReq EXCEPT !.phase = "blocked"]
    BY <1>2 DEF ChecksRelation, GoesTo
  <2>2. TRUE \in gateReq.blocks
    BY <1>1, <1>2 DEF Witness, Blocked
  <2> QED BY <1>1, <2>1, <2>2, Advance, StaysWitness DEF Justified, Phases, Outcomes
<1>3. CASE ~turned
  <2>1. gateReq' = [gateReq EXCEPT !.phase = "act"]
    BY <1>3 DEF ChecksRelation, GoesTo
  <2>2. Needs(kindAsked, gateReq.op) = "unblocked" /\ gateReq.author
          => FALSE \in gateReq.blocks
    BY <1>1, <1>3 DEF Witness, Blocked, GateInv, Around
  <2> QED
    BY <1>1, <2>1, <2>2, Advance, StaysWitness
    DEF Justified, Phases, Outcomes, SameAround
<1> QED BY <1>2, <1>3

LEMMA FindsAccusedStep ==
  ASSUME GateInv, FindsAccused
  PROVE  Asked'
<1>1. /\ gateReq # NoGateRequest /\ gateReq.phase = "exists" /\ SameAround
      /\ Needs(kindAsked, gateReq.op) = "own"
      /\ gateReq.phase \notin Outcomes /\ gateReq \in Request
      /\ shape[kindAsked] \in gateReq.shapes
  BY DEF FindsAccused, Outcomes, Asked, GateInv, Witness
<1>2. CASE kindAsked = "user"
  <2>1. gateReq' = [gateReq EXCEPT !.phase = "failed"]
    BY <1>2 DEF FindsAccused, GoesTo
  <2> QED BY <1>1, <2>1, Advance, StaysWitness DEF Justified, Phases, Outcomes
<1>3. CASE kindAsked = "dynamic" /\ shape[kindAsked] = "deleted"
  <2>1. gateReq' = [gateReq EXCEPT !.phase = "missing"]
    BY <1>3 DEF FindsAccused, GoesTo
  <2>2. gateReq.shapes # {"normal"}
    BY <1>1, <1>3
  <2> QED BY <1>1, <2>1, <2>2, Advance, StaysWitness DEF Justified, Phases, Outcomes
<1>4. CASE kindAsked # "user" /\ ~(kindAsked = "dynamic" /\ shape[kindAsked] = "deleted")
  <2>1. gateReq' = [gateReq EXCEPT !.phase = "act"]
    BY <1>4 DEF FindsAccused, GoesTo
  <2> QED
    BY <1>1, <2>1, Advance, StaysWitness
    DEF Justified, Phases, Outcomes, SameAround
<1> QED BY <1>2, <1>3, <1>4

LEMMA PerformsStep ==
  ASSUME GateInv, NEW answer \in Answers(kindAsked), Performs(answer)
  PROVE  Asked'
<1>1. /\ gateReq # NoGateRequest /\ gateReq.phase = "act" /\ SameAround
      /\ gateReq.phase \notin Outcomes /\ gateReq \in Request /\ Justified(gateReq)
  BY DEF Performs, Outcomes, Asked, GateInv
<1>2. PICK p \in {"unsupported", "failed", "acted"} :
        gateReq' = [gateReq EXCEPT !.phase = p]
  BY DEF Performs, GoesTo
<1>3. p \in Phases
  BY DEF Phases, Outcomes
<1>4. /\ gateReq' \in Request /\ gateReq'.phase = p /\ gateReq'.op = gateReq.op
      /\ gateReq'.author = gateReq.author
      /\ gateReq'.shapes = gateReq.shapes /\ gateReq'.blocks = gateReq.blocks
  BY <1>1, <1>2, <1>3, Advance
<1>5. Justified(gateReq)'
  BY <1>1, <1>4 DEF Justified, SameAround
<1> QED BY <1>1, <1>4, <1>5, StaysWitness

LEMMA PostsViewStep ==
  ASSUME GateInv, NEW answer \in Answers(kindAsked), PostsView(answer)
  PROVE  Asked'
<1>1. /\ gateReq # NoGateRequest /\ gateReq.phase = "post" /\ SameAround
      /\ gateReq.phase \notin Outcomes /\ gateReq \in Request /\ Justified(gateReq)
  BY DEF PostsView, Outcomes, Asked, GateInv
<1>2. PICK p \in {"consume", "unposted"} : gateReq' = [gateReq EXCEPT !.phase = p]
  BY DEF PostsView, GoesTo
<1>3. p \in Phases
  BY DEF Phases, Outcomes
<1>4. /\ gateReq' \in Request /\ gateReq'.phase = p /\ gateReq'.op = gateReq.op
      /\ gateReq'.shapes = gateReq.shapes /\ gateReq'.blocks = gateReq.blocks
  BY <1>1, <1>2, <1>3, Advance
<1>5. Justified(gateReq)'
  BY <1>1, <1>4 DEF Justified, SameAround
<1> QED BY <1>1, <1>4, <1>5, StaysWitness

LEMMA ConsumesViewStep ==
  ASSUME GateInv, NEW answer \in Answers(kindAsked), ConsumesView(answer)
  PROVE  Asked'
<1>1. /\ gateReq # NoGateRequest /\ gateReq.phase = "consume" /\ SameAround
      /\ gateReq.phase \notin Outcomes /\ gateReq \in Request /\ Justified(gateReq)
      /\ shape[kindAsked] \in gateReq.shapes
  BY DEF ConsumesView, Outcomes, Asked, GateInv, Witness
<1>2. Needs(kindAsked, gateReq.op) = "view"
  BY <1>1 DEF Justified
<1>3. CASE kindAsked \in {"user", "comment"}
  <2>1. gateReq' = [gateReq EXCEPT !.phase = "dropped"]
    BY <1>3 DEF ConsumesView, GoesTo
  <2>2. kindAsked' \notin Remote
    BY <1>1, <1>3 DEF SameAround, Remote, Rpa, Crawled
  <2> QED BY <1>1, <2>1, <2>2, Advance, StaysWitness DEF Justified, Phases, Outcomes
<1>4. CASE kindAsked \in Crawled /\ answer = "no"
  <2>1. gateReq' = [gateReq EXCEPT !.phase = "dropped"]
    BY <1>4 DEF ConsumesView, GoesTo, Crawled
  <2>2. shape[kindAsked] = "deleted"
    BY <1>4 DEF Answers, GateInv, Around, Shapes, Crawled
  <2> QED BY <1>1, <2>1, <2>2, Advance, StaysWitness DEF Justified, Phases, Outcomes
<1>5. CASE kindAsked \notin {"user", "comment"} /\ ~(kindAsked \in Crawled /\ answer = "no")
  <2>1. gateReq' = [gateReq EXCEPT !.phase = "act", !.down = @ \/ answer = "down"]
    BY <1>5 DEF ConsumesView
  <2>2. /\ gateReq' \in Request /\ gateReq'.phase = "act" /\ gateReq'.op = gateReq.op
        /\ gateReq'.shapes = gateReq.shapes /\ gateReq'.blocks = gateReq.blocks
    BY <1>1, <2>1 DEF Request, Phases
  <2> QED BY <1>1, <1>2, <2>2, StaysWitness DEF Justified, SameAround
<1> QED BY <1>3, <1>4, <1>5

LEMMA RequestsStep ==
  ASSUME GateInv, NEW op \in Deeds, Requests(op)
  PROVE  Asked'
<1> DEFINE need == Needs(kindAsked, op)
<1>1. /\ gateReq' = [op |-> op, phase |-> FirstPhase(need),
                     author |-> FALSE, down |-> FALSE,
                     shapes |-> {shape[kindAsked]}, blocks |-> {blocking # {}}]
      /\ UNCHANGED <<kindAsked, shape, blocking>>
      /\ shape[kindAsked] \in States
  BY DEF Requests, GateInv, Around
<1>2. /\ FirstPhase(need) \in {"act", "post", "unsupported", "exists"}
      /\ FirstPhase(need) = "act" => need = "open"
      /\ FirstPhase(need) = "post" => need = "view"
  BY DEF FirstPhase
<1> HIDE DEF need
<1>3. gateReq' \in Request
  BY <1>1, <1>2 DEF Request, Phases, Outcomes
<1>4. Witness(gateReq)'
  BY <1>1 DEF Witness
<1>5. Justified(gateReq)'
  BY <1>1, <1>2 DEF Justified, need
<1> QED BY <1>3, <1>4, <1>5 DEF Asked

\* What happens around a request widens what it could have seen.
LEMMA WitnessedStep ==
  ASSUME GateInv, NEW state \in States, Witnessed(state, blocking' # {}),
         kindAsked' = kindAsked, shape'[kindAsked] = state
  PROVE  Asked'
<1>1. CASE gateReq = NoGateRequest
  BY <1>1 DEF Witnessed, Asked
<1>2. CASE gateReq # NoGateRequest /\ gateReq.phase \in Outcomes
  BY <1>2 DEF Witnessed, Asked, GateInv, Witness, Justified
<1>3. CASE gateReq # NoGateRequest /\ gateReq.phase \notin Outcomes
  <2> DEFINE block == blocking' # {}
  <2>1. block \in BOOLEAN
    OBVIOUS
  <2>2. gateReq' = [gateReq EXCEPT !.shapes = @ \cup {state}, !.blocks = @ \cup {block}]
    BY <1>3 DEF Witnessed
  <2>3. gateReq \in Request /\ Justified(gateReq)
    BY <1>3 DEF GateInv, Asked
  <2> HIDE DEF block
  <2>4. /\ gateReq' \in Request
        /\ gateReq'.op = gateReq.op /\ gateReq'.phase = gateReq.phase
        /\ gateReq'.author = gateReq.author /\ gateReq'.down = gateReq.down
        /\ gateReq'.shapes = gateReq.shapes \cup {state}
        /\ gateReq'.blocks = gateReq.blocks \cup {block}
    BY <2>1, <2>2, <2>3 DEF Request
  <2>5. Witness(gateReq)'
    BY <2>4 DEF Witness, block
  <2>6. Justified(gateReq)'
    BY <1>3, <2>3, <2>4 DEF Justified, Outcomes
  <2> QED BY <2>4, <2>5, <2>6 DEF Asked
<1> QED BY <1>1, <1>2, <1>3

LEMMA GateInvNext == GateInv /\ [GateNext]_gateVars => GateInv'
<1> SUFFICES ASSUME GateInv, [GateNext]_gateVars PROVE Asked'
  BY AroundStep DEF GateInv
<1>1. ASSUME NEW state \in Shapes(kindAsked), Turns(state) PROVE Asked'
  <2>1. /\ state \in States /\ blocking' = blocking /\ kindAsked' = kindAsked
        /\ shape'[kindAsked] = state
    BY <1>1 DEF Turns, Shapes, States, GateInv, Around
  <2> QED BY <1>1, <2>1, WitnessedStep DEF Turns
<1>2. ASSUME NEW side \in Sides, Blocks(side) PROVE Asked'
  BY <1>2, WitnessedStep DEF Blocks, GateInv, Around
<1>3. CASE Answered
  BY <1>3 DEF Answered, Asked
<1>4. CASE UNCHANGED gateVars
  BY <1>4 DEF gateVars, GateInv, Asked, Witness, Justified
<1> QED
  BY <1>1, <1>2, <1>3, <1>4, RequestsStep, ReadsRowStep, ChecksRelationStep,
     FindsAccusedStep, AsksExistenceStep, AsksAuthorStep, PostsViewStep,
     ConsumesViewStep, PerformsStep
  DEF GateNext

\* No snapshot depends on a service of another kind, or shows what is gone.
LEMMA SnapshotsStayApart == SnapshotsApart
BY DEF SnapshotsApart, Snapshot, Rpa

LEMMA GateInvHolds == GateInv => GateHolds
<1> SUFFICES ASSUME GateInv PROVE GateHolds
  OBVIOUS
<1>1. ActedOnOpen
  BY DEF ActedOnOpen, Got, Need, GateInv, Asked, Justified
<1>2. ActedOnTerms
  BY DEF ActedOnTerms, Got, Need, GateInv, Asked, Justified
<1>3. TurnedAwayForReason
  BY DEF TurnedAwayForReason, Got, GateInv, Asked, Justified
<1>4. ViewKept
  BY DEF ViewKept, Got, GateInv, Asked, Justified
<1> QED BY <1>1, <1>2, <1>3, <1>4, SnapshotsStayApart DEF GateHolds

\* Whatever the gate lets through or turns away, some moment of the request
\* justifies it, for any number of requests (biz_action, to_resource_model,
\* _check_relation, handle_interaction_view).
THEOREM DecidedByWhatWasSo == GateSpec => []GateHolds
<1> QED BY GateInvInit, GateInvNext, GateInvHolds, PTL DEF GateSpec

-----------------------------------------------------------------------------
(* The configuration.                                                      *)

\* A value that a process took from the database at a time or later, or that
\* stands for a row it could not read since then.
Vouched(value, process, since) ==
  \/ inForce[value] >= since
  \/ value = "none" /\ failedAt[process] >= since

Clocks ==
  /\ tick \in Nat
  /\ configRow \in RowValues
  /\ inForce \in [RowValues -> Int]
  /\ failedAt \in [Process -> Int]
  /\ inForce[configRow] = tick
  /\ \A v \in RowValues : inForce[v] <= tick
  /\ \A p \in Process : failedAt[p] <= tick

Copies ==
  /\ configCopy \in [Process -> [at: Int, value: RowValues]]
  /\ \A p \in Process : configCopy[p] = NoCopy \/
                        Vouched(configCopy[p].value, p, configCopy[p].at)

Reads ==
  /\ configRead = [r \in Reader |-> configRead[r]]
  /\ \A r \in Reader :
       /\ configRead[r].step = "reads" =>
            /\ configRead[r].process \in Process
            /\ configRead[r].stamp \in Int /\ configRead[r].stamp <= tick
       /\ configRead[r].step = "keeps" =>
            /\ configRead[r].process \in Process /\ configRead[r].stamp \in Int
            /\ configRead[r].value \in RowValues
            /\ Vouched(configRead[r].value, configRead[r].process, configRead[r].stamp)

Use ==
  used = NotUsed \/
    /\ used.row \in RowValues /\ used.process \in Process /\ used.since \in Int
    /\ used.value = Validated(used.row)
    /\ Vouched(used.row, used.process, used.since)

\* Everything a copy, a read or a request holds was in force when it should
\* have been: the inductive invariant.
ConfigInv == Clocks /\ Copies /\ Reads /\ Use

LEMMA ConfigInvInit == ConfigInit => ConfigInv
<1> SUFFICES ASSUME ConfigInit PROVE ConfigInv
  OBVIOUS
<1>1. Ttl \in Nat /\ LongAgo \in Int /\ LongAgo <= 0
  BY ConfigAssumption DEF LongAgo
<1>2. Clocks
  BY <1>1 DEF ConfigInit, Clocks, RowValues, ValidValues
<1>3. NoCopy \in [at: Int, value: RowValues]
  BY <1>1 DEF NoCopy, RowValues
<1>4. Copies
  BY <1>3 DEF ConfigInit, Copies
<1>5. Reads
  BY DEF ConfigInit, Reads, NoRead
<1>6. Use
  BY DEF ConfigInit, Use
<1> QED BY <1>2, <1>4, <1>5, <1>6 DEF ConfigInv

LEMMA ClocksNext ==
  ASSUME ConfigInv, [ConfigNext]_configVars
  PROVE  /\ Clocks' /\ tick' >= tick
         /\ \A v \in RowValues : inForce'[v] >= inForce[v]
         /\ \A p \in Process : failedAt'[p] >= failedAt[p]
<1> DEFINE Goal == /\ Clocks' /\ tick' >= tick
                   /\ \A v \in RowValues : inForce'[v] >= inForce[v]
                   /\ \A p \in Process : failedAt'[p] >= failedAt[p]
<1> USE DEF ConfigInv, Clocks
<1>1. ASSUME UNCHANGED <<tick, configRow, inForce, failedAt>> PROVE Goal
  BY <1>1
<1>2. ASSUME NEW p \in Process, NEW value \in ValidValues, UpdatesConfig(p, value)
      PROVE  Goal
  BY <1>2 DEF UpdatesConfig, RowValues
<1>3. ASSUME NEW r \in Reader, NEW fails \in BOOLEAN, ReadsRowOfConfig(r, fails)
      PROVE  Goal
  <2>1. configRead[r].process \in Process
    BY <1>3 DEF ReadsRowOfConfig, Reads
  <2>2. UNCHANGED <<tick, configRow, inForce>>
    BY <1>3 DEF ReadsRowOfConfig
  <2>3. \/ UNCHANGED failedAt
        \/ failedAt' = [failedAt EXCEPT ![configRead[r].process] = tick]
    BY <1>3 DEF ReadsRowOfConfig
  <2> QED BY <2>1, <2>2, <2>3
<1>4. CASE Ticks
  BY <1>4 DEF Ticks
<1>5. ASSUME NEW p \in Process,
             Invalidates(p) \/ \E r \in Reader : LooksUp(r, p) \/ Keeps(r)
      PROVE  Goal
  BY <1>1, <1>5 DEF Invalidates, LooksUp, Keeps
<1>6. CASE UNCHANGED configVars
  BY <1>1, <1>6 DEF configVars
<1>7. CASE \E r \in Reader : Keeps(r)
  BY <1>1, <1>7 DEF Keeps
<1> QED BY <1>2, <1>3, <1>4, <1>5, <1>6, <1>7 DEF ConfigNext

\* The same after the step; and what is vouched for now still is then.
VouchedAfter(value, process, since) ==
  \/ inForce'[value] >= since
  \/ value = "none" /\ failedAt'[process] >= since

LEMMA VouchedNext ==
  ASSUME ConfigInv, [ConfigNext]_configVars,
         NEW value \in RowValues, NEW process \in Process, NEW since \in Int,
         Vouched(value, process, since)
  PROVE  VouchedAfter(value, process, since)
BY ClocksNext DEF ConfigInv, Clocks, Vouched, VouchedAfter

LEMMA KeepsCopies ==
  ASSUME ConfigInv, [ConfigNext]_configVars, NEW r \in Reader, Keeps(r)
  PROVE  Copies' /\ Reads' /\ Use'
<1> DEFINE p == configRead[r].process
           v == configRead[r].value
           t == configRead[r].stamp
<1>1. /\ p \in Process /\ v \in RowValues /\ t \in Int /\ Vouched(v, p, t)
  BY DEF Keeps, ConfigInv, Reads
<1>2. VouchedAfter(v, p, t)
  BY <1>1, VouchedNext
<1>3. /\ configCopy' = [configCopy EXCEPT ![p] = [at |-> t, value |-> v]]
      /\ used' = [value |-> Validated(v), row |-> v, process |-> p, since |-> t]
      /\ configRead' = [configRead EXCEPT ![r] = NoRead]
  BY DEF Keeps, Uses
<1>4. ASSUME NEW q \in Process, configCopy[q] # NoCopy
      PROVE  VouchedAfter(configCopy[q].value, q, configCopy[q].at)
  BY <1>4, VouchedNext DEF ConfigInv, Copies
<1>5. ASSUME NEW s \in Reader, configRead[s].step = "keeps"
      PROVE  VouchedAfter(configRead[s].value, configRead[s].process, configRead[s].stamp)
  BY <1>5, VouchedNext DEF ConfigInv, Reads
<1> HIDE DEF p, v, t
<1>6. Copies'
  <2>1. configCopy' \in [Process -> [at: Int, value: RowValues]]
    BY <1>1, <1>3 DEF ConfigInv, Copies
  <2>2. ASSUME NEW q \in Process, configCopy'[q] # NoCopy
        PROVE  VouchedAfter(configCopy'[q].value, q, configCopy'[q].at)
    BY <1>2, <1>3, <1>4, <2>2 DEF ConfigInv, Copies
  <2> QED BY <2>1, <2>2 DEF Copies, Vouched, VouchedAfter
<1>7. Reads'
  <2>1. /\ configRead' = [s \in Reader |-> configRead'[s]]
        /\ configRead'[r].step = "idle"
        /\ \A s \in Reader \ {r} : configRead'[s] = configRead[s]
    BY <1>3 DEF ConfigInv, Reads, NoRead
  <2>2. tick' = tick
    BY DEF Keeps
  <2> QED BY <1>5, <2>1, <2>2 DEF ConfigInv, Reads, Vouched, VouchedAfter
<1>8. Use'
  BY <1>1, <1>2, <1>3 DEF Use, Vouched, VouchedAfter
<1> QED BY <1>6, <1>7, <1>8

\* The copies, where no read is kept.
LEMMA CopiesStay ==
  ASSUME ConfigInv, [ConfigNext]_configVars,
         UNCHANGED configCopy \/ \E p \in Process : Invalidates(p)
  PROVE  Copies'
<1>1. ASSUME NEW q \in Process, configCopy[q] # NoCopy
      PROVE  VouchedAfter(configCopy[q].value, q, configCopy[q].at)
  BY <1>1, VouchedNext DEF ConfigInv, Copies
<1>2. \A q \in Process : configCopy'[q] \in {NoCopy, configCopy[q]}
  BY DEF ConfigInv, Copies, Invalidates
<1>3. NoCopy \in [at: Int, value: RowValues]
  BY ConfigAssumption DEF NoCopy, RowValues, LongAgo
<1>4. configCopy' \in [Process -> [at: Int, value: RowValues]]
  BY <1>3 DEF ConfigInv, Copies, Invalidates
<1> QED BY <1>1, <1>2, <1>4 DEF Copies, Vouched, VouchedAfter

\* A request that finds a copy uses it, and else begins to read.
LEMMA LooksUpReads ==
  ASSUME ConfigInv, [ConfigNext]_configVars, NEW r \in Reader, NEW p \in Process, LooksUp(r, p)
  PROVE  Reads' /\ Use'
<1>1. UNCHANGED <<tick, configCopy, inForce, failedAt>> /\ tick \in Nat
  BY DEF LooksUp, ConfigInv, Clocks
<1>2. CASE Fresh(configCopy[p])
  <2> DEFINE c == configCopy[p]
             since == tick - Ttl + 1
  <2>1. /\ used' = [value |-> Validated(c.value), row |-> c.value, process |-> p,
                    since |-> since]
        /\ UNCHANGED configRead
    BY <1>2 DEF LooksUp, Uses
  <2>2. /\ c.value \in RowValues /\ c.at \in Int /\ since \in Int /\ Ttl \in Nat
    BY <1>1, ConfigAssumption DEF ConfigInv, Copies
  <2>3. tick - c.at < Ttl
    BY <1>2 DEF Fresh
  <2>4. c # NoCopy
    <3>1. NoCopy.at = 0 - Ttl - 1
      BY DEF NoCopy, LongAgo
    <3> QED BY <1>1, <2>2, <2>3, <3>1
  <2>5. Vouched(c.value, p, c.at) /\ c.at >= since
    BY <1>1, <2>2, <2>3, <2>4 DEF ConfigInv, Copies
  <2>6. Vouched(c.value, p, since)
    BY <2>2, <2>5 DEF Vouched, ConfigInv, Clocks
  <2> HIDE DEF c, since
  <2>7. Use'
    BY <1>1, <2>1, <2>2, <2>6 DEF Use, Vouched
  <2> QED BY <1>1, <2>1, <2>7 DEF ConfigInv, Reads, Vouched
<1>3. CASE ~Fresh(configCopy[p])
  <2>1. /\ configRead' = [configRead EXCEPT ![r] =
                            [step |-> "reads", process |-> p, stamp |-> tick]]
        /\ UNCHANGED used
    BY <1>3 DEF LooksUp
  <2>2. /\ configRead' = [s \in Reader |-> configRead'[s]]
        /\ configRead'[r] = [step |-> "reads", process |-> p, stamp |-> tick]
        /\ \A s \in Reader \ {r} : configRead'[s] = configRead[s]
    BY <2>1 DEF ConfigInv, Reads
  <2>3. Reads'
    BY <1>1, <2>2 DEF ConfigInv, Reads, Vouched
  <2> QED BY <1>1, <2>1, <2>3 DEF ConfigInv, Use, Vouched
<1> QED BY <1>2, <1>3

\* What is read is in force at that moment.
LEMMA ReadsRowReads ==
  ASSUME ConfigInv, [ConfigNext]_configVars, NEW r \in Reader, NEW fails \in BOOLEAN,
         ReadsRowOfConfig(r, fails)
  PROVE  Reads'
<1> DEFINE p == configRead[r].process
           t == configRead[r].stamp
           v == IF fails THEN "none" ELSE configRow
<1>1. p \in Process /\ t \in Int /\ t <= tick
  BY DEF ReadsRowOfConfig, ConfigInv, Reads
<1>2. /\ configRead' = [configRead EXCEPT ![r] =
                          [step |-> "keeps", process |-> p, stamp |-> t, value |-> v]]
      /\ UNCHANGED <<tick, inForce>>
      /\ failedAt' = IF fails THEN [failedAt EXCEPT ![p] = tick] ELSE failedAt
  BY DEF ReadsRowOfConfig
<1>3. v \in RowValues
  BY DEF ConfigInv, Clocks, RowValues
<1>4. VouchedAfter(v, p, t)
  <2>1. CASE fails
    BY <1>1, <1>2, <2>1 DEF VouchedAfter, ConfigInv, Clocks
  <2>2. CASE ~fails
    BY <1>1, <1>2, <2>2 DEF VouchedAfter, ConfigInv, Clocks
  <2> QED BY <2>1, <2>2
<1>5. ASSUME NEW s \in Reader, configRead[s].step = "keeps"
      PROVE  VouchedAfter(configRead[s].value, configRead[s].process, configRead[s].stamp)
  BY <1>5, VouchedNext DEF ConfigInv, Reads
<1> HIDE DEF p, t, v
<1>6. /\ configRead' = [s \in Reader |-> configRead'[s]]
      /\ configRead'[r] = [step |-> "keeps", process |-> p, stamp |-> t, value |-> v]
      /\ \A s \in Reader \ {r} : configRead'[s] = configRead[s]
  BY <1>2 DEF ConfigInv, Reads
<1> QED BY <1>1, <1>2, <1>3, <1>4, <1>5, <1>6 DEF ConfigInv, Reads, Vouched, VouchedAfter

\* Steps that start or end no read.
LEMMA ReadsStay ==
  ASSUME ConfigInv, [ConfigNext]_configVars, UNCHANGED configRead
  PROVE  Reads'
<1>1. ASSUME NEW s \in Reader, configRead[s].step = "keeps"
      PROVE  VouchedAfter(configRead[s].value, configRead[s].process, configRead[s].stamp)
  BY <1>1, VouchedNext DEF ConfigInv, Reads
<1>2. tick' >= tick /\ tick' \in Nat /\ tick \in Nat
  BY ClocksNext DEF ConfigInv, Clocks
<1> QED BY <1>1, <1>2 DEF ConfigInv, Reads, Vouched, VouchedAfter

\* A use is of the moment: as time passes it is forgotten.
LEMMA UseStays ==
  ASSUME ConfigInv, [ConfigNext]_configVars, UNCHANGED used \/ used' = NotUsed
  PROVE  Use'
<1>1. ASSUME used # NotUsed
      PROVE  VouchedAfter(used.row, used.process, used.since)
  BY <1>1, VouchedNext DEF ConfigInv, Use
<1> QED BY <1>1 DEF ConfigInv, Use, Vouched, VouchedAfter

LEMMA ConfigInvNext == ConfigInv /\ [ConfigNext]_configVars => ConfigInv'
<1> SUFFICES ASSUME ConfigInv, [ConfigNext]_configVars PROVE ConfigInv'
  OBVIOUS
<1>1. Clocks'
  BY ClocksNext
<1>2. ASSUME NEW p \in Process, NEW value \in ValidValues, UpdatesConfig(p, value)
      PROVE  Copies' /\ Reads' /\ Use'
  BY <1>2, CopiesStay, ReadsStay, UseStays DEF UpdatesConfig
<1>3. ASSUME NEW p \in Process, Invalidates(p) PROVE Copies' /\ Reads' /\ Use'
  BY <1>3, CopiesStay, ReadsStay, UseStays DEF Invalidates
<1>4. ASSUME NEW p \in Process, NEW r \in Reader, LooksUp(r, p)
      PROVE  Copies' /\ Reads' /\ Use'
  BY <1>4, CopiesStay, LooksUpReads DEF LooksUp
<1>5. ASSUME NEW r \in Reader, NEW fails \in BOOLEAN, ReadsRowOfConfig(r, fails)
      PROVE  Copies' /\ Reads' /\ Use'
  BY <1>5, CopiesStay, ReadsRowReads, UseStays DEF ReadsRowOfConfig
<1>6. CASE Ticks
  BY <1>1, <1>6, CopiesStay, ReadsStay, UseStays DEF Ticks, ConfigInv
<1>7. CASE UNCHANGED configVars
  BY <1>1, <1>7, CopiesStay, ReadsStay, UseStays DEF configVars, ConfigInv
<1> QED
  BY <1>1, <1>2, <1>3, <1>4, <1>5, <1>6, <1>7, KeepsCopies DEF ConfigNext, ConfigInv

\* What a request uses, in whatever process and from however old a read, was
\* in force within the lifetime of a copy; and if nothing changed since, it is
\* what the administrator is shown.
THEOREM ChangesArrive == ConfigSpec => []ConfigHolds
<1>1. ConfigInv => UsedWasInForce
  BY DEF ConfigInv, Use, UsedWasInForce, Vouched
<1>2. ASSUME ConfigInv PROVE UsesWhatIsListed
  <2> SUFFICES ASSUME used # NotUsed,
                      \A v \in RowValues \ {configRow} : inForce[v] < used.since,
                      \A p \in Process : failedAt[p] < used.since
               PROVE  used.value = Listed \/ Listed \notin ValidValues
    BY DEF UsesWhatIsListed
  <2>1. /\ used.row \in RowValues /\ used.process \in Process /\ used.since \in Int
        /\ used.value = Validated(used.row)
        /\ Vouched(used.row, used.process, used.since)
    BY <1>2 DEF ConfigInv, Use
  <2>2. used.row = configRow
    BY <1>2, <2>1 DEF Vouched, ConfigInv, Clocks
  <2> QED BY <1>2, <2>1, <2>2 DEF Listed, Validated, ValidValues
<1>3. ConfigInv => ConfigHolds
  BY <1>1, <1>2 DEF ConfigHolds
<1> QED BY <1>3, ConfigInvInit, ConfigInvNext, PTL DEF ConfigSpec

-----------------------------------------------------------------------------
(* The limits on what a user writes.                                       *)

Post == [at: Nat, kind: Kinds, text: Text, deleted: BOOLEAN]
Rules == {DefaultRules, OtherRules}
Counting == [phase: {"counting"}, kind: CommentKinds, text: Text, rules: Rules,
             raced: BOOLEAN]
Storing ==
  [phase: {"storing"}, kind: CommentKinds, text: Text, rules: Rules, raced: BOOLEAN]
    \cup [phase: {"storing"}, kind: {"moment", "topic"}, text: Text, raced: BOOLEAN]

LimitsTypes ==
  /\ instant \in Nat
  /\ posts \in Seq(Post)
  /\ \A i \in DOMAIN posts : posts[i].at <= instant
  /\ asking \in [Author -> {NotAsking} \cup Counting \cup Storing]

\* The rows that count against a limit of today, and against a rule.
TodayOn(table) ==
  {i \in DOMAIN posts : Table(posts[i].kind) = table /\ DayOf(posts[i].at) = DayOf(instant)}

LimitCounted(rule, kind, text) == {i \in RecentPosts(kind) : rule.same => posts[i].text = text}

\* The requests under way that will store in the table.
BusyOn(table) == {a \in Author : asking[a] # NotAsking /\ Table(asking[a].kind) = table}

Tables == {"comment", "moment", "topic"}

\* A request that nothing was stored beside still keeps what it was checked for.
Unraced ==
  /\ excess = FALSE
  /\ \A r \in Counting : (\E a \in Author : asking[a] = r) /\ ~r.raced /\ DailyLimit > 0
                           => Cardinality(TodayOn(Table(r.kind))) < DailyLimit
  /\ \A r \in Storing : (\E a \in Author : asking[a] = r) /\ ~r.raced => ~Exceeds(r)

\* The rows of today and the requests that may add to them.
LimitRoom ==
  DailyLimit > 0 =>
    \A table \in Tables :
      Cardinality(TodayOn(table)) + Cardinality(BusyOn(table))
        < DailyLimit + Cardinality(Author)

\* The inductive invariant.
LimitsInv == LimitsTypes /\ Unraced /\ LimitRoom /\ ExcessBounded

-----------------------------------------------------------------------------
(* The sets that are counted.                                              *)

LEMMA CountedFinite ==
  ASSUME LimitsTypes
  PROVE  /\ \A table : IsFiniteSet(TodayOn(table)) /\ IsFiniteSet(BusyOn(table))
                       /\ Cardinality(TodayOn(table)) \in Nat
                       /\ Cardinality(BusyOn(table)) \in Nat
         /\ \A rule, kind, text : IsFiniteSet(LimitCounted(rule, kind, text))
                                  /\ Cardinality(LimitCounted(rule, kind, text)) \in Nat
<1>1. IsFiniteSet(DOMAIN posts) /\ IsFiniteSet(Author)
  BY FS_Interval, LimitAssumption DEF LimitsTypes
<1>2. \A table : TodayOn(table) \subseteq DOMAIN posts /\ BusyOn(table) \subseteq Author
  BY DEF TodayOn, BusyOn
<1>3. \A rule, kind, text : LimitCounted(rule, kind, text) \subseteq DOMAIN posts
  BY DEF LimitCounted, RecentPosts
<1> QED BY <1>1, <1>2, <1>3, FS_Subset, FS_CardinalityType

LEMMA CountedFiniteNext ==
  ASSUME LimitsTypes'
  PROVE  \A table : /\ Cardinality(TodayOn(table)') \in Nat
                    /\ Cardinality(BusyOn(table)') \in Nat
<1>1. IsFiniteSet(DOMAIN posts') /\ IsFiniteSet(Author)
  BY FS_Interval, LimitAssumption DEF LimitsTypes
<1>2. \A table : TodayOn(table)' \subseteq DOMAIN posts' /\ BusyOn(table)' \subseteq Author
  BY DEF TodayOn, BusyOn
<1> QED BY <1>1, <1>2, FS_Subset, FS_CardinalityType

\* A later moment is of no earlier day.
LEMMA DaysGoOn ==
  ASSUME NEW x \in Nat, NEW y \in Nat, x <= y
  PROVE  DayOf(x) \in Nat /\ DayOf(x) <= DayOf(y)
<1>1. DayLength \in Nat /\ DayLength > 0
  BY LimitAssumption
<1> QED BY <1>1, SMTT(20) DEF DayOf

LEMMA TableOf == \A kind \in Kinds : Table(kind) \in Tables
BY DEF Kinds, CommentKinds, Table, Tables

\* As time passes, and when something is deleted, fewer rows count.
LEMMA FewerCount ==
  ASSUME LimitsTypes, TimePasses \/ \E i \in DOMAIN posts : DeletesPost(i)
  PROVE  /\ \A table : TodayOn(table)' \subseteq TodayOn(table)
         /\ \A rule, kind, text :
              LimitCounted(rule, kind, text)' \subseteq LimitCounted(rule, kind, text)
<1>1. CASE TimePasses
  <2>1. posts' = posts /\ instant' = instant + 1 /\ instant \in Nat
    BY <1>1 DEF TimePasses, LimitsTypes
  <2>2. \A i \in DOMAIN posts : posts[i].at \in Nat /\ posts[i].at <= instant
    <3>1. \A i \in DOMAIN posts : posts[i] \in Post
      BY DEF LimitsTypes
    <3> QED BY <3>1 DEF LimitsTypes, Post
  <2>3. ASSUME NEW table, NEW i \in TodayOn(table)' PROVE i \in TodayOn(table)
    <3>1. /\ i \in DOMAIN posts /\ Table(posts[i].kind) = table
          /\ DayOf(posts[i].at) = DayOf(instant + 1)
      BY <2>1, <2>3 DEF TodayOn, DayOf
    <3>2. /\ DayOf(posts[i].at) <= DayOf(instant) /\ DayOf(instant) <= DayOf(instant + 1)
          /\ DayOf(posts[i].at) \in Nat /\ DayOf(instant) \in Nat
      BY <2>1, <2>2, <3>1, DaysGoOn
    <3> QED BY <3>1, <3>2 DEF TodayOn
  <2>4. \A rule, kind, text :
          LimitCounted(rule, kind, text)' \subseteq LimitCounted(rule, kind, text)
    BY <2>1, <2>2, LimitAssumption DEF LimitCounted, RecentPosts
  <2> QED BY <2>3, <2>4
<1>2. ASSUME NEW i \in DOMAIN posts, DeletesPost(i)
      PROVE  /\ \A table : TodayOn(table)' \subseteq TodayOn(table)
             /\ \A rule, kind, text :
                  LimitCounted(rule, kind, text)' \subseteq LimitCounted(rule, kind, text)
  <2>1. /\ DOMAIN posts' = DOMAIN posts /\ instant' = instant
        /\ \A j \in DOMAIN posts : /\ posts'[j].at = posts[j].at
                                   /\ posts'[j].kind = posts[j].kind
                                   /\ posts'[j].text = posts[j].text
    BY <1>2 DEF DeletesPost, LimitsTypes, Post
  <2> QED BY <2>1 DEF TodayOn, LimitCounted, RecentPosts, DayOf
<1> QED BY <1>1, <1>2

\* Then what did not exceed a limit still does not.
LEMMA StaysWithin ==
  ASSUME LimitsTypes, TimePasses \/ \E i \in DOMAIN posts : DeletesPost(i),
         NEW r \in Storing, Exceeds(r)'
  PROVE  Exceeds(r)
<1>1. \A rule, kind, text : Reaches(rule, kind, text)' /\ rule.most \in Int
                              => Reaches(rule, kind, text)
  <2> SUFFICES ASSUME NEW rule, NEW kind, NEW text, Reaches(rule, kind, text)',
                      rule.most \in Int
               PROVE  Reaches(rule, kind, text)
    OBVIOUS
  <2>1. LimitCounted(rule, kind, text)' \subseteq LimitCounted(rule, kind, text)
    BY FewerCount
  <2>2. /\ IsFiniteSet(LimitCounted(rule, kind, text))
        /\ Cardinality(LimitCounted(rule, kind, text)) \in Nat
    BY CountedFinite
  <2>3. /\ Cardinality(LimitCounted(rule, kind, text)') \in Nat
        /\ Cardinality(LimitCounted(rule, kind, text)') <= Cardinality(LimitCounted(rule, kind, text))
    BY <2>1, <2>2, FS_Subset, FS_CardinalityType
  <2>4. Cardinality(LimitCounted(rule, kind, text)') >= rule.most
    BY DEF Reaches, LimitCounted
  <2>5. Cardinality(LimitCounted(rule, kind, text)) >= rule.most
    BY <2>2, <2>3, <2>4
  <2> QED BY <2>5 DEF Reaches, LimitCounted
<1>2. \A table : Cardinality(TodayOn(table)') >= DailyLimit
                   => Cardinality(TodayOn(table)) >= DailyLimit
  <2> SUFFICES ASSUME NEW table, Cardinality(TodayOn(table)') >= DailyLimit
               PROVE  Cardinality(TodayOn(table)) >= DailyLimit
    OBVIOUS
  <2>1. TodayOn(table)' \subseteq TodayOn(table)
    BY FewerCount
  <2>2. IsFiniteSet(TodayOn(table)) /\ Cardinality(TodayOn(table)) \in Nat
    BY CountedFinite
  <2>3. /\ Cardinality(TodayOn(table)') \in Nat
        /\ Cardinality(TodayOn(table)') <= Cardinality(TodayOn(table))
    BY <2>1, <2>2, FS_Subset, FS_CardinalityType
  <2> QED BY <2>2, <2>3, LimitAssumption
<1>3. \A rules \in Rules : \A kind \in CommentKinds : \A rule \in rules[kind] :
        rule.most \in Int
  BY DEF Rules, CommentKinds, DefaultRules, OtherRules, Rule
<1>4. r.kind \in CommentKinds => r.rules \in Rules
  BY DEF Storing, CommentKinds
<1>5. \/ /\ r.kind \in CommentKinds
         /\ \E rule \in r.rules[r.kind] : Reaches(rule, r.kind, r.text)'
      \/ DailyLimit > 0 /\ Cardinality(TodayOn(Table(r.kind))') >= DailyLimit
  BY DEF Exceeds, TodayOn
<1>6. CASE /\ r.kind \in CommentKinds
           /\ \E rule \in r.rules[r.kind] : Reaches(rule, r.kind, r.text)'
  <2>1. \E rule \in r.rules[r.kind] : Reaches(rule, r.kind, r.text)
    BY <1>1, <1>3, <1>4, <1>6
  <2> QED BY <1>6, <2>1 DEF Exceeds
<1>7. CASE DailyLimit > 0 /\ Cardinality(TodayOn(Table(r.kind))') >= DailyLimit
  <2>1. Cardinality(TodayOn(Table(r.kind))) >= DailyLimit
    BY <1>2, <1>7
  <2> QED BY <1>7, <2>1 DEF Exceeds, TodayOn
<1> QED BY <1>5, <1>6, <1>7

-----------------------------------------------------------------------------
(* The types.                                                              *)

LEMMA Distinct ==
  /\ \A r \in Counting : r # NotAsking /\ r.phase = "counting" /\ r.kind \in Kinds
  /\ \A r \in Storing : r # NotAsking /\ r.phase = "storing" /\ r.kind \in Kinds
  /\ NotAsking.phase = "idle"
<1>1. \A r \in Counting : r.phase = "counting" /\ r.kind \in Kinds
  BY DEF Counting, Kinds
<1>2. \A r \in Storing : r.phase = "storing" /\ r.kind \in Kinds
  BY DEF Storing, Kinds
<1> QED BY <1>1, <1>2 DEF NotAsking

\* What a step stores, and whose request it was.
LEMMA StoreEffect ==
  ASSUME LimitsTypes, NEW a \in Author, StoresPost(a)
  PROVE  /\ asking[a] \in Storing
         /\ Len(posts') = Len(posts) + 1 /\ posts' \in Seq(Post)
         /\ \A i \in DOMAIN posts : posts'[i] = posts[i]
         /\ posts'[Len(posts) + 1].at = instant
         /\ posts'[Len(posts) + 1].kind = asking[a].kind
<1> DEFINE new == [at |-> instant, kind |-> asking[a].kind,
                   text |-> asking[a].text, deleted |-> FALSE]
<1>1. asking[a] \in Storing
  BY Distinct DEF StoresPost, LimitsTypes
<1>2. asking[a].text \in Text
  BY <1>1 DEF Storing
<1>3. new \in Post /\ new.at = instant /\ new.kind = asking[a].kind
  BY <1>1, <1>2, Distinct DEF LimitsTypes, Post
<1>4. posts' = Append(posts, new) /\ posts \in Seq(Post)
  BY DEF StoresPost, LimitsTypes
<1> HIDE DEF new
<1> QED BY <1>1, <1>3, <1>4

LEMMA RacedTyped ==
  \A r \in Counting \cup Storing : [r EXCEPT !.raced = TRUE] \in Counting \cup Storing
<1>1. \A r \in Counting : [r EXCEPT !.raced = TRUE] \in Counting
  BY DEF Counting
<1>2. ASSUME NEW r \in Storing PROVE [r EXCEPT !.raced = TRUE] \in Storing
  <2>1. CASE r \in [phase: {"storing"}, kind: CommentKinds, text: Text, rules: Rules,
                    raced: BOOLEAN]
    BY <2>1 DEF Storing
  <2>2. CASE r \in [phase: {"storing"}, kind: {"moment", "topic"}, text: Text,
                    raced: BOOLEAN]
    BY <2>2 DEF Storing
  <2> QED BY <2>1, <2>2 DEF Storing
<1> QED BY <1>1, <1>2

LEMMA RacedFields ==
  \A r \in Counting \cup Storing :
    /\ [r EXCEPT !.raced = TRUE].raced = TRUE
    /\ [r EXCEPT !.raced = TRUE].kind = r.kind
    /\ [r EXCEPT !.raced = TRUE].phase = r.phase
<1>1. \A r \in Counting :
        /\ [r EXCEPT !.raced = TRUE].raced = TRUE
        /\ [r EXCEPT !.raced = TRUE].kind = r.kind
        /\ [r EXCEPT !.raced = TRUE].phase = r.phase
  BY DEF Counting
<1>2. \A r \in Storing :
        /\ [r EXCEPT !.raced = TRUE].raced = TRUE
        /\ [r EXCEPT !.raced = TRUE].kind = r.kind
        /\ [r EXCEPT !.raced = TRUE].phase = r.phase
  BY DEF Storing
<1> QED BY <1>1, <1>2

\* A comment that passes the rules moves on to be stored.
LEMMA PassedTyped ==
  \A r \in Counting :
    /\ [r EXCEPT !.phase = "storing"] \in Storing
    /\ [r EXCEPT !.phase = "storing"].kind = r.kind
    /\ [r EXCEPT !.phase = "storing"].text = r.text
    /\ [r EXCEPT !.phase = "storing"].rules = r.rules
    /\ [r EXCEPT !.phase = "storing"].raced = r.raced
BY DEF Counting, Storing

LEMMA LimitsTypesNext ==
  ASSUME LimitsTypes, [LimitsNext]_limitVars
  PROVE  LimitsTypes'
<1> USE DEF LimitsTypes
<1>1. ASSUME NEW a \in Author, NEW kind \in CommentKinds, NEW text \in Text,
             NEW rules \in Rules, AsksToComment(a, kind, text, rules)
      PROVE  LimitsTypes'
  <2>1. [phase |-> "counting", kind |-> kind, text |-> text, rules |-> rules,
         raced |-> FALSE] \in Counting
    BY DEF Counting
  <2> QED BY <1>1, <2>1 DEF AsksToComment, Asks, Moves
<1>2. ASSUME NEW a \in Author, NEW text \in Text, AsksToPublish(a, text)
      PROVE  LimitsTypes'
  <2>1. [phase |-> "storing", kind |-> "moment", text |-> text, raced |-> FALSE]
          \in Storing
    BY DEF Storing
  <2> QED BY <1>2, <2>1 DEF AsksToPublish, Asks, Moves
<1>3. ASSUME NEW a \in Author, NEW text \in Text, AsksForTopic(a, text)
      PROVE  LimitsTypes'
  <2>1. [phase |-> "storing", kind |-> "topic", text |-> text, raced |-> FALSE]
          \in Storing
    BY DEF Storing
  <2> QED BY <1>3, <2>1 DEF AsksForTopic, Asks, Moves
<1>4. ASSUME NEW a \in Author, ChecksRate(a) PROVE LimitsTypes'
  <2>1. asking[a] \in Counting
    BY <1>4, Distinct DEF ChecksRate
  <2> QED BY <1>4, <2>1, PassedTyped DEF ChecksRate, Moves
<1>5. ASSUME NEW a \in Author, StoresPost(a) PROVE LimitsTypes'
  <2>1. posts' \in Seq(Post) /\ \A i \in DOMAIN posts' : posts'[i].at <= instant
    BY <1>5, StoreEffect
  <2>2. asking' \in [Author -> {NotAsking} \cup Counting \cup Storing]
    BY <1>5, RacedTyped DEF StoresPost
  <2> QED BY <1>5, <2>1, <2>2 DEF StoresPost
<1>6. ASSUME NEW i \in DOMAIN posts, DeletesPost(i) PROVE LimitsTypes'
  <2> DEFINE new == [posts[i] EXCEPT !.deleted = TRUE]
  <2>1. posts[i] \in Post
    OBVIOUS
  <2>2. new \in Post /\ new.at = posts[i].at
    BY <2>1 DEF Post
  <2>3. posts' = [posts EXCEPT ![i] = new]
    BY <1>6 DEF DeletesPost
  <2> HIDE DEF new
  <2>4. posts' \in Seq(Post) /\ \A j \in DOMAIN posts' : posts'[j].at <= instant
    BY <2>2, <2>3
  <2> QED BY <1>6, <2>4 DEF DeletesPost
<1>7. ASSUME TimePasses PROVE LimitsTypes'
  <2>1. \A i \in DOMAIN posts : posts[i].at \in Nat
    <3>1. \A i \in DOMAIN posts : posts[i] \in Post
      OBVIOUS
    <3> QED BY <3>1 DEF Post
  <2> QED BY <1>7, <2>1 DEF TimePasses
<1>8. CASE UNCHANGED limitVars
  BY <1>8 DEF limitVars
<1> QED
  BY <1>1, <1>2, <1>3, <1>4, <1>5, <1>6, <1>7, <1>8 DEF LimitsNext, Rules

-----------------------------------------------------------------------------
(* What was checked still holds.                                           *)

LEMMA LimitsInvInit == LimitsInit => LimitsInv
<1> SUFFICES ASSUME LimitsInit PROVE LimitsInv
  OBVIOUS
<1>1. LimitsTypes
  BY DEF LimitsInit, LimitsTypes
<1>2. Unraced
  BY Distinct DEF LimitsInit, Unraced
<1>3. ASSUME NEW table PROVE TodayOn(table) = {} /\ BusyOn(table) = {}
  BY DEF LimitsInit, TodayOn, BusyOn
<1>4. Cardinality(Author) \in Nat
  BY LimitAssumption, FS_CardinalityType
<1>5. LimitRoom
  BY <1>3, <1>4, FS_EmptySet, LimitAssumption DEF LimitRoom
<1>6. ExcessBounded
  BY DEF LimitsInit, ExcessBounded
<1> QED BY <1>1, <1>2, <1>5, <1>6 DEF LimitsInv

\* A new request found the limit of the day kept.
LEMMA AskedWithin ==
  ASSUME NEW a \in Author, NEW kind \in Kinds, Asks(a, kind), DailyLimit > 0
  PROVE  Cardinality(TodayOn(Table(kind))) < DailyLimit
BY DEF Asks, CountCreatedToday, TodayOn

LEMMA AsksUnraced ==
  ASSUME LimitsInv, NEW a \in Author, NEW kind \in Kinds, Asks(a, kind),
         NEW new \in Counting \cup Storing, new.kind = kind, Moves(a, new),
         new \in Storing => kind \notin CommentKinds
  PROVE  Unraced'
<1> USE DEF LimitsInv, LimitsTypes
<1>1. /\ UNCHANGED <<instant, posts, excess>> /\ asking' = [asking EXCEPT ![a] = new]
      /\ \A r : (\E b \in Author : asking'[b] = r) =>
                   r = new \/ \E b \in Author : asking[b] = r
  BY DEF Asks, Moves
<1>2. excess' = FALSE
  BY <1>1 DEF Unraced
<1>3. \A table : TodayOn(table)' = TodayOn(table)
  BY <1>1 DEF TodayOn, DayOf
<1>4. \A r : Exceeds(r)' = Exceeds(r)
  BY <1>1 DEF Exceeds, Reaches, RecentPosts, DayOf
<1>5. ASSUME NEW r \in Counting, \E b \in Author : asking'[b] = r, ~r.raced, DailyLimit > 0
      PROVE  Cardinality(TodayOn(Table(r.kind))') < DailyLimit
  BY <1>1, <1>3, <1>5, AskedWithin DEF Unraced
<1>6. ASSUME NEW r \in Storing, \E b \in Author : asking'[b] = r, ~r.raced
      PROVE  ~Exceeds(r)'
  <2>1. CASE r = new
    <3>1. r.kind \notin CommentKinds
      BY <2>1
    <3>2. DailyLimit > 0 => ~(Cardinality(TodayOn(Table(r.kind))) >= DailyLimit)
      <4> SUFFICES ASSUME DailyLimit > 0
                   PROVE  ~(Cardinality(TodayOn(Table(r.kind))) >= DailyLimit)
        OBVIOUS
      <4>1. Cardinality(TodayOn(Table(r.kind))) < DailyLimit
        BY <2>1, AskedWithin
      <4> QED BY <4>1, CountedFinite, LimitAssumption
    <3>3. ~Exceeds(r)
      BY <3>1, <3>2 DEF Exceeds, TodayOn
    <3> QED BY <1>4, <3>3
  <2>2. CASE r # new
    BY <1>1, <1>4, <1>6, <2>2 DEF Unraced
  <2> QED BY <2>1, <2>2
<1> QED BY <1>2, <1>5, <1>6 DEF Unraced

LEMMA ChecksUnraced ==
  ASSUME LimitsInv, NEW a \in Author, ChecksRate(a)
  PROVE  Unraced'
<1> USE DEF LimitsInv, LimitsTypes
<1> DEFINE old == asking[a]
           new == asking'[a]
<1>1. old \in Counting /\ UNCHANGED <<instant, posts, excess>>
  BY Distinct DEF ChecksRate
<1>2. \/ new = NotAsking
      \/ /\ new = [old EXCEPT !.phase = "storing"]
         /\ ~\E rule \in old.rules[old.kind] : Reaches(rule, old.kind, old.text)
  BY <1>1 DEF ChecksRate, Moves
<1>3. \A b \in Author : b # a => asking'[b] = asking[b]
  BY DEF ChecksRate, Moves
<1>4. \A table : TodayOn(table)' = TodayOn(table)
  BY <1>1 DEF TodayOn, DayOf
<1>5. \A r : Exceeds(r)' = Exceeds(r)
  BY <1>1 DEF Exceeds, Reaches, RecentPosts, DayOf
<1>6. new = NotAsking \/
      /\ new \in Storing /\ new.kind = old.kind /\ new.text = old.text
      /\ new.rules = old.rules /\ new.raced = old.raced
  BY <1>1, <1>2, PassedTyped
<1>7. ASSUME NEW r \in Counting, \E b \in Author : asking'[b] = r, ~r.raced, DailyLimit > 0
      PROVE  Cardinality(TodayOn(Table(r.kind))') < DailyLimit
  <2>1. r # new
    BY <1>6, Distinct
  <2>2. \E b \in Author : asking[b] = r
    BY <1>3, <1>7, <2>1
  <2> QED BY <1>4, <1>7, <2>2 DEF Unraced
<1>8. ASSUME NEW r \in Storing, \E b \in Author : asking'[b] = r, ~r.raced
      PROVE  ~Exceeds(r)'
  <2>1. CASE r = new
    <3>1. new # NotAsking
      BY <2>1, Distinct
    <3>2. ~\E rule \in r.rules[r.kind] : Reaches(rule, r.kind, r.text)
      BY <1>2, <1>6, <2>1, <3>1
    <3>3. ~old.raced /\ r.kind = old.kind
      BY <1>6, <1>8, <2>1, <3>1
    <3>4. DailyLimit > 0 => Cardinality(TodayOn(Table(r.kind))) < DailyLimit
      BY <1>1, <3>3 DEF Unraced
    <3>5. DailyLimit > 0 => ~(Cardinality(TodayOn(Table(r.kind))) >= DailyLimit)
      BY <3>4, CountedFinite, LimitAssumption
    <3>6. ~Exceeds(r)
      BY <3>2, <3>5 DEF Exceeds, TodayOn
    <3> QED BY <1>5, <3>6
  <2>2. CASE r # new
    <3>1. \E b \in Author : asking[b] = r
      BY <1>3, <1>8, <2>2
    <3> QED BY <1>5, <1>8, <3>1 DEF Unraced
  <2> QED BY <2>1, <2>2
<1>9. excess' = FALSE
  BY <1>1 DEF Unraced
<1> QED BY <1>7, <1>8, <1>9 DEF Unraced

\* Whoever else was under way is raced now.
LEMMA StoresUnraced ==
  ASSUME LimitsInv, NEW a \in Author, StoresPost(a)
  PROVE  Unraced'
<1> USE DEF LimitsInv, LimitsTypes
<1>1. asking[a] \in Storing
  BY StoreEffect
<1>2. ~asking[a].raced => ~Exceeds(asking[a])
  BY <1>1 DEF Unraced
<1>3. excess' = FALSE
  BY <1>2 DEF StoresPost, Unraced
<1>4. \A b \in Author : asking'[b] = NotAsking \/ asking'[b].raced = TRUE
  BY RacedFields DEF StoresPost
<1>5. \A r \in Counting \cup Storing : (\E b \in Author : asking'[b] = r) => r.raced
  BY <1>4, Distinct
<1> QED BY <1>3, <1>5 DEF Unraced

LEMMA ShrinksUnraced ==
  ASSUME LimitsInv, TimePasses \/ \E i \in DOMAIN posts : DeletesPost(i)
  PROVE  Unraced'
<1>1. LimitsTypes /\ Unraced
  BY DEF LimitsInv
<1>2. asking' = asking /\ excess' = excess
  BY DEF TimePasses, DeletesPost
<1>3. ASSUME NEW r \in Counting, \E b \in Author : asking'[b] = r, ~r.raced, DailyLimit > 0
      PROVE  Cardinality(TodayOn(Table(r.kind))') < DailyLimit
  <2>1. Cardinality(TodayOn(Table(r.kind))) < DailyLimit
    BY <1>1, <1>2, <1>3 DEF Unraced
  <2>2. TodayOn(Table(r.kind))' \subseteq TodayOn(Table(r.kind))
    BY <1>1, FewerCount
  <2>3. /\ Cardinality(TodayOn(Table(r.kind))') <= Cardinality(TodayOn(Table(r.kind)))
        /\ Cardinality(TodayOn(Table(r.kind))') \in Nat
        /\ Cardinality(TodayOn(Table(r.kind))) \in Nat
    BY <1>1, <2>2, CountedFinite, FS_Subset, FS_CardinalityType
  <2> QED BY <2>1, <2>3, LimitAssumption
<1>4. ASSUME NEW r \in Storing, \E b \in Author : asking'[b] = r, ~r.raced
      PROVE  ~Exceeds(r)'
  <2>1. ~Exceeds(r)
    BY <1>1, <1>2, <1>4 DEF Unraced
  <2> QED BY <1>1, <2>1, StaysWithin
<1> QED BY <1>1, <1>2, <1>3, <1>4 DEF Unraced

-----------------------------------------------------------------------------
(* How far overlapping requests exceed the limit of a day.                 *)

LEMMA AsksRoom ==
  ASSUME LimitsInv, NEW a \in Author, NEW kind \in Kinds, Asks(a, kind),
         NEW new \in Counting \cup Storing, new.kind = kind, Moves(a, new)
  PROVE  LimitRoom'
<1> SUFFICES ASSUME DailyLimit > 0, NEW table \in Tables
             PROVE  Cardinality(TodayOn(table)') + Cardinality(BusyOn(table)')
                      < DailyLimit + Cardinality(Author)
  BY DEF LimitRoom
<1>1. /\ LimitsTypes /\ LimitsTypes' /\ UNCHANGED <<instant, posts>>
      /\ asking' = [asking EXCEPT ![a] = new]
  <2>1. /\ LimitsTypes /\ UNCHANGED <<instant, posts>>
        /\ asking' = [asking EXCEPT ![a] = new]
    BY DEF LimitsInv, Asks, Moves
  <2> QED BY <2>1 DEF LimitsTypes
<1>2. TodayOn(table)' = TodayOn(table)
  BY <1>1 DEF TodayOn, DayOf
<1>3. IsFiniteSet(Author) /\ Cardinality(Author) \in Nat
  BY LimitAssumption, FS_CardinalityType
<1>4. /\ Cardinality(TodayOn(table)) \in Nat /\ Cardinality(BusyOn(table)) \in Nat
      /\ Cardinality(BusyOn(table)') \in Nat
  BY <1>1, CountedFinite, CountedFiniteNext
<1>5. CASE Table(kind) = table
  <2>1. Cardinality(TodayOn(table)) < DailyLimit
    BY <1>5, AskedWithin
  <2>2. Cardinality(BusyOn(table)') <= Cardinality(Author)
    BY <1>3, FS_Subset DEF BusyOn
  <2> QED BY <1>2, <1>3, <1>4, <2>1, <2>2, LimitAssumption
<1>6. CASE Table(kind) # table
  <2>1. BusyOn(table)' = BusyOn(table)
    <3>1. asking[a] = NotAsking
      BY DEF Asks
    <3> QED BY <1>1, <1>6, <3>1 DEF BusyOn, LimitsTypes
  <2> QED BY <1>2, <2>1 DEF LimitsInv, LimitRoom
<1> QED BY <1>5, <1>6

\* Steps that add no row, and no request.
LEMMA ShrinksRoom ==
  ASSUME LimitsInv, LimitsTypes',
         \A table : TodayOn(table)' \subseteq TodayOn(table),
         \A table : BusyOn(table)' \subseteq BusyOn(table)
  PROVE  LimitRoom'
<1> SUFFICES ASSUME DailyLimit > 0, NEW table \in Tables
             PROVE  Cardinality(TodayOn(table)') + Cardinality(BusyOn(table)')
                      < DailyLimit + Cardinality(Author)
  BY DEF LimitRoom
<1>1. Cardinality(TodayOn(table)) + Cardinality(BusyOn(table))
        < DailyLimit + Cardinality(Author)
  BY DEF LimitsInv, LimitRoom
<1>2. /\ IsFiniteSet(TodayOn(table)) /\ IsFiniteSet(BusyOn(table))
      /\ Cardinality(TodayOn(table)) \in Nat /\ Cardinality(BusyOn(table)) \in Nat
      /\ Cardinality(TodayOn(table)') \in Nat /\ Cardinality(BusyOn(table)') \in Nat
  BY CountedFinite, CountedFiniteNext DEF LimitsInv
<1>3. /\ Cardinality(TodayOn(table)') <= Cardinality(TodayOn(table))
      /\ Cardinality(BusyOn(table)') <= Cardinality(BusyOn(table))
  BY <1>2, FS_Subset
<1>4. Cardinality(Author) \in Nat
  BY LimitAssumption, FS_CardinalityType
<1> QED BY <1>1, <1>2, <1>3, <1>4, LimitAssumption

\* What is stored takes the place of its request.
LEMMA StoresRoom ==
  ASSUME LimitsInv, LimitsTypes', NEW a \in Author, StoresPost(a)
  PROVE  LimitRoom' /\ ExcessBounded'
<1>0. PICK mine, last : mine = Table(asking[a].kind) /\ last = Len(posts) + 1
  OBVIOUS
<1>1. /\ LimitsTypes /\ asking[a] \in Storing /\ instant' = instant
      /\ Len(posts') = last /\ posts' \in Seq(Post) /\ posts \in Seq(Post)
      /\ \A i \in DOMAIN posts : posts'[i] = posts[i]
      /\ posts'[last].at = instant /\ Table(posts'[last].kind) = mine
  BY <1>0, StoreEffect DEF LimitsInv, StoresPost, LimitsTypes
<1>2. DOMAIN posts' = DOMAIN posts \cup {last} /\ last \notin DOMAIN posts
      /\ DOMAIN posts = 1 .. Len(posts) /\ Len(posts) \in Nat
  BY <1>0, <1>1
<1>3. \A table : TodayOn(table)' = IF table = mine THEN TodayOn(table) \cup {last}
                                                   ELSE TodayOn(table)
  BY <1>1, <1>2 DEF TodayOn, DayOf
<1>4. \A table : /\ IsFiniteSet(TodayOn(table)) /\ IsFiniteSet(BusyOn(table))
                 /\ Cardinality(TodayOn(table)) \in Nat
                 /\ Cardinality(BusyOn(table)) \in Nat
                 /\ Cardinality(TodayOn(table)') \in Nat
                 /\ Cardinality(BusyOn(table)') \in Nat
  BY <1>1, CountedFinite, CountedFiniteNext
<1>5. /\ \A b \in Author \ {a} : /\ asking'[b] = NotAsking <=> asking[b] = NotAsking
                                 /\ asking[b] # NotAsking => asking'[b].kind = asking[b].kind
      /\ asking'[a] = NotAsking /\ asking[a] # NotAsking
  <2>1. asking[a] # NotAsking /\ asking'[a] = NotAsking
    BY <1>1, Distinct DEF StoresPost
  <2>2. ASSUME NEW b \in Author \ {a}
        PROVE  /\ asking'[b] = NotAsking <=> asking[b] = NotAsking
               /\ asking[b] # NotAsking => asking'[b].kind = asking[b].kind
    <3>1. CASE asking[b] = NotAsking
      BY <3>1 DEF StoresPost
    <3>2. CASE asking[b] # NotAsking
      <4>1. asking[b] \in Counting \cup Storing
        BY <1>1, <3>2 DEF LimitsTypes
      <4>2. asking'[b] = [asking[b] EXCEPT !.raced = TRUE]
        BY <3>2 DEF StoresPost
      <4> QED BY <3>2, <4>1, <4>2, RacedTyped, RacedFields, Distinct
    <3> QED BY <3>1, <3>2
  <2> QED BY <2>1, <2>2
<1>6. \A table : BusyOn(table)' = IF table = mine THEN BusyOn(table) \ {a}
                                                  ELSE BusyOn(table)
  BY <1>0, <1>5 DEF BusyOn
<1>7. a \in BusyOn(mine) /\ last \notin TodayOn(mine)
  BY <1>0, <1>2, <1>5 DEF BusyOn, TodayOn
<1>8. /\ Cardinality(TodayOn(mine)') = Cardinality(TodayOn(mine)) + 1
      /\ Cardinality(BusyOn(mine)') = Cardinality(BusyOn(mine)) - 1
  <2>1. TodayOn(mine)' = TodayOn(mine) \cup {last} /\ BusyOn(mine)' = BusyOn(mine) \ {a}
    BY <1>3, <1>6
  <2>2. Cardinality(TodayOn(mine) \cup {last}) = Cardinality(TodayOn(mine)) + 1
    BY <1>4, <1>7, FS_AddElement
  <2>3. Cardinality(BusyOn(mine) \ {a}) = Cardinality(BusyOn(mine)) - 1
    BY <1>4, <1>7, FS_RemoveElement
  <2> QED BY <2>1, <2>2, <2>3
<1>9. Cardinality(Author) \in Nat /\ mine \in Tables
  BY <1>0, <1>1, LimitAssumption, FS_CardinalityType, TableOf, Distinct
<1>10. LimitRoom'
  <2> SUFFICES ASSUME DailyLimit > 0, NEW table \in Tables
               PROVE  Cardinality(TodayOn(table)') + Cardinality(BusyOn(table)')
                        < DailyLimit + Cardinality(Author)
    BY DEF LimitRoom
  <2>1. Cardinality(TodayOn(table)) + Cardinality(BusyOn(table))
          < DailyLimit + Cardinality(Author)
    BY DEF LimitsInv, LimitRoom
  <2>2. CASE table = mine
    BY <1>4, <1>8, <1>9, <2>1, <2>2, LimitAssumption
  <2>3. CASE table # mine
    BY <1>3, <1>6, <2>1, <2>3
  <2> QED BY <2>2, <2>3
<1>11. ExcessBounded'
  <2> DEFINE Upto(i) == {j \in 1 .. i : /\ Table(posts[j].kind) = Table(posts[i].kind)
                                        /\ DayOf(posts[j].at) = DayOf(posts[i].at)}
  <2> SUFFICES ASSUME DailyLimit > 0, NEW i \in DOMAIN posts'
               PROVE  Cardinality(Upto(i)') < DailyLimit + Cardinality(Author)
    BY DEF ExcessBounded
  <2>1. CASE i \in DOMAIN posts
    <3>1. Upto(i)' = Upto(i)
      BY <1>1, <1>2, <2>1 DEF DayOf
    <3>2. Cardinality(Upto(i)) < DailyLimit + Cardinality(Author)
      BY <2>1 DEF LimitsInv, ExcessBounded
    <3> QED BY <3>1, <3>2
  <2>2. CASE i = last
    <3>1. Upto(i)' = TodayOn(mine)'
      BY <1>0, <1>1, <1>2, <2>2 DEF TodayOn, DayOf
    <3>2. Cardinality(TodayOn(mine)') + Cardinality(BusyOn(mine)')
            < DailyLimit + Cardinality(Author)
      BY <1>9, <1>10 DEF LimitRoom
    <3>3. Cardinality(TodayOn(mine)') < DailyLimit + Cardinality(Author)
      BY <1>4, <1>9, <3>2, LimitAssumption
    <3> HIDE DEF Upto
    <3> QED BY <3>1, <3>3
  <2> QED BY <1>2, <2>1, <2>2
<1> QED BY <1>10, <1>11

\* Time passes, a row is marked deleted: no row is new.
LEMMA ShrinksBounded ==
  ASSUME LimitsInv, TimePasses \/ \E i \in DOMAIN posts : DeletesPost(i)
  PROVE  ExcessBounded'
<1>1. LimitsTypes /\ ExcessBounded
  BY DEF LimitsInv
<1>2. /\ DOMAIN posts' = DOMAIN posts
      /\ \A j \in DOMAIN posts : posts'[j].at = posts[j].at /\ posts'[j].kind = posts[j].kind
  <2>1. CASE TimePasses
    BY <2>1 DEF TimePasses
  <2>2. ASSUME NEW i \in DOMAIN posts, DeletesPost(i)
        PROVE  /\ DOMAIN posts' = DOMAIN posts
               /\ \A j \in DOMAIN posts : /\ posts'[j].at = posts[j].at
                                         /\ posts'[j].kind = posts[j].kind
    BY <1>1, <2>2 DEF DeletesPost, LimitsTypes, Post
  <2> QED BY <2>1, <2>2
<1>3. \A i \in DOMAIN posts : 1 .. i \subseteq DOMAIN posts
  BY <1>1 DEF LimitsTypes
<1>4. ASSUME NEW i \in DOMAIN posts
      PROVE  {j \in 1 .. i : /\ Table(posts'[j].kind) = Table(posts'[i].kind)
                             /\ DayOf(posts'[j].at) = DayOf(posts'[i].at)}
               = {j \in 1 .. i : /\ Table(posts[j].kind) = Table(posts[i].kind)
                                 /\ DayOf(posts[j].at) = DayOf(posts[i].at)}
  BY <1>2, <1>3
<1> QED BY <1>1, <1>2, <1>4 DEF ExcessBounded, DayOf

LEMMA LimitsInvNext == LimitsInv /\ [LimitsNext]_limitVars => LimitsInv'
<1> SUFFICES ASSUME LimitsInv, [LimitsNext]_limitVars PROVE Unraced' /\ LimitRoom' /\ ExcessBounded'
  BY LimitsTypesNext DEF LimitsInv
<1> DEFINE Goal == Unraced' /\ LimitRoom' /\ ExcessBounded'
<1>1. LimitsTypes /\ LimitsTypes' /\ ExcessBounded
  BY LimitsTypesNext DEF LimitsInv
<1>2. ASSUME NEW a \in Author, NEW kind \in Kinds, Asks(a, kind),
             NEW new \in Counting \cup Storing, new.kind = kind, Moves(a, new),
             new \in Storing => kind \notin CommentKinds
      PROVE  Goal
  <2>1. ExcessBounded'
    BY <1>1, <1>2 DEF Asks, ExcessBounded, DayOf
  <2> QED BY <1>2, <2>1, AsksUnraced, AsksRoom
<1>3. ASSUME NEW a \in Author, NEW kind \in CommentKinds, NEW text \in Text,
             NEW rules \in Rules, AsksToComment(a, kind, text, rules)
      PROVE  Goal
  <2> DEFINE new == [phase |-> "counting", kind |-> kind, text |-> text, rules |-> rules,
                     raced |-> FALSE]
  <2>1. new \in Counting /\ new.kind = kind /\ kind \in Kinds
    BY DEF Counting, Kinds
  <2>2. Asks(a, kind) /\ Moves(a, new) /\ new \notin Storing
    BY <1>3, <2>1, Distinct DEF AsksToComment
  <2> HIDE DEF new
  <2> QED BY <1>2, <2>1, <2>2
<1>4. ASSUME NEW a \in Author, NEW text \in Text, AsksToPublish(a, text)
      PROVE  Goal
  <2> DEFINE new == [phase |-> "storing", kind |-> "moment", text |-> text, raced |-> FALSE]
  <2>1. new \in Storing /\ new.kind = "moment" /\ "moment" \in Kinds \ CommentKinds
    BY DEF Storing, Kinds, CommentKinds
  <2>2. Asks(a, "moment") /\ Moves(a, new)
    BY <1>4 DEF AsksToPublish
  <2> HIDE DEF new
  <2> QED BY <1>2, <2>1, <2>2
<1>5. ASSUME NEW a \in Author, NEW text \in Text, AsksForTopic(a, text)
      PROVE  Goal
  <2> DEFINE new == [phase |-> "storing", kind |-> "topic", text |-> text, raced |-> FALSE]
  <2>1. new \in Storing /\ new.kind = "topic" /\ "topic" \in Kinds \ CommentKinds
    BY DEF Storing, Kinds, CommentKinds
  <2>2. Asks(a, "topic") /\ Moves(a, new)
    BY <1>5 DEF AsksForTopic
  <2> HIDE DEF new
  <2> QED BY <1>2, <2>1, <2>2
<1>6. ASSUME NEW a \in Author, ChecksRate(a) PROVE Goal
  <2>1. asking[a] \in Counting /\ UNCHANGED <<instant, posts>>
    BY <1>1, <1>6, Distinct DEF ChecksRate, LimitsTypes
  <2>2. /\ asking'[a] = NotAsking \/ asking'[a].kind = asking[a].kind
        /\ \A b \in Author \ {a} : asking'[b] = asking[b]
        /\ asking[a] # NotAsking
    BY <1>1, <1>6, <2>1, PassedTyped, Distinct DEF ChecksRate, Moves, LimitsTypes
  <2>3. /\ \A table : TodayOn(table)' \subseteq TodayOn(table)
        /\ \A table : BusyOn(table)' \subseteq BusyOn(table)
    BY <2>1, <2>2 DEF TodayOn, BusyOn, DayOf
  <2>4. ExcessBounded'
    BY <1>1, <2>1 DEF ExcessBounded, DayOf
  <2> QED BY <1>1, <1>6, <2>3, <2>4, ChecksUnraced, ShrinksRoom
<1>7. ASSUME NEW a \in Author, StoresPost(a) PROVE Goal
  BY <1>1, <1>7, StoresUnraced, StoresRoom
<1>8. ASSUME TimePasses \/ \E i \in DOMAIN posts : DeletesPost(i) PROVE Goal
  <2>1. \A table : BusyOn(table)' \subseteq BusyOn(table)
    BY <1>8 DEF TimePasses, DeletesPost, BusyOn
  <2> QED BY <1>1, <1>8, <2>1, FewerCount, ShrinksUnraced, ShrinksRoom, ShrinksBounded
<1>9. CASE UNCHANGED limitVars
  <2>1. UNCHANGED <<instant, asking, posts, excess>>
    BY <1>9 DEF limitVars
  <2>2. ExcessBounded'
    BY <1>1, <2>1 DEF ExcessBounded, DayOf
  <2>3. LimitRoom'
    BY <2>1 DEF LimitsInv, LimitRoom, TodayOn, BusyOn, DayOf
  <2>4. Unraced'
    BY <2>1
    DEF LimitsInv, Unraced, TodayOn, DayOf, Exceeds, Reaches, RecentPosts
  <2> QED BY <2>2, <2>3, <2>4
<1> QED
  BY <1>3, <1>4, <1>5, <1>6, <1>7, <1>8, <1>9 DEF LimitsNext, Rules

\* Nothing that was not raced exceeds a limit, and what overlaps exceeds it by
\* less than the number of requests, for every limit, window and number of
\* requests (daily_limit.py, _check_rate_limit, _check_comment_daily_limit).
THEOREM WritersAreLimited == LimitsSpec => []LimitsHold
<1>1. LimitsInv => LimitsHold
  BY DEF LimitsInv, Unraced, LimitsHold, LimitsKept
<1> QED BY <1>1, LimitsInvInit, LimitsInvNext, PTL DEF LimitsSpec

-----------------------------------------------------------------------------
(* The types of all of them as they are checked.  What the invariants above  *)
(* leave out are bounds of requests, floors and what has happened.           *)

AreaMeter == asked \in 0 .. AreaRequests

LEMMA AreaMeterNext == AreaMeter /\ [AreaNext]_areaVars => AreaMeter'
<1> SUFFICES ASSUME AreaMeter, [AreaNext]_areaVars PROVE AreaMeter'
  OBVIOUS
<1>1. ASSUME NEW w \in AreaWorker, NEW c \in Comment,
             \/ \E r \in Comment \cup {NoComment} : AddReads(w, c, r)
             \/ DeleteReads(w, c)
             \/ \E on \in BOOLEAN : TopReads(w, c, on)
             \/ \E to \in Status : SetReads(w, c, to)
             \/ HideReads(w, c)
      PROVE  asked < AreaRequests /\ asked' = asked + 1
  BY <1>1, Zenon DEF AddReads, DeleteReads, TopReads, SetReads, HideReads, Submit
<1>2. ASSUME NEW w \in AreaWorker, RecountReads(w)
      PROVE  asked < AreaRequests /\ asked' = asked + 1
  BY <1>2, Zenon DEF RecountReads, Submit
<1>3. ASSUME NEW w \in AreaWorker,
             \/ \E s \in Status : AddCommits(w, s)
             \/ DeleteCommits(w) \/ TopCommits(w) \/ SetCommits(w) \/ SyncReads(w)
             \/ SyncWrites(w) \/ SyncLost(w) \/ HideCommits(w) \/ RecountCommits(w)
      PROVE  asked' = asked
  BY <1>3, Zenon DEF AddCommits, DeleteCommits, TopCommits, SetCommits, SyncReads,
     SyncWrites, SyncLost, HideCommits, RecountCommits, Finish
<1>4. \/ asked < AreaRequests /\ asked' = asked + 1
      \/ asked' = asked
  BY <1>1, <1>2, <1>3, Zenon DEF AreaNext, areaVars
<1> QED BY <1>4, AreaAssumption DEF AreaMeter

LEMMA AreaTyped == AreaSpec => []AreaTypeOK
<1>1. AreaInit => AreaMeter
  BY AreaAssumption DEF AreaInit, AreaMeter
<1>2. AreaInv /\ AreaMeter => AreaTypeOK
  BY DEF AreaInv, AreaTypes, AreaMeter, AreaTypeOK
<1> QED BY <1>1, <1>2, AreaMeterNext, AreaInvInit, AreaInvNext, PTL DEF AreaSpec

MomentsMeter == momentsAsked \in 0 .. MomentRequests

LEMMA MomentsMeterNext == MomentsMeter /\ [MomentsNext]_momentVars => MomentsMeter'
<1> SUFFICES ASSUME MomentsMeter, [MomentsNext]_momentVars PROVE MomentsMeter'
  OBVIOUS
<1>1. ASSUME NEW w \in MomentWorker, NEW m \in Moment,
             \/ \E s \in Moment \cup {NoMoment} : PublishLoads(w, m, s)
             \/ \E op \in {"approve", "reject"} : AuditLoads(w, m, op)
             \/ HideLoads(w, m) \/ RemoveLoads(w, m)
             \/ \E on \in BOOLEAN : PinLoads(w, m, on)
      PROVE  momentsAsked < MomentRequests /\ momentsAsked' = momentsAsked + 1
  BY <1>1, Zenon DEF PublishLoads, AuditLoads, HideLoads, RemoveLoads, PinLoads, Load
<1>2. ASSUME NEW w \in MomentWorker,
             \/ \E v \in Verdict : PublishCommits(w, v)
             \/ Approves(w) \/ Rejects(w) \/ Hides(w) \/ Removes(w) \/ Pins(w)
      PROVE  momentsAsked' = momentsAsked
  BY <1>2, Zenon DEF PublishCommits, Approves, Rejects, Hides, Removes, Pins, Done
<1>3. \/ momentsAsked < MomentRequests /\ momentsAsked' = momentsAsked + 1
      \/ momentsAsked' = momentsAsked
  BY <1>1, <1>2, Zenon DEF MomentsNext, momentVars
<1> QED BY <1>3, MomentAssumption DEF MomentsMeter

LEMMA MomentsTyped == MomentsSpec => []MomentsTypeOK
<1>1. MomentsInit => MomentsMeter
  BY MomentAssumption DEF MomentsInit, MomentsMeter
<1>2. MomentInv /\ MomentsMeter => MomentsTypeOK
  BY DEF MomentInv, MomentTypes, MomentsMeter, MomentsTypeOK
<1> QED BY <1>1, <1>2, MomentsMeterNext, MomentInvInit, MomentInvNext, PTL DEF MomentsSpec

FollowMeters == mishap \subseteq Mishap /\ followsAsked \in 0 .. FollowRequests

LEMMA FollowMetersNext == FollowMeters /\ [FollowNext]_followVars => FollowMeters'
<1> SUFFICES ASSUME FollowMeters, [FollowNext]_followVars PROVE FollowMeters'
  OBVIOUS
<1>1. ASSUME NEW p \in Pairs, Unfollow(p) \/ Block(p) \/ Unblock(p)
      PROVE  Ask /\ mishap' = mishap
  BY <1>1, Zenon DEF Unfollow, Block, Unblock
<1>2. ASSUME NEW t \in Tag, DeleteTag(t)
      PROVE  Ask /\ mishap' = mishap
  BY <1>2, Zenon DEF DeleteTag
<1>3. ASSUME NEW w \in FollowWorker,
             \/ \E p \in Pairs : \/ FollowChecks(w, p)
                                 \/ \E ts \in SUBSET (Group \cup {Default}) :
                                      AssignChecks(w, p, ts)
             \/ \E u \in User : CreateChecks(w, u)
      PROVE  Ask /\ mishap' = mishap
  BY <1>3, Zenon DEF FollowChecks, AssignChecks, CreateChecks, Begin
<1>4. ASSUME NEW w \in FollowWorker,
             AssignClears(w) \/ \E t \in Tag : CreateWrites(w, t)
      PROVE  followsAsked' = followsAsked /\ mishap' = mishap
  BY <1>4, Zenon DEF AssignClears, CreateWrites
<1>5. ASSUME NEW w \in FollowWorker, FollowWrites(w) \/ AssignInserts(w)
      PROVE  followsAsked' = followsAsked /\ mishap' \subseteq Mishap
  <2>1. mishap \subseteq Mishap /\ {"crossed", "ghost", "tagGone", "merged"} \subseteq Mishap
    BY DEF FollowMeters, Mishap
  <2>2. CASE FollowWrites(w)
    <3>1. mishap' = mishap \/ mishap' = mishap \cup {"crossed"} \/ mishap' = mishap \cup {}
      BY <2>2, Zenon DEF FollowWrites
    <3> QED BY <2>1, <2>2, <3>1 DEF FollowWrites
  <2>3. CASE AssignInserts(w)
    <3>1. mishap' \subseteq mishap \cup {"ghost", "tagGone", "merged"}
      BY <2>3 DEF AssignInserts
    <3> QED BY <2>1, <2>3, <3>1 DEF AssignInserts
  <2> QED BY <1>5, <2>2, <2>3
<1>6. UNCHANGED followVars => followsAsked' = followsAsked /\ mishap' = mishap
  BY Zenon DEF followVars
<1>7. mishap' \subseteq Mishap
  BY <1>1, <1>2, <1>3, <1>4, <1>5, <1>6 DEF FollowNext, FollowMeters
<1>8. Ask \/ followsAsked' = followsAsked
  BY <1>1, <1>2, <1>3, <1>4, <1>5, <1>6, Zenon DEF FollowNext
<1> QED BY <1>7, <1>8, FollowAssumption DEF Ask, FollowMeters

LEMMA FollowsTyped == FollowSpec => []FollowTypeOK
<1>1. FollowInit => FollowMeters
  BY FollowAssumption DEF FollowInit, FollowMeters
<1>2. FollowInv /\ FollowMeters => FollowTypeOK
  BY DEF FollowInv, FollowTypes, FollowMeters, FollowTypeOK, TagRow, Pairs
<1> QED BY <1>1, <1>2, FollowMetersNext, FollowInvInit, FollowInvNext, PTL DEF FollowSpec

\* The likes of a moment are never below zero.
MarkMeters ==
  /\ \A m \in LikedMoment : likes[m] \in Nat
  /\ overlapped \subseteq Mark /\ marksAsked \in 0 .. MarkRequests

LEMMA MarkMetersNext == MarksInv /\ MarkMeters /\ [MarksNext]_markVars => MarkMeters'
<1> SUFFICES ASSUME MarksInv, MarkMeters, [MarksNext]_markVars PROVE MarkMeters'
  OBVIOUS
<1>1. MarkTypes
  BY DEF MarksInv
<1>2. \A w \in MarkWorker :
        /\ markJob[w].op = "toggle" => markJob[w].m \in Mark \ LikedComment
        /\ markJob[w].op = "react" => markJob[w].m \in LikedComment
  BY <1>1 DEF MarkTypes, MarkJob, NoMarkJob
<1>3. ASSUME NEW w \in MarkWorker, NEW m \in Mark, NEW v \in Value,
             ToggleReads(w, m, v) \/ ReactReads(w, m, v)
      PROVE  MarkMeters'
  BY <1>3, MarkAssumption DEF ToggleReads, ReactReads, MarkReads, MarkMeters
<1>4. ASSUME NEW w \in MarkWorker, LikeMoment(w) \/ LikeResource(w) \/ Dislike(w)
      PROVE  MarkMeters'
  <2>1. /\ markJob[w].m \in Mark \ LikedComment
        /\ \E deleted \in BOOLEAN : Toggles(w, deleted)
    <3>1. PICK deleted : Toggles(w, deleted)
      BY <1>4, Zenon DEF LikeMoment, LikeResource, Dislike
    <3>2. markJob[w].op = "toggle"
      BY <1>4, Zenon DEF LikeMoment, LikeResource, Dislike
    <3>3. SamePk(markJob[w]) \in BOOLEAN
      BY DEF SamePk
    <3> QED BY <1>2, <1>4, <3>2, <3>3 DEF LikeMoment, LikeResource, Dislike
  <2>2. PICK deleted \in BOOLEAN : Toggles(w, deleted)
    BY <2>1
  <2>3. PICK m : m = markJob[w].m
    OBVIOUS
  <2>4. \/ likes' = likes
        \/ likes' = [likes EXCEPT ![m] = @ + 1]
        \/ likes' = [likes EXCEPT ![m] = FloorFor(m, @ - 1)]
    <3>1. likes \in [Mark -> Int] /\ m \in Mark
      BY <1>1, <2>1, <2>3 DEF MarkTypes
    <3> QED BY <2>2, <2>3, <3>1 DEF Toggles
  <2>5. \A x \in LikedMoment : likes'[x] \in Nat
    BY <1>1, <2>1, <2>3, <2>4 DEF MarkTypes, FloorFor, FloorOfLikes, MarkMeters, Mark
  <2>6. overlapped' \subseteq Mark
    BY <2>1, <2>2 DEF Toggles, Overlaps, MarkMeters
  <2>7. marksAsked' = marksAsked
    BY <2>2 DEF Toggles, MarkDone
  <2> QED BY <2>5, <2>6, <2>7 DEF MarkMeters
<1>5. ASSUME NEW w \in MarkWorker, React(w)
      PROVE  MarkMeters'
  <2>1. markJob[w].m \in LikedComment
    BY <1>2, <1>5 DEF React
  <2>2. PICK m \in LikedComment : m = markJob[w].m
    BY <2>1
  <2>3. likes' = likes \/ \E n : likes' = [likes EXCEPT ![m] = n]
    BY <1>5, <2>2, Zenon DEF React
  <2>4. \A x \in LikedMoment : likes'[x] \in Nat
    BY <1>1, <2>3, MarkAssumption DEF MarkTypes, MarkMeters, Mark
  <2>5. overlapped' \subseteq Mark
    BY <1>5, <2>1 DEF React, Overlaps, MarkMeters, Mark
  <2>6. marksAsked' = marksAsked
    BY <1>5 DEF React, MarkDone
  <2> QED BY <2>4, <2>5, <2>6 DEF MarkMeters
<1>6. CASE UNCHANGED markVars
  BY <1>6 DEF markVars, MarkMeters
<1> QED BY <1>3, <1>4, <1>5, <1>6, Zenon DEF MarksNext

LEMMA MarksTyped == MarksSpec => []MarksTypeOK
<1>1. MarksInit => MarkMeters
  BY MarkAssumption DEF MarksInit, MarkMeters, Mark
<1>2. MarksInv /\ MarkMeters => MarksTypeOK
  BY DEF MarksInv, MarkTypes, MarkRow, MarkMeters, MarksTypeOK
<1> QED BY <1>1, <1>2, MarkMetersNext, MarksInvInit, MarksInvNext, PTL DEF MarksSpec

\* The favourites of a moment are never below zero.
FavMeters ==
  /\ \A r \in FavMoment : favCount[r] \in Nat
  /\ muddle \subseteq Muddle /\ favsAsked \in 0 .. FavRequests

LEMMA FavMetersNext == FavInv /\ FavMeters /\ [FavNext]_favVars => FavMeters'
<1> SUFFICES ASSUME FavInv, FavMeters, [FavNext]_favVars PROVE FavMeters'
  OBVIOUS
<1>1. /\ favCount \in [Favoured -> Int] /\ FavMoment \subseteq Favoured
      /\ \A w \in FavWorker : favJob[w].op \in {"inserted", "deleted"}
           => favJob[w].r \in Favoured
      /\ muddle \subseteq Muddle /\ \A r \in FavMoment : favCount[r] \in Nat
  BY DEF FavInv, FavTypes, FavJob, NoFavJob, Favoured, FavMeters
<1>2. \A b, kind : kind \in Muddle => Muddled(b, kind) \subseteq Muddle
  BY DEF Muddled
<1>3. {"stale", "twice", "unnamed", "folderGone", "defaults"} \subseteq Muddle
  BY DEF Muddle
<1>4. ASSUME NEW w \in FavWorker,
             \/ \E f \in Folder : \/ Create(w, f) \/ DeleteFolderReads(w, f)
                                  \/ \E r \in Favoured : RemoveReads(w, r, f)
             \/ \E r \in Favoured :
                  NeedsDefault(w, r) \/ \E f \in Folder \cup {NoFolder} : AddChecks(w, r, f)
      PROVE  /\ favsAsked < FavRequests /\ favsAsked' = favsAsked + 1
             /\ UNCHANGED <<favCount, muddle>>
  BY <1>4, Zenon DEF Create, DeleteFolderReads, RemoveReads, NeedsDefault, AddChecks, Starts
<1>5. ASSUME NEW w \in FavWorker, AddEnds(w) \/ AddInserts(w) \/ RemoveDeletes(w)
      PROVE  UNCHANGED <<favCount, muddle, favsAsked>>
  BY <1>5, Zenon DEF AddEnds, AddInserts, RemoveDeletes, Ends, Goes
<1>6. ASSUME NEW w \in FavWorker, NEW f \in Folder, CreatesDefault(w, f)
      PROVE  /\ UNCHANGED <<favCount, favsAsked>> /\ muddle' \subseteq Muddle
  BY <1>1, <1>2, <1>3, <1>6 DEF CreatesDefault, Goes
<1>7. ASSUME NEW w \in FavWorker, AddDone(w)
      PROVE  FavMeters'
  <2>1. muddle' \subseteq Muddle
    BY <1>1, <1>2, <1>3, <1>7 DEF AddDone
  <2>2. favsAsked' = favsAsked
    BY <1>7 DEF AddDone, Ends, Goes
  <2>3. \A r \in FavMoment : favCount'[r] \in Nat
    <3>1. PICK x, n : /\ x = favJob[w].r /\ n = IF favJob[w].other THEN 0 ELSE 1
      OBVIOUS
    <3>2. x \in Favoured /\ n \in Nat
      BY <1>1, <1>7, <3>1 DEF AddDone
    <3>3. favCount' = [favCount EXCEPT ![x] = @ + n]
      BY <1>7, <3>1, Zenon DEF AddDone
    <3> QED BY <1>1, <3>2, <3>3
  <2> QED BY <2>1, <2>2, <2>3 DEF FavMeters
<1>8. ASSUME NEW w \in FavWorker, RemoveDone(w)
      PROVE  FavMeters'
  <2>1. muddle' \subseteq Muddle
    BY <1>1, <1>2, <1>3, <1>8 DEF RemoveDone
  <2>2. favsAsked' = favsAsked
    BY <1>8 DEF RemoveDone, Ends, Goes
  <2>3. \A r \in FavMoment : favCount'[r] \in Nat
    <3>1. PICK x, n : /\ x = favJob[w].r /\ n = IF favJob[w].other THEN 0 ELSE 1
      OBVIOUS
    <3>2. x \in Favoured /\ n \in Nat
      BY <1>1, <1>8, <3>1 DEF RemoveDone
    <3>3. favCount' = [favCount EXCEPT ![x] = Below(x, @ - n)]
      BY <1>8, <3>1, Zenon DEF RemoveDone
    <3> QED BY <1>1, <3>2, <3>3 DEF Below
  <2> QED BY <2>1, <2>2, <2>3 DEF FavMeters
<1>9. ASSUME NEW w \in FavWorker, DeleteFolderCommits(w)
      PROVE  FavMeters'
  <2>1. muddle' \subseteq Muddle
    BY <1>1, <1>2, <1>3, <1>9 DEF DeleteFolderCommits
  <2>2. favsAsked' = favsAsked
    BY <1>9 DEF DeleteFolderCommits, Ends, Goes
  <2>3. \A r \in FavMoment : favCount'[r] \in Nat
    BY <1>1, <1>9 DEF DeleteFolderCommits, Below
  <2> QED BY <2>1, <2>2, <2>3 DEF FavMeters
<1>10. CASE UNCHANGED favVars
  BY <1>10 DEF favVars, FavMeters
<1>11. UNCHANGED favCount /\ muddle' \subseteq Muddle
         /\ favsAsked' \in {favsAsked} \cup (0 .. FavRequests) => FavMeters'
  BY DEF FavMeters
<1>12. favsAsked < FavRequests => favsAsked + 1 \in 0 .. FavRequests
  BY FavAssumption DEF FavMeters
<1>13. ASSUME NEW w \in FavWorker,
              \/ \E f \in Folder : \/ Create(w, f) \/ DeleteFolderReads(w, f)
                                   \/ \E r \in Favoured : RemoveReads(w, r, f)
              \/ \E r \in Favoured :
                   NeedsDefault(w, r) \/ \E f \in Folder \cup {NoFolder} : AddChecks(w, r, f)
       PROVE  FavMeters'
  BY <1>1, <1>4, <1>11, <1>12, <1>13
<1>14. ASSUME NEW w \in FavWorker, AddEnds(w) \/ AddInserts(w) \/ RemoveDeletes(w)
       PROVE  FavMeters'
  BY <1>1, <1>5, <1>11, <1>14
<1>15. ASSUME NEW w \in FavWorker, NEW f \in Folder, CreatesDefault(w, f)
       PROVE  FavMeters'
  BY <1>6, <1>11, <1>15
<1> QED BY <1>7, <1>8, <1>9, <1>10, <1>13, <1>14, <1>15, Zenon DEF FavNext

LEMMA FavsTyped == FavSpec => []FavTypeOK
<1>1. FavInit => FavMeters
  BY FavAssumption DEF FavInit, FavMeters, Favoured
<1>2. FavInv /\ FavMeters => FavTypeOK
  BY DEF FavInv, FavTypes, FavMeters, FavTypeOK
<1> QED BY <1>1, <1>2, FavMetersNext, FavInvInit, FavInvNext, PTL DEF FavSpec

ViewMeters == gone \in BOOLEAN /\ stops \in 0 .. ViewStops

LEMMA ViewMetersNext == ViewMeters /\ [ViewsNext]_viewVars => ViewMeters'
<1> SUFFICES ASSUME ViewMeters, [ViewsNext]_viewVars PROVE ViewMeters'
  OBVIOUS
<1>1. ASSUME NEW v \in Visit,
             \/ \E sent \in BOOLEAN : Visits(v, sent)
             \/ \E w \in ViewWorker, n \in Tries : Delivers(w, v, n)
      PROVE  UNCHANGED <<gone, stops>>
  BY <1>1, Zenon DEF Visits, Delivers
<1>2. ASSUME NEW w \in ViewWorker,
             \/ \E answer \in {"yes", "no", "unknown"} : ViewChecks(w, answer)
             \/ ViewCommits(w) \/ ViewBreaks(w) \/ ViewFails(w)
             \/ \E sent \in BOOLEAN : Republishes(w, sent)
             \/ Acks(w)
      PROVE  UNCHANGED <<gone, stops>>
  BY <1>2, Zenon DEF ViewChecks, ViewCommits, ViewBreaks, ViewFails, Republishes, Acks
<1>3. CASE Stops
  BY <1>3, ViewAssumption DEF Stops, ViewMeters
<1>4. CASE Vanishes
  BY <1>4 DEF Vanishes, ViewMeters
<1>5. NextDay \/ UNCHANGED viewVars => UNCHANGED <<gone, stops>>
  BY Zenon DEF NextDay, viewVars
<1>6. UNCHANGED <<gone, stops>> => ViewMeters'
  BY DEF ViewMeters
<1> QED BY <1>1, <1>2, <1>3, <1>4, <1>5, <1>6, Zenon DEF ViewsNext

LEMMA ViewsTyped == ViewsSpec => []ViewsTypeOK
<1>1. ViewsInit => ViewMeters
  <2>1. ViewsInit => gone \in BOOLEAN
    BY Zenon DEF ViewsInit
  <2>2. ViewsInit => stops \in 0 .. ViewStops
    BY ViewAssumption DEF ViewsInit
  <2> QED BY <2>1, <2>2 DEF ViewMeters
<1>2. ViewInv /\ ViewMeters => ViewsTypeOK
  BY DEF ViewInv, ViewTypes, ViewMeters, ViewsTypeOK
<1> QED BY <1>1, <1>2, ViewMetersNext, ViewsBegin, ViewsKeep, PTL DEF ViewsSpec

LEMMA GateTyped == GateSpec => []GateTypeOK
<1>1. GateInv => GateTypeOK
  BY DEF GateInv, Around, Asked, Request, States, GateTypeOK
<1> QED BY <1>1, GateInvInit, GateInvNext, PTL DEF GateSpec

ConfigMeters ==
  /\ tick <= LastTick /\ saving \subseteq Process /\ writes \in 0 .. ConfigWrites
  /\ \A r \in Reader : configRead[r].step \in {"idle", "reads", "keeps"}

LEMMA ConfigMetersNext == ConfigInv /\ ConfigMeters /\ [ConfigNext]_configVars => ConfigMeters'
<1> SUFFICES ASSUME ConfigInv, ConfigMeters, [ConfigNext]_configVars PROVE ConfigMeters'
  OBVIOUS
<1>1. tick \in Nat /\ configRead = [r \in Reader |-> configRead[r]]
  BY DEF ConfigInv, Clocks, Reads
<1>2. ASSUME NEW p \in Process,
             (\E value \in ValidValues : UpdatesConfig(p, value)) \/ Invalidates(p)
      PROVE  ConfigMeters'
  BY <1>2, ConfigAssumption DEF UpdatesConfig, Invalidates, ConfigMeters
<1>3. ASSUME NEW r \in Reader, NEW s, configRead' = [configRead EXCEPT ![r] = s],
             s.step \in {"idle", "reads", "keeps"}, UNCHANGED <<tick, saving, writes>>
      PROVE  ConfigMeters'
  BY <1>1, <1>3 DEF ConfigMeters
<1>4. ASSUME NEW p \in Process, NEW r \in Reader, LooksUp(r, p)
      PROVE  ConfigMeters'
  <2>1. UNCHANGED configRead => ConfigMeters'
    BY <1>4 DEF LooksUp, ConfigMeters
  <2>2. [step |-> "reads", process |-> p, stamp |-> tick].step = "reads"
    OBVIOUS
  <2> QED BY <1>3, <1>4, <2>1, <2>2 DEF LooksUp
<1>5. ASSUME NEW r \in Reader, Keeps(r)
      PROVE  ConfigMeters'
  <2>1. configRead' = [configRead EXCEPT ![r] = NoRead] /\ UNCHANGED <<tick, saving, writes>>
    BY <1>5, Zenon DEF Keeps
  <2>2. NoRead.step = "idle"
    BY DEF NoRead
  <2> QED BY <1>3, <2>1, <2>2
<1>6. ASSUME NEW r \in Reader, NEW fails \in BOOLEAN, ReadsRowOfConfig(r, fails)
      PROVE  ConfigMeters'
  <2>1. PICK s : s = [step |-> "keeps", process |-> configRead[r].process,
                      stamp |-> configRead[r].stamp,
                      value |-> IF fails THEN "none" ELSE configRow]
    OBVIOUS
  <2>2. configRead' = [configRead EXCEPT ![r] = s] /\ UNCHANGED <<tick, saving, writes>>
    BY <1>6, <2>1, Zenon DEF ReadsRowOfConfig
  <2>3. s.step = "keeps"
    BY <2>1
  <2> QED BY <1>3, <2>2, <2>3
<1>7. CASE Ticks
  BY <1>1, <1>7, ConfigAssumption DEF Ticks, ConfigMeters
<1>8. CASE UNCHANGED configVars
  BY <1>8 DEF configVars, ConfigMeters
<1> QED BY <1>2, <1>4, <1>5, <1>6, <1>7, <1>8, Zenon DEF ConfigNext

LEMMA ConfigsTyped == ConfigSpec => []ConfigTypeOK
<1>1. ConfigInit => ConfigMeters
  BY ConfigAssumption DEF ConfigInit, ConfigMeters, NoRead
<1>2. ConfigInv /\ ConfigMeters => ConfigTypeOK
  <2> SUFFICES ASSUME ConfigInv, ConfigMeters PROVE ConfigTypeOK
    OBVIOUS
  <2>1. /\ tick \in 0 .. LastTick /\ configRow \in RowValues
        /\ \A p \in Process : configCopy[p].value \in RowValues
    BY ConfigAssumption DEF ConfigInv, Clocks, Copies, ConfigMeters
  <2>2. used.value \in ValidValues \cup {"none"}
    BY DEF ConfigInv, Use, NotUsed, Validated, ValidValues
  <2> QED BY <2>1, <2>2 DEF ConfigMeters, ConfigTypeOK
<1> QED BY <1>1, <1>2, ConfigMetersNext, ConfigInvInit, ConfigInvNext, PTL DEF ConfigSpec

\* Every request under way has room for what it will store.
LimitMeters ==
  /\ instant <= LastMoment /\ excess \in BOOLEAN
  /\ Len(posts) + Cardinality(Busy) <= PostRequests

LEMMA LimitMetersNext == LimitsInv /\ LimitMeters /\ [LimitsNext]_limitVars => LimitMeters'
<1> SUFFICES ASSUME LimitsInv, LimitMeters, [LimitsNext]_limitVars PROVE LimitMeters'
  OBVIOUS
<1>1. LimitsTypes
  BY DEF LimitsInv
<1>2. /\ instant \in Nat /\ posts \in Seq(Post) /\ Len(posts) \in Nat
      /\ DOMAIN asking = Author
  BY <1>1 DEF LimitsTypes
<1>3. IsFiniteSet(Busy) /\ Cardinality(Busy) \in Nat
  BY LimitAssumption, FS_Subset, FS_CardinalityType DEF Busy
<1>4. \A S : /\ S \subseteq Busy => Cardinality(S) <= Cardinality(Busy)
             /\ \A a : S \subseteq Busy \cup {a} => Cardinality(S) <= Cardinality(Busy) + 1
             /\ \A a \in Busy : S \subseteq Busy \ {a} =>
                  Cardinality(S) <= Cardinality(Busy) - 1
             /\ S \subseteq Author => Cardinality(S) \in Nat
  <2> TAKE S
  <2>1. S \subseteq Author => Cardinality(S) \in Nat
    BY LimitAssumption, FS_Subset, FS_CardinalityType
  <2>2. S \subseteq Busy => Cardinality(S) <= Cardinality(Busy)
    BY <1>3, FS_Subset
  <2>3. ASSUME NEW a, S \subseteq Busy \cup {a}
        PROVE  Cardinality(S) <= Cardinality(Busy) + 1
    <3>1. /\ IsFiniteSet(Busy \cup {a})
          /\ Cardinality(Busy \cup {a})
               = IF a \in Busy THEN Cardinality(Busy) ELSE Cardinality(Busy) + 1
      BY <1>3, FS_AddElement
    <3>2. Cardinality(S) <= Cardinality(Busy \cup {a})
      BY <2>3, <3>1, FS_Subset
    <3>3. IsFiniteSet(S) /\ Cardinality(S) \in Nat
      BY <2>3, <3>1, FS_Subset, FS_CardinalityType
    <3> QED BY <1>3, <3>1, <3>2, <3>3
  <2>4. ASSUME NEW a \in Busy, S \subseteq Busy \ {a}
        PROVE  Cardinality(S) <= Cardinality(Busy) - 1
    <3>1. IsFiniteSet(Busy \ {a}) /\ Cardinality(Busy \ {a}) = Cardinality(Busy) - 1
      BY <1>3, FS_RemoveElement
    <3> QED BY <2>4, <3>1, FS_Subset
  <2> QED BY <2>1, <2>2, <2>3, <2>4
<1>5. Busy' \subseteq Author
  BY DEF Busy
<1>6. PICK B : B = Busy'
  OBVIOUS
<1>7. B \subseteq Author /\ Cardinality(B) \in Nat
  BY <1>4, <1>5, <1>6
<1>8. ASSUME NEW a \in Author, NEW kind, NEW s, Asks(a, kind), Moves(a, s)
      PROVE  LimitMeters'
  <2>1. B \subseteq Busy \cup {a}
    BY <1>2, <1>6, <1>8 DEF Moves, Busy
  <2>2. Cardinality(B) <= Cardinality(Busy) + 1
    BY <1>4, <2>1
  <2>3. Len(posts) + Cardinality(Busy) < PostRequests /\ UNCHANGED <<instant, posts, excess>>
    BY <1>8 DEF Asks
  <2>4. Len(posts') + Cardinality(Busy') <= PostRequests
    BY <1>2, <1>3, <1>6, <1>7, <2>2, <2>3, LimitAssumption
  <2> QED BY <2>3, <2>4 DEF LimitMeters
<1>9. ASSUME NEW a \in Author, ChecksRate(a)
      PROVE  LimitMeters'
  <2>1. asking[a] # NotAsking
    BY <1>9 DEF ChecksRate, NotAsking
  <2>2. B \subseteq Busy
    BY <1>2, <1>6, <1>9, <2>1 DEF ChecksRate, Moves, Busy
  <2>3. Cardinality(B) <= Cardinality(Busy)
    BY <1>4, <2>2
  <2>4. UNCHANGED <<instant, posts, excess>>
    BY <1>9 DEF ChecksRate
  <2>5. Len(posts') + Cardinality(Busy') <= PostRequests
    BY <1>2, <1>3, <1>6, <1>7, <2>3, <2>4, LimitAssumption DEF LimitMeters
  <2> QED BY <2>4, <2>5 DEF LimitMeters
<1>10. ASSUME NEW a \in Author, StoresPost(a)
       PROVE  LimitMeters'
  <2>1. a \in Busy
    BY <1>10 DEF StoresPost, NotAsking, Busy
  <2>2. B \subseteq Busy \ {a}
    BY <1>2, <1>6, <1>10 DEF StoresPost, Busy
  <2>3. Cardinality(B) <= Cardinality(Busy) - 1
    BY <1>4, <2>1, <2>2
  <2>4. PICK row : posts' = Append(posts, row)
    BY <1>10 DEF StoresPost
  <2>5. Len(posts') = Len(posts) + 1
    BY <1>2, <2>4
  <2>6. Len(posts') + Cardinality(Busy') <= PostRequests
    BY <1>2, <1>3, <1>6, <1>7, <2>3, <2>5, LimitAssumption DEF LimitMeters
  <2>7. excess' \in BOOLEAN
    BY <1>10, Zenon DEF StoresPost
  <2>8. instant' = instant
    BY <1>10 DEF StoresPost
  <2> QED BY <2>6, <2>7, <2>8 DEF LimitMeters
<1>11. ASSUME NEW i \in DOMAIN posts, DeletesPost(i)
       PROVE  LimitMeters'
  <2>1. Len(posts') = Len(posts)
    BY <1>2, <1>11 DEF DeletesPost
  <2>2. UNCHANGED <<instant, asking, excess>>
    BY <1>11 DEF DeletesPost
  <2> QED BY <2>1, <2>2 DEF LimitMeters, Busy
<1>12. CASE TimePasses
  BY <1>2, <1>12, LimitAssumption DEF TimePasses, LimitMeters, Busy
<1>13. CASE UNCHANGED limitVars
  BY <1>13 DEF limitVars, LimitMeters, Busy
<1>14. ASSUME NEW a \in Author,
              \/ \E kind \in CommentKinds, text \in Text,
                    rules \in {DefaultRules, OtherRules} : AsksToComment(a, kind, text, rules)
              \/ \E text \in Text : AsksToPublish(a, text) \/ AsksForTopic(a, text)
       PROVE  LimitMeters'
  BY <1>8, <1>14, Zenon DEF AsksToComment, AsksToPublish, AsksForTopic
<1> QED BY <1>9, <1>10, <1>11, <1>12, <1>13, <1>14, Zenon DEF LimitsNext

LEMMA LimitsTyped == LimitsSpec => []LimitsTypeOK
<1>1. LimitsInit => LimitMeters
  <2> SUFFICES ASSUME LimitsInit PROVE LimitMeters
    OBVIOUS
  <2>1. Busy = {}
    BY DEF LimitsInit, Busy
  <2>2. Cardinality(Busy) = 0 /\ Len(posts) = 0
    BY <2>1, FS_EmptySet DEF LimitsInit
  <2>3. excess \in BOOLEAN
    BY Zenon DEF LimitsInit
  <2> QED BY <2>2, <2>3, LimitAssumption DEF LimitsInit, LimitMeters
<1>2. LimitsInv /\ LimitMeters => LimitsTypeOK
  <2> SUFFICES ASSUME LimitsInv, LimitMeters PROVE LimitsTypeOK
    OBVIOUS
  <2>1. LimitsTypes
    BY DEF LimitsInv
  <2>2. IsFiniteSet(Busy) /\ Cardinality(Busy) \in Nat
    BY LimitAssumption, FS_Subset, FS_CardinalityType DEF Busy
  <2>3. Len(posts) <= PostRequests
    BY <2>1, <2>2, LimitAssumption DEF LimitsTypes, LimitMeters
  <2>4. \A i \in DOMAIN posts : posts[i].kind \in Kinds /\ posts[i].text \in Text
    <3> SUFFICES ASSUME NEW i \in DOMAIN posts
                 PROVE  posts[i].kind \in Kinds /\ posts[i].text \in Text
      OBVIOUS
    <3>1. posts \in Seq(Post)
      BY <2>1 DEF LimitsTypes
    <3>2. posts[i] \in Post
      BY <3>1
    <3> QED BY <3>2 DEF Post
  <2>5. \A a \in Author : asking[a].phase \in {"idle", "counting", "storing"}
    BY <2>1 DEF LimitsTypes, NotAsking, Counting, Storing
  <2>6. instant \in 0 .. LastMoment
    BY <2>1, LimitAssumption DEF LimitsTypes, LimitMeters
  <2> QED BY <2>3, <2>4, <2>5, <2>6 DEF LimitMeters, LimitsTypeOK
<1> QED BY <1>1, <1>2, LimitMetersNext, LimitsInvInit, LimitsInvNext, PTL DEF LimitsSpec

\* The variables of MCCounters.
countersVars == <<part, areaVars, momentVars, followVars, markVars, favVars,
                  viewVars, gateVars, configVars, limitVars>>

LEMMA CountersRunArea == CountersSpec => AreaSpec
<1>1. CountersInit => AreaInit
  BY Zenon DEF CountersInit
<1>2. [CountersNext]_countersVars => [AreaNext]_areaVars
  BY Zenon DEF CountersNext, countersVars, NoCounter, NoArea
<1> QED BY <1>1, <1>2, PTL DEF CountersSpec, AreaSpec, countersVars

LEMMA CountersRunMoments == CountersSpec => MomentsSpec
<1>1. CountersInit => MomentsInit
  BY Zenon DEF CountersInit
<1>2. [CountersNext]_countersVars => [MomentsNext]_momentVars
  BY Zenon DEF CountersNext, countersVars, NoCounter, NoMoments
<1> QED BY <1>1, <1>2, PTL DEF CountersSpec, MomentsSpec, countersVars

LEMMA CountersRunFollows == CountersSpec => FollowSpec
<1>1. CountersInit => FollowInit
  BY Zenon DEF CountersInit
<1>2. [CountersNext]_countersVars => [FollowNext]_followVars
  BY Zenon DEF CountersNext, countersVars, NoCounter, NoFollows
<1> QED BY <1>1, <1>2, PTL DEF CountersSpec, FollowSpec, countersVars

LEMMA CountersRunMarks == CountersSpec => MarksSpec
<1>1. CountersInit => MarksInit
  BY Zenon DEF CountersInit
<1>2. [CountersNext]_countersVars => [MarksNext]_markVars
  BY Zenon DEF CountersNext, countersVars, NoCounter, NoMarks
<1> QED BY <1>1, <1>2, PTL DEF CountersSpec, MarksSpec, countersVars

LEMMA CountersRunFavs == CountersSpec => FavSpec
<1>1. CountersInit => FavInit
  BY Zenon DEF CountersInit
<1>2. [CountersNext]_countersVars => [FavNext]_favVars
  BY Zenon DEF CountersNext, countersVars, NoCounter, NoFavs
<1> QED BY <1>1, <1>2, PTL DEF CountersSpec, FavSpec, countersVars

LEMMA CountersRunViews == CountersSpec => ViewsSpec
<1>1. CountersInit => ViewsInit
  BY Zenon DEF CountersInit
<1>2. [CountersNext]_countersVars => [ViewsNext]_viewVars
  BY Zenon DEF CountersNext, countersVars, NoCounter, NoViews
<1> QED BY <1>1, <1>2, PTL DEF CountersSpec, ViewsSpec, countersVars

LEMMA CountersRunGate == CountersSpec => GateSpec
<1>1. CountersInit => GateInit
  BY Zenon DEF CountersInit
<1>2. [CountersNext]_countersVars => [GateNext]_gateVars
  BY Zenon DEF CountersNext, countersVars, NoGuard, NoGate
<1> QED BY <1>1, <1>2, PTL DEF CountersSpec, GateSpec, countersVars

LEMMA CountersRunConfig == CountersSpec => ConfigSpec
<1>1. CountersInit => ConfigInit
  BY Zenon DEF CountersInit
<1>2. [CountersNext]_countersVars => [ConfigNext]_configVars
  BY Zenon DEF CountersNext, countersVars, NoGuard, NoConfig
<1> QED BY <1>1, <1>2, PTL DEF CountersSpec, ConfigSpec, countersVars

LEMMA CountersRunLimits == CountersSpec => LimitsSpec
<1>1. CountersInit => LimitsInit
  BY Zenon DEF CountersInit
<1>2. [CountersNext]_countersVars => [LimitsNext]_limitVars
  BY Zenon DEF CountersNext, countersVars, NoGuard, NoLimits
<1> QED BY <1>1, <1>2, PTL DEF CountersSpec, LimitsSpec, countersVars

\* The variables of what keeps a counter or a copy, of the gate, the configuration
\* and the limits keep their types: rows, requests and copies hold what their
\* tables and handlers can put there, counters are natural numbers.
THEOREM CountersAreTyped == CountersSpec => []CountersTypeOK
<1>1. AreaTypeOK /\ MomentsTypeOK /\ FollowTypeOK /\ MarksTypeOK /\ FavTypeOK
        /\ ViewsTypeOK /\ GateTypeOK /\ ConfigTypeOK /\ LimitsTypeOK => CountersTypeOK
  BY DEF CountersTypeOK
<1>2. CountersSpec => []AreaTypeOK /\ []MomentsTypeOK /\ []FollowTypeOK /\ []MarksTypeOK
                        /\ []FavTypeOK
  BY CountersRunArea, CountersRunMoments, CountersRunFollows, CountersRunMarks,
     CountersRunFavs, AreaTyped, MomentsTyped, FollowsTyped, MarksTyped, FavsTyped
<1>3. CountersSpec => []ViewsTypeOK /\ []GateTypeOK /\ []ConfigTypeOK /\ []LimitsTypeOK
  BY CountersRunViews, CountersRunGate, CountersRunConfig, CountersRunLimits,
     ViewsTyped, GateTyped, ConfigsTyped, LimitsTyped
<1> QED BY <1>1, <1>2, <1>3, PTL

=============================================================================
