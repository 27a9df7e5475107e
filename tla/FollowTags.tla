----------------------------- MODULE FollowTags -----------------------------
(***************************************************************************)
(* Following, blocking and the groups a user sorts the followed into.      *)
(*                                                                         *)
(* follow, assign and create_tag check in one statement and write in a     *)
(* later one; unfollow, block, unblock and delete_tag are one transaction  *)
(* each.  A transaction that deletes group rows holds them until it        *)
(* commits.                                                                *)
(***************************************************************************)
EXTENDS Integers, FiniteSets

CONSTANTS User, Tag,        \* users; the groups that can be created
          Special, Default, \* the built-in groups; no row is in the default
          MaxUserTags,      \* MAX_USER_TAGS
          FollowWorker,     \* requests served at the same time
          FollowRequests    \* bound: requests of a behaviour

NoOne == "nobody"           \* the owner of a group not created yet
Gone == "deleted"

ASSUME FollowAssumption == /\ Special \notin Tag
                           /\ Default \notin Tag \cup {Special}
                           /\ {NoOne, Gone} \cap User = {}
                           /\ IsFiniteSet(FollowWorker) /\ FollowWorker # {}
                           /\ MaxUserTags \in Nat
                           /\ FollowRequests \in Nat

VARIABLES
  relation,    \* msg_user_follow: the status of u -> v
  tagOwner,    \* msg_user_follow_tag: who owns a group
  member,      \* msg_user_follow_tag_user: <<owner, group, followed>>
  lastAsked,   \* history: the groups the last request left a target in
  followJob,   \* what each worker has checked and is to write
  mishap,      \* history: the known ways to go wrong that were met
  followsAsked \* requests so far

followVars == <<relation, tagOwner, member, lastAsked, followJob, mishap,
                followsAsked>>

Pairs == {p \in User \X User : p[1] # p[2]}
Group == Tag \cup {Special}

\* crossed: a block was committed between the check and the write of follow.
\* ghost: the target was unfollowed, tagGone: a group was deleted, between the
\* check and the write of assign.  merged: two assignments of one target, each
\* of which cleared what it saw.
Mishap == {"crossed", "ghost", "tagGone", "merged"}

NoRequest == [op |-> "idle"]

FollowTypeOK ==
  /\ relation \in [Pairs -> {"none", "following", "blocked"}]
  /\ tagOwner \in [Tag -> User \cup {NoOne, Gone}]
  /\ member \subseteq User \X Group \X User
  /\ lastAsked \in [Pairs -> SUBSET Group]
  /\ DOMAIN followJob = FollowWorker
  /\ mishap \subseteq Mishap
  /\ followsAsked \in 0 .. FollowRequests

FollowInit ==
  /\ relation = [p \in Pairs |-> "none"]
  /\ tagOwner = [t \in Tag |-> NoOne]
  /\ member = {}
  /\ lastAsked = [p \in Pairs |-> {}]
  /\ followJob = [w \in FollowWorker |-> NoRequest]
  /\ mishap = {}
  /\ followsAsked = 0

-----------------------------------------------------------------------------

Following(u) == {v \in User \ {u} : relation[<<u, v>>] = "following"}
OwnTags(u) == {t \in Tag : tagOwner[t] = u}
RowsOf(u, v) == {r \in member : r[1] = u /\ r[3] = v}
RowsIn(t) == {r \in member : r[2] = t}

\* Rows a worker has deleted and not committed yet.
Locked == UNION {followJob[w].cleared :
                   w \in {x \in FollowWorker : followJob[x].op = "insert"}}

Ask == /\ followsAsked < FollowRequests
       /\ followsAsked' = followsAsked + 1

Begin(w, job) ==
  /\ followJob[w] = NoRequest
  /\ Ask
  /\ followJob' = [followJob EXCEPT ![w] = job]
  /\ UNCHANGED <<relation, tagOwner, member, lastAsked, mishap>>

End(w) == followJob' = [followJob EXCEPT ![w] = NoRequest]

\* What get_counts and list_tags count, and membership_of shows.  The list of the
\* default group leaves out only rows of that group, of which there are none: it
\* is the list of everybody.
Followers(u) == {v \in User \ {u} : relation[<<v, u>>] = "following"}
MutualMids(u) == Following(u) \cap Followers(u)
TagMembers(u, t) == {v \in Following(u) : <<u, t, v>> \in member}
DefaultGroup(u) == {v \in Following(u) : RowsOf(u, v) = {}}
ListedGroups(u) == OwnTags(u) \cup {Special}

-----------------------------------------------------------------------------
(* FollowService *)

NotBlockedBy(p) == relation[<<p[2], p[1]>>] # "blocked"

FollowChecks(w, p) ==
  /\ NotBlockedBy(p)
  /\ Begin(w, [op |-> "follow", p |-> p])

\* An upsert: what was blocked becomes following.
FollowWrites(w) ==
  LET p == followJob[w].p
  IN /\ followJob[w].op = "follow"
     /\ relation' = [relation EXCEPT ![p] = "following"]
     /\ mishap' = mishap \cup IF relation[<<p[2], p[1]>>] = "blocked"
                              THEN {"crossed"} ELSE {}
     /\ End(w)
     /\ UNCHANGED <<tagOwner, member, lastAsked, followsAsked>>

\* Seeded bug: the groups keep who is unfollowed.
ClearNone(p) == {}

ClearTarget(p) == RowsOf(p[1], p[2])

Unfollow(p) ==
  /\ RowsOf(p[1], p[2]) \cap Locked = {}
  /\ Ask
  /\ relation' = [relation EXCEPT ![p] = IF @ = "following" THEN "none" ELSE @]
  /\ member' = member \ ClearTarget(p)
  /\ lastAsked' = [lastAsked EXCEPT ![p] = {}]
  /\ UNCHANGED <<tagOwner, followJob, mishap>>

Block(p) ==
  LET q == <<p[2], p[1]>>
  IN /\ (RowsOf(p[1], p[2]) \cup RowsOf(p[2], p[1])) \cap Locked = {}
     /\ Ask
     /\ relation' = [relation EXCEPT
                       ![p] = "blocked",
                       ![q] = IF @ = "following" THEN "none" ELSE @]
     /\ member' = member \ (ClearTarget(p) \cup ClearTarget(q))
     /\ lastAsked' = [lastAsked EXCEPT ![p] = {}, ![q] = {}]
     /\ UNCHANGED <<tagOwner, followJob, mishap>>

Unblock(p) ==
  /\ Ask
  /\ relation' = [relation EXCEPT ![p] = IF @ = "blocked" THEN "none" ELSE @]
  /\ UNCHANGED <<tagOwner, member, lastAsked, followJob, mishap>>

-----------------------------------------------------------------------------
(* FollowTagService *)

CreateLimit == MaxUserTags

CreateChecks(w, u) ==
  /\ Cardinality(OwnTags(u)) < CreateLimit
  /\ Begin(w, [op |-> "create", u |-> u])

CreateWrites(w, t) ==
  /\ followJob[w].op = "create"
  /\ tagOwner[t] = NoOne
  /\ tagOwner' = [tagOwner EXCEPT ![t] = followJob[w].u]
  /\ End(w)
  /\ UNCHANGED <<relation, member, lastAsked, mishap, followsAsked>>

DeletedRows(t) == RowsIn(t)

DeleteTag(t) ==
  /\ tagOwner[t] \in User
  /\ RowsIn(t) \cap Locked = {}
  /\ Ask
  /\ tagOwner' = [tagOwner EXCEPT ![t] = Gone]
  /\ member' = member \ DeletedRows(t)
  /\ lastAsked' = [p \in Pairs |-> lastAsked[p] \ {t}]
  /\ UNCHANGED <<relation, followJob, mishap>>

Followed(p) == relation[p] = "following"

Wanted(ts) == ts \ {Default}

AssignChecks(w, p, ts) ==
  /\ Followed(p)
  /\ ts \ {Default} \subseteq ListedGroups(p[1])
  /\ Begin(w, [op |-> "assign", p |-> p, wanted |-> Wanted(ts)])

\* clear_target: the rows are deleted, and locked until the commit.
AssignClears(w) ==
  LET j == followJob[w]
  IN /\ j.op = "assign"
     /\ RowsOf(j.p[1], j.p[2]) \cap Locked = {}
     /\ followJob' = [followJob EXCEPT
                        ![w] = [op |-> "insert", p |-> j.p, wanted |-> j.wanted,
                                cleared |-> ClearTarget(j.p)]]
     /\ UNCHANGED <<relation, tagOwner, member, lastAsked, mishap, followsAsked>>

\* A row that is there already violates uq(mid, tag_id, target_mid): the
\* request fails and the clearing is rolled back.
AssignInserts(w) ==
  LET j == followJob[w]
      rows == {<<j.p[1], t, j.p[2]>> : t \in j.wanted}
      left == member \ j.cleared
  IN /\ j.op = "insert"
     /\ IF rows \cap left # {}
        THEN UNCHANGED <<member, lastAsked, mishap>>
        ELSE /\ member' = left \cup rows
             /\ lastAsked' = [lastAsked EXCEPT ![j.p] = j.wanted]
             /\ mishap' = mishap
                  \cup (IF ~Followed(j.p) /\ rows # {} THEN {"ghost"} ELSE {})
                  \cup (IF j.wanted \subseteq ListedGroups(j.p[1])
                        THEN {} ELSE {"tagGone"})
                  \cup (IF RowsOf(j.p[1], j.p[2]) = j.cleared
                        THEN {} ELSE {"merged"})
     /\ End(w)
     /\ UNCHANGED <<relation, tagOwner, followsAsked>>

-----------------------------------------------------------------------------

FollowNext ==
  \/ \E p \in Pairs : Unfollow(p) \/ Block(p) \/ Unblock(p)
  \/ \E t \in Tag : DeleteTag(t)
  \/ \E w \in FollowWorker :
       \/ \E p \in Pairs : \/ FollowChecks(w, p)
                           \/ \E ts \in SUBSET (Group \cup {Default}) :
                                AssignChecks(w, p, ts)
       \/ FollowWrites(w)
       \/ \E u \in User : CreateChecks(w, u)
       \/ \E t \in Tag : CreateWrites(w, t)
       \/ AssignClears(w)
       \/ AssignInserts(w)

FollowSpec == FollowInit /\ [][FollowNext]_followVars

-----------------------------------------------------------------------------
(* Properties. *)

\* Who blocked a user is not followed by that user (the docstring of block),
\* unless the block came between the check and the write of a follow.
BlockerNotFollowed ==
  "crossed" \notin mishap
    => \A p \in Pairs : ~(/\ relation[p] = "blocked"
                          /\ relation[<<p[2], p[1]>>] = "following")

\* A group holds only people its owner follows, unless one was unfollowed in
\* the middle of an assignment.
GroupsHoldFollowed ==
  "ghost" \notin mishap => \A r \in member : r[3] \in Following(r[1])

\* Everybody a user follows is counted in the default group or in a listed one,
\* unless a group was deleted in the middle of an assignment: the row left
\* behind then keeps the person out of every count.
NobodyLost ==
  "tagGone" \notin mishap
    => \A u \in User :
         Following(u) = DefaultGroup(u)
                          \cup UNION {TagMembers(u, t) : t \in ListedGroups(u)}

\* An assignment covers the previous one (the docstring of assign), unless
\* two of them ran at the same time and each cleared only what it saw.
AssignCovers ==
  "merged" \notin mishap
    => \A p \in Pairs : {r[2] : r \in RowsOf(p[1], p[2])} = lastAsked[p]

\* MAX_USER_TAGS is exceeded by no more than the requests that run at once.
TagLimit ==
  \A u \in User : Cardinality(OwnTags(u))
                    + Cardinality({w \in FollowWorker :
                                     /\ followJob[w].op = "create"
                                     /\ followJob[w].u = u})
                  <= MaxUserTags + Cardinality(FollowWorker) - 1

\* Follows, blocks and groups fit together, with the exact overlaps that break
\* each part (FollowService and FollowTagService, two requests at a time).
FollowsHold ==
  BlockerNotFollowed /\ GroupsHoldFollowed /\ NobodyLost /\ AssignCovers /\ TagLimit

=============================================================================
