------------------------------- MODULE Limits -------------------------------
(***************************************************************************)
(* Limits on what a user writes.  A comment is counted against the limit   *)
(* of the day and against the rules of the configuration, and stored in a  *)
(* later step; a moment or a topic has a limit of the day only.  Requests  *)
(* of one user overlap, he deletes what he wrote, and the configuration    *)
(* changes between them.                                                   *)
(***************************************************************************)
EXTENDS Integers, Sequences, FiniteSets

CONSTANTS
  Author,        \* requests of the user that may run at the same time
  Text,          \* what the user writes
  Window,        \* the window of the rules
  DayLength,     \* moments of a day
  DailyLimit,    \* comments, moments or topics of a day, 0 for any number
  LastMoment,    \* bound: the last instant of the clock
  PostRequests   \* bound: what is stored

ASSUME LimitAssumption ==
  /\ IsFiniteSet(Author)
  /\ {DailyLimit, LastMoment, PostRequests} \subseteq Nat
  /\ {Window, DayLength} \subseteq Nat \ {0}

VARIABLES
  instant,   \* the clock
  asking,    \* the requests under way
  posts,     \* what the user wrote, in the order they were stored
  excess     \* something exceeded a limit without an overlap

limitVars == <<instant, asking, posts, excess>>

CommentKinds == {"root", "reply"}
Kinds == CommentKinds \cup {"moment", "topic"}

\* Comments of either kind are rows of one table.
Table(kind) == IF kind \in CommentKinds THEN "comment" ELSE kind

NotAsking == [phase |-> "idle"]

\* Rules say how many comments there may be in a window, of the same text or
\* of any; these are two values that the configuration may have.
Rule(most, same) == [most |-> most, same |-> same]
DefaultRules == [root |-> {Rule(1, TRUE), Rule(2, FALSE)}, reply |-> {Rule(2, TRUE)}]
OtherRules == [root |-> {Rule(1, FALSE)}, reply |-> {}]

LimitsTypeOK ==
  /\ instant \in 0 .. LastMoment
  /\ \A a \in Author : asking[a].phase \in {"idle", "counting", "storing"}
  /\ Len(posts) <= PostRequests
  /\ \A i \in DOMAIN posts : posts[i].kind \in Kinds /\ posts[i].text \in Text
  /\ excess \in BOOLEAN

LimitsInit ==
  /\ instant = 0
  /\ asking = [a \in Author |-> NotAsking]
  /\ posts = <<>>
  /\ excess = FALSE

-----------------------------------------------------------------------------
(* Counts.                                                                 *)

DayOf(time) == time \div DayLength

\* Seeded bug: what was deleted does not count.
CountCreatedTodayLeft(kind) ==
  Cardinality({i \in DOMAIN posts : /\ Table(posts[i].kind) = Table(kind)
                                   /\ DayOf(posts[i].at) = DayOf(instant)
                                   /\ ~posts[i].deleted})

\* What was deleted keeps its row, and counts.
CountCreatedToday(kind) ==
  Cardinality({i \in DOMAIN posts : /\ Table(posts[i].kind) = Table(kind)
                                   /\ DayOf(posts[i].at) = DayOf(instant)})

\* The comments of the kind in the window.
RecentPosts(kind) ==
  {i \in DOMAIN posts : posts[i].at >= instant - Window /\ posts[i].kind = kind}

Reaches(rule, kind, text) ==
  Cardinality({i \in RecentPosts(kind) : rule.same => posts[i].text = text})
    >= rule.most

-----------------------------------------------------------------------------
(* A comment, a moment, a topic.                                           *)

Moves(a, changed) == asking' = [asking EXCEPT ![a] = changed]
Busy == {a \in Author : asking[a] # NotAsking}

Asks(a, kind) ==
  /\ asking[a] = NotAsking /\ Len(posts) + Cardinality(Busy) < PostRequests
  /\ DailyLimit > 0 => CountCreatedToday(kind) < DailyLimit
  /\ UNCHANGED <<instant, posts, excess>>

\* _check_comment_daily_limit; the rules are read after it.
AsksToComment(a, kind, text, rules) ==
  /\ Asks(a, kind)
  /\ Moves(a, [phase |-> "counting", kind |-> kind, text |-> text, rules |-> rules,
               raced |-> FALSE])

\* A moment that is no forward, and a topic, have no rules.
AsksToPublish(a, text) ==
  /\ Asks(a, "moment")
  /\ Moves(a, [phase |-> "storing", kind |-> "moment", text |-> text, raced |-> FALSE])

AsksForTopic(a, text) ==
  /\ Asks(a, "topic")
  /\ Moves(a, [phase |-> "storing", kind |-> "topic", text |-> text, raced |-> FALSE])

ChecksRate(a) ==
  /\ asking[a].phase = "counting"
  /\ IF \E rule \in asking[a].rules[asking[a].kind] :
          Reaches(rule, asking[a].kind, asking[a].text)
     THEN Moves(a, NotAsking)
     ELSE Moves(a, [asking[a] EXCEPT !.phase = "storing"])
  /\ UNCHANGED <<instant, posts, excess>>

\* Whether what is stored exceeds a limit, with its own rules and the rows
\* that are there now (for the properties).
Exceeds(request) ==
  \/ /\ request.kind \in CommentKinds
     /\ \E rule \in request.rules[request.kind] :
          Reaches(rule, request.kind, request.text)
  \/ /\ DailyLimit > 0
     /\ Cardinality({i \in DOMAIN posts : /\ Table(posts[i].kind) = Table(request.kind)
                                         /\ DayOf(posts[i].at) = DayOf(instant)})
          >= DailyLimit

StoresPost(a) ==
  /\ asking[a].phase = "storing"
  /\ posts' = Append(posts, [at |-> instant, kind |-> asking[a].kind,
                             text |-> asking[a].text, deleted |-> FALSE])
  /\ asking' = [b \in Author |->
                  IF b = a \/ asking[b] = NotAsking THEN NotAsking
                  ELSE [asking[b] EXCEPT !.raced = TRUE]]
  /\ excess' = (excess \/ (~asking[a].raced /\ Exceeds(asking[a])))
  /\ UNCHANGED instant

DeletesPost(i) ==
  /\ ~posts[i].deleted
  /\ posts' = [posts EXCEPT ![i].deleted = TRUE]
  /\ UNCHANGED <<instant, asking, excess>>

TimePasses ==
  /\ instant < LastMoment
  /\ instant' = instant + 1
  /\ UNCHANGED <<asking, posts, excess>>

LimitsNext ==
  \/ \E a \in Author :
       \/ \E kind \in CommentKinds, text \in Text,
             rules \in {DefaultRules, OtherRules} : AsksToComment(a, kind, text, rules)
       \/ \E text \in Text : AsksToPublish(a, text) \/ AsksForTopic(a, text)
       \/ ChecksRate(a) \/ StoresPost(a)
  \/ \E i \in DOMAIN posts : DeletesPost(i)
  \/ TimePasses

LimitsSpec == LimitsInit /\ [][LimitsNext]_limitVars

-----------------------------------------------------------------------------
(* Properties.                                                             *)

\* Nothing exceeds the rules it was checked by or the limit of its day,
\* what was deleted counted, unless another was stored while it was checked.
LimitsKept == ~excess

\* And then by no more than the requests that were checked at the same time.
ExcessBounded ==
  DailyLimit > 0 =>
    \A i \in DOMAIN posts :
      Cardinality({j \in 1 .. i : /\ Table(posts[j].kind) = Table(posts[i].kind)
                                 /\ DayOf(posts[j].at) = DayOf(posts[i].at)})
        < DailyLimit + Cardinality(Author)

\* The limits hold but for requests that overlap, and those exceed them by
\* less than their number (daily_limit.py, _check_rate_limit).
LimitsHold == LimitsKept /\ ExcessBounded

=============================================================================
