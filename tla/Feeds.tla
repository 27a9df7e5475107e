------------------------------- MODULE Feeds -------------------------------
(***************************************************************************)
(* The streams of moments a reader pages through, while moments are        *)
(* published, hidden, pinned and removed: by time with the id of the last  *)
(* moment as the cursor, the space of a user with the pinned moment first, *)
(* the forwards of a moment by page number, and the ranked streams, which  *)
(* leave out what the client has shown and, if a page is left then, what   *)
(* any client of the reader was served before.                             *)
(*                                                                         *)
(* A ranked page reads candidates and impressions, and records the         *)
(* impressions of what it serves in a later commit; its answer may be lost *)
(* on the way.                                                             *)
(***************************************************************************)
EXTENDS Integers, FiniteSets

CONSTANTS LastPost,        \* bound: the ids are 1 .. LastPost
          PageSize,
          MinCandidates,   \* max(page_size, recall_fallback_min_candidates)
          Client,          \* devices of one reader
          FeedPages,       \* bound: the pages of a behaviour
          FeedTurns        \* bound: what else happens, approvals aside

ASSUME FeedAssumption == /\ LastPost \in Nat /\ FeedPages \in Nat /\ FeedTurns \in Nat
                         /\ PageSize \in Nat \ {0} /\ MinCandidates \in Nat \ {0}

VARIABLES
  stream,      \* the stream of the behaviour
  post,        \* the status of each moment; orphan: removed, its feed row left
  pubTime,     \* the time of the publication, 0 before it
  outdated,    \* published before the window of the candidates
  pinned,      \* the pinned moment of the space, 0 if there is none
  wasPinned,   \* history: the moments pinned so far
  impressed,   \* served to the reader within the TTL
  client,      \* what each client has shown and where it stands
  page,        \* the ranked page each client waits for
  faults,      \* history: the known ways to go wrong that were met
  pages,       \* pages asked for so far
  turns        \* what else happened so far

postVars == <<post, pubTime, outdated, pinned, wasPinned>>
readerVars == <<client, page, pages>>
feedVars == <<stream, postVars, impressed, readerVars, faults, turns>>

PostId == 1 .. LastPost
Stream == {"time", "space", "forwards", "recommend", "topic"}
Scrolled == {"time", "space", "forwards"}

\* disorder: a moment was published after one with a larger id.  shift: one
\* appeared or went while a client was paging.  lost: an answer was lost.
\* elsewhere: what one client was served was impressed for another.  hole: a
\* page was rendered without a moment that was removed.
Fault == {"disorder", "shift", "lost", "elsewhere", "hole"}

NoClient == [got |-> {}, again |-> {}, missed |-> {}, due |-> {},
             cursor |-> 0, on |-> FALSE, ended |-> FALSE]
NoPage == [pool |-> {}, there |-> {}, cand |-> {}, step |-> "none"]

FeedsTypeOK ==
  /\ stream \in Stream
  /\ post \in [PostId -> {"auditing", "normal", "hidden", "orphan"}]
  /\ pubTime \in [PostId -> 0 .. LastPost]
  /\ outdated \subseteq {d \in PostId : pubTime[d] > 0}
  /\ pinned \in {0} \cup PostId /\ wasPinned \subseteq PostId
  /\ impressed \subseteq PostId
  /\ client \in [Client -> [got : SUBSET PostId, again : SUBSET PostId,
                            missed : SUBSET PostId, due : SUBSET PostId,
                            cursor : Nat, on : BOOLEAN, ended : BOOLEAN]]
  /\ page \in [Client -> [pool : SUBSET PostId, there : SUBSET PostId,
                          cand : SUBSET PostId, step : {"none", "read", "served"}]]
  /\ faults \subseteq Fault
  /\ pages \in 0 .. FeedPages /\ turns \in 0 .. FeedTurns

FeedsInit ==
  /\ stream \in Stream
  /\ post = [d \in PostId |-> "auditing"]
  /\ pubTime = [d \in PostId |-> 0] /\ outdated = {}
  /\ pinned = 0 /\ wasPinned = {} /\ impressed = {}
  /\ client = [c \in Client |-> NoClient]
  /\ page = [c \in Client |-> NoPage]
  /\ faults = {} /\ pages = 0 /\ turns = 0

-----------------------------------------------------------------------------
(* The moments; how a moment changes is modelled in Moments.               *)

Normal == {d \in PostId : post[d] = "normal"}
Published == {d \in PostId : pubTime[d] > 0}
Paging == \E c \in Client : client[c].on /\ ~client[c].ended
Shift == IF Paging /\ stream = "forwards" THEN {"shift"} ELSE {}

Turn == turns < FeedTurns /\ turns' = turns + 1

\* pubTime is the time of the approval; here its number among them.
ApprovesPost(d) ==
  /\ post[d] = "auditing"
  /\ post' = [post EXCEPT ![d] = "normal"]
  /\ pubTime' = [pubTime EXCEPT ![d] = Cardinality(Published) + 1]
  /\ faults' = faults \cup Shift
       \cup IF \E x \in Published : x > d THEN {"disorder"} ELSE {}
  /\ IF Paging THEN Turn ELSE UNCHANGED turns
  /\ UNCHANGED <<stream, outdated, pinned, wasPinned, impressed, readerVars>>

\* Hidden or deleted with its feed row, or removed from under it.
Leaves(d, how) ==
  /\ post[d] = "normal" /\ Turn
  /\ post' = [post EXCEPT ![d] = how]
  /\ pinned' = IF pinned = d THEN 0 ELSE pinned
  /\ faults' = faults \cup Shift
  /\ UNCHANGED <<stream, pubTime, outdated, wasPinned, impressed, readerVars>>

Pins(d) ==
  /\ stream = "space" /\ d \in Normal /\ pinned # d /\ Turn
  /\ pinned' = d /\ wasPinned' = wasPinned \cup {d}
  /\ UNCHANGED <<stream, post, pubTime, outdated, impressed, readerVars, faults>>

\* Time passes: the oldest moment leaves the window, an impression the TTL.
LeavesWindow ==
  /\ stream = "recommend" /\ Turn
  /\ \E d \in Published \ outdated :
       /\ \A x \in Published \ outdated : pubTime[d] <= pubTime[x]
       /\ outdated' = outdated \cup {d}
  /\ UNCHANGED <<stream, post, pubTime, pinned, wasPinned, impressed, readerVars, faults>>

ImpressionsExpire ==
  /\ impressed # {} /\ Turn
  /\ impressed' = {}
  /\ UNCHANGED <<stream, postVars, readerVars, faults>>

-----------------------------------------------------------------------------
(* Pages by a cursor or a number                                           *)

PastCursor(cursor) == {d \in Normal : cursor = 0 \/ d < cursor}

\* The visible moments the next page of the stream is cut from, and the first
\* of them that it shows.
RowsFrom(cursor) == IF stream = "forwards" THEN Normal ELSE PastCursor(cursor)
FirstRow(cursor) == IF stream = "forwards" THEN cursor * PageSize ELSE 0

\* The order: the latest first; in a space the largest id, the pinned moment
\* before all.
Rank(d) == IF stream # "space" THEN pubTime[d]
           ELSE IF d = pinned THEN LastPost + 1 ELSE d
Ahead(d, rows) == {x \in rows : Rank(x) > Rank(d)}

PageOf(rows, from) ==
  {d \in rows : /\ Cardinality(Ahead(d, rows)) >= from
                /\ Cardinality(Ahead(d, rows)) < from + PageSize}
LastOn(items) == CHOOSE d \in items : \A x \in items : Rank(d) <= Rank(x)

\* What the client was to see: the moments normal when it began that still are.
Shows(c, items, more, cursor) ==
  LET s == client[c]
      due == (IF s.on THEN s.due ELSE Normal) \cap Normal
      got == s.got \cup items
  IN client' = [client EXCEPT ![c] =
       [got |-> got, again |-> s.again \cup (s.got \cap items),
        missed |-> IF more THEN {} ELSE due \ got, due |-> due,
        cursor |-> cursor, on |-> TRUE, ended |-> ~more]]

AsksPage(c) == ~client[c].ended /\ page[c] = NoPage /\ pages < FeedPages /\ pages' = pages + 1

ScrollPage(c) ==
  LET cursor == client[c].cursor
      rows == RowsFrom(cursor)
      items == PageOf(rows, FirstRow(cursor))
  IN /\ stream \in Scrolled
     /\ AsksPage(c)
     /\ Shows(c, items, Cardinality(rows) > FirstRow(cursor) + PageSize,
              IF stream = "forwards" THEN cursor + 1
              ELSE IF items = {} THEN cursor ELSE LastOn(items))
     /\ UNCHANGED <<stream, postVars, impressed, page, faults, turns>>

-----------------------------------------------------------------------------
(* The ranked streams                                                      *)

PostRows == {d \in Published : post[d] \in {"normal", "orphan"}}

\* _recall_dynamic_candidates: everything in the window, what the paths
\* without one add, and everything if that is too little; a row whose moment
\* is gone is left out.  The caps of the paths and of the whole are above what
\* is published here.
Recalled(more) ==
  LET some == (PostRows \ outdated) \cup more
  IN IF Cardinality(some) < MinCandidates THEN PostRows ELSE some
Candidates(more) ==
  IF stream = "topic" THEN PostRows
  ELSE {d \in Recalled(more) : post[d] = "normal"}

\* Seeded bug: what the client has shown is let in again with the impressions.
PoolRefilled(cand, got) ==
  LET fresh == (cand \ got) \ impressed
  IN IF Cardinality(fresh) >= PageSize THEN fresh ELSE cand

\* rank_feed: without what the client has shown, and without what was served
\* if a page remains then.
Pool(cand, got) ==
  LET open == cand \ got
      fresh == open \ impressed
  IN IF Cardinality(fresh) >= PageSize THEN fresh ELSE open

RankReads(c, more) ==
  LET cand == Candidates(more)
  IN /\ stream \in {"recommend", "topic"}
     /\ more \subseteq outdated \cap PostRows
     /\ AsksPage(c)
     /\ page' = [page EXCEPT ![c] =
          [pool |-> Pool(cand, client[c].got), there |-> Normal,
           cand |-> cand, step |-> "read"]]
     /\ faults' = faults \cup
          IF (impressed \cap cand) \subseteq client[c].got THEN {} ELSE {"elsewhere"}
     /\ UNCHANGED <<stream, postVars, impressed, client, turns>>

\* One row per moment, whose time is renewed.
Impressed(cut) == impressed \cup cut

\* The page is cut from the ranked pool, any order of it; what is cut is
\* recorded, and what has a moment to render is sent.
RankServes(c, cut) ==
  LET p == page[c]
  IN /\ p.step = "read"
     /\ cut \subseteq p.pool
     /\ Cardinality(cut) = IF Cardinality(p.pool) < PageSize
                           THEN Cardinality(p.pool) ELSE PageSize
     /\ impressed' = Impressed(cut)
     /\ page' = [page EXCEPT ![c] = [p EXCEPT !.there = @ \cap cut, !.step = "served"]]
     /\ faults' = faults \cup IF cut \subseteq p.there THEN {} ELSE {"hole"}
     /\ UNCHANGED <<stream, postVars, client, pages, turns>>

\* The client shows what arrived; hasMore says whether the pool exceeds a page.
AnswerArrives(c) ==
  LET p == page[c]
      s == client[c]
      more == Cardinality(p.pool) > PageSize
      got == s.got \cup p.there
  IN /\ p.step = "served"
     /\ client' = [client EXCEPT ![c] =
          [s EXCEPT !.got = got, !.again = @ \cup (s.got \cap p.there),
                    !.missed = IF more THEN {} ELSE p.cand \ got,
                    !.on = TRUE, !.ended = ~more]]
     /\ page' = [page EXCEPT ![c] = NoPage]
     /\ UNCHANGED <<stream, postVars, impressed, faults, pages, turns>>

AnswerIsLost(c) ==
  /\ page[c].step = "served"
  /\ page' = [page EXCEPT ![c] = NoPage]
  /\ faults' = faults \cup {"lost"}
  /\ UNCHANGED <<stream, postVars, impressed, client, pages, turns>>

FeedsNext ==
  \/ \E d \in PostId :
       ApprovesPost(d) \/ Leaves(d, "hidden") \/ Leaves(d, "orphan") \/ Pins(d)
  \/ LeavesWindow \/ ImpressionsExpire
  \/ \E c \in Client :
       \/ ScrollPage(c)
       \/ \E more \in SUBSET PostId : RankReads(c, more)
       \/ \E cut \in SUBSET PostId : RankServes(c, cut)
       \/ AnswerArrives(c) \/ AnswerIsLost(c)

FeedsSpec == FeedsInit /\ [][FeedsNext]_feedVars

-----------------------------------------------------------------------------
(* Properties.                                                             *)

\* A client is shown a moment once: by time, unless moments were approved out
\* of the order of their ids; in a space, but for those that were pinned; by
\* number, unless the list shifted; in a ranked stream always, even when the
\* impressions are let in again to fill a page.
ShownOnce ==
  \A c \in Client, d \in PostId : d \in client[c].again =>
    \/ stream = "time" /\ "disorder" \in faults
    \/ stream = "space" /\ d \in wasPinned
    \/ stream = "forwards" /\ "shift" \in faults

\* A client that is told there is no more has been shown what it was to see,
\* unless the order or the list changed, a page ended in the pinned moment, or
\* a ranked stream counted out what was served but lost, or served to another
\* client, or a row without a moment.
ShownAll ==
  \A c \in Client : client[c].ended /\ client[c].missed # {} =>
    \/ stream = "time" /\ "disorder" \in faults
    \/ stream = "space" /\ PageSize = 1 /\ wasPinned # {}
    \/ stream = "forwards" /\ "shift" \in faults
    \/ stream = "recommend" /\ faults \cap {"lost", "elsewhere"} # {}
    \/ stream = "topic" /\ faults \cap {"lost", "elsewhere", "hole"} # {}

\* Only the topic stream, which does not look for the moments before it ranks,
\* serves a row that cannot be rendered.
RenderedFull == "hole" \in faults => stream = "topic"

\* The pages of a stream while it changes (comprehensive_feed, space_feed,
\* following_feed, topic_feed, list_forwards, rank_feed).
FeedsHold == ShownOnce /\ ShownAll /\ RenderedFull

=============================================================================
