----------------------------- MODULE Reminders -----------------------------
(***************************************************************************)
(* The reminders of one user: likes, replies and mentions, reported by     *)
(* other requests (each at least once), listed as cards, one card for all  *)
(* the events of a source, and marked read or deleted meanwhile.           *)
(*                                                                         *)
(* A page of the list is three queries: the cards of the page, whether     *)
(* there are more, and the events of these cards.                          *)
(***************************************************************************)
EXTENDS Integers, FiniteSets, TLC

CONSTANTS Deed,          \* what events are about: the fields of the dedup_key
          CardOf,        \* the source of each deed
          TypeOf,        \* the event_type of each card
          Silent,        \* types with blocked_silent
          LastEvent,     \* bound: the ids are 1 .. LastEvent
          CardLimit,     \* page_size
          ScanLimit,     \* _ACTOR_SCAN_LIMIT
          EventWorker,   \* requests served at the same time
          EventRequests  \* bound: requests of a behaviour

Card == {CardOf[d] : d \in Deed}
Type == {TypeOf[c] : c \in Card}
NoType == "notype"
NoDeed == "nodeed"

ASSUME ReminderAssumption ==
  /\ CardOf \in [Deed -> Card] /\ TypeOf \in [Card -> Type] /\ Silent \subseteq Type
  /\ LastEvent \in Nat /\ EventRequests \in Nat
  /\ CardLimit \in Nat \ {0} /\ ScanLimit \in Nat \ {0}
  /\ NoType \notin Type /\ NoDeed \notin Deed

VARIABLES
  event,        \* msg_event
  setting,      \* the types whose reminders and whose pushes the user takes
  blocked,      \* a block between the user and the others, in one direction
  lastReadId,   \* msg_event_cursor of each type
  pushed,       \* history: pushes of each deed
  eventJob,     \* what each worker has read and is to write
  excused,      \* history: workers that were under way when a gate closed
  listing,      \* a client that reads the list page by page
  eventsAsked   \* requests so far

eventVars == <<event, setting, blocked, lastReadId, pushed, eventJob,
               excused, listing, eventsAsked>>

EventId == 1 .. LastEvent
EventRow == [status : {"none", "inserted", "stored"}, deed : Deed \cup {NoDeed},
             read : BOOLEAN, deleted : BOOLEAN]
NoEvent == [status |-> "none", deed |-> NoDeed,
            read |-> FALSE, deleted |-> FALSE]
NoEventJob == [op |-> "idle"]
NotListing == [op |-> "idle"]

EventTypeOK ==
  /\ event \in [EventId -> EventRow]
  /\ setting \in [recv : SUBSET Type, push : SUBSET Type]
  /\ blocked \in BOOLEAN
  /\ lastReadId \in [Type -> 0 .. LastEvent]
  /\ pushed \in [Deed -> 0 .. 2]
  /\ DOMAIN eventJob = EventWorker
  /\ excused \subseteq EventWorker
  /\ listing.op \in {"idle", "page", "tail", "details", "ended", "failed"}
  /\ eventsAsked \in 0 .. EventRequests

\* _DEFAULTS: every reminder is taken; here with some pushes switched on.
EventInit ==
  /\ event = [n \in EventId |-> NoEvent]
  /\ setting = [recv |-> Type, push |-> Silent]
  /\ blocked = FALSE
  /\ lastReadId = [t \in Type |-> 0]
  /\ pushed = [d \in Deed |-> 0]
  /\ eventJob = [w \in EventWorker |-> NoEventJob]
  /\ excused = {}
  /\ listing = NotListing
  /\ eventsAsked = 0

-----------------------------------------------------------------------------

TypeOfDeed(d) == TypeOf[CardOf[d]]
Stored(n) == event[n].status = "stored"
EventRows(only) ==
  {n \in EventId : /\ Stored(n) /\ ~event[n].deleted
                   /\ only => ~event[n].read}
RowsOf(c, only) == {n \in EventRows(only) : CardOf[event[n].deed] = c}
LargestId(S) == IF S = {} THEN 0 ELSE CHOOSE n \in S : \A x \in S : x <= n

Serve(w, job) ==
  /\ eventJob' = [eventJob EXCEPT ![w] = job]
  /\ excused' = IF job = NoEventJob THEN excused \ {w} ELSE excused

\* What a request adds to or takes from the cards while the scan is between
\* the queries of a page, and since its first one.
ListingNotices(cards) ==
  listing' = IF listing.op = "idle" \/ cards = {} THEN listing
             ELSE [listing EXCEPT !.touched = @ \cup cards,
                                  !.unsteady = @ \/ listing.op \in {"tail", "details"}]

AsksNow == eventsAsked < EventRequests /\ eventsAsked' = eventsAsked + 1

-----------------------------------------------------------------------------
(* report: gates, insert, commit, push                                     *)

Refused(d) == /\ TypeOfDeed(d) \in Silent /\ blocked
Closed(d) == TypeOfDeed(d) \notin setting.recv \/ Refused(d)

\* accept_event.  A deed of the user and a closed gate return at once.
ReportAsks(w, d) ==
  /\ eventJob[w] = NoEventJob
  /\ TypeOfDeed(d) \in setting.recv
  /\ AsksNow
  /\ Serve(w, [op |-> "asked", deed |-> d])
  /\ UNCHANGED <<event, setting, blocked, lastReadId, pushed, listing>>

\* is_blocked_relation
ReportPasses(w) ==
  LET d == eventJob[w].deed
  IN /\ eventJob[w].op = "asked"
     /\ Serve(w, IF Refused(d) THEN NoEventJob ELSE [op |-> "passed", deed |-> d])
     /\ UNCHANGED <<event, setting, blocked, lastReadId, pushed, listing, eventsAsked>>

\* The INSERT draws the id; it waits for a row with its key to be committed.
SameKey(d, status) == {n \in EventId : event[n].status = status /\ event[n].deed = d}

ReportInserts(w, n) ==
  LET d == eventJob[w].deed
  IN /\ eventJob[w].op = "passed"
     /\ SameKey(d, "inserted") = {} /\ SameKey(d, "stored") = {}
     /\ event[n].status = "none"
     /\ \A x \in EventId : x < n => event[x].status # "none"
     /\ event' = [event EXCEPT ![n] = [NoEvent EXCEPT !.status = "inserted",
                                                      !.deed = d]]
     /\ Serve(w, [op |-> "inserted", deed |-> d, n |-> n])
     /\ UNCHANGED <<setting, blocked, lastReadId, pushed, listing, eventsAsked>>

\* Seeded bug: a duplicate is pushed like the first.
ReportDuplicatePushed(w) ==
  /\ eventJob[w].op = "passed"
  /\ SameKey(eventJob[w].deed, "stored") # {}
  /\ Serve(w, [op |-> "stored", deed |-> eventJob[w].deed])
  /\ UNCHANGED <<event, setting, blocked, lastReadId, pushed, listing, eventsAsked>>

\* The unique key: a duplicate returns.
ReportDuplicate(w) ==
  /\ eventJob[w].op = "passed"
  /\ SameKey(eventJob[w].deed, "stored") # {}
  /\ Serve(w, NoEventJob)
  /\ UNCHANGED <<event, setting, blocked, lastReadId, pushed, listing, eventsAsked>>

ReportCommits(w) ==
  LET j == eventJob[w]
  IN /\ j.op = "inserted"
     /\ event' = [event EXCEPT ![j.n].status = "stored"]
     /\ Serve(w, [op |-> "stored", deed |-> j.deed])
     /\ ListingNotices({CardOf[j.deed]})
     /\ UNCHANGED <<setting, blocked, lastReadId, pushed, eventsAsked>>

\* accept_push and the task that publishes to the external push
ReportPushes(w) ==
  LET d == eventJob[w].deed
  IN /\ eventJob[w].op = "stored"
     /\ pushed' = IF TypeOfDeed(d) \in setting.push
                  THEN [pushed EXCEPT ![d] = IF @ < 2 THEN @ + 1 ELSE @]
                  ELSE pushed
     /\ Serve(w, NoEventJob)
     /\ UNCHANGED <<event, setting, blocked, lastReadId, listing, eventsAsked>>

\* A message of the queue is delivered again, a client tries again: another
\* ReportAsks of the same deed.

-----------------------------------------------------------------------------
(* The settings and the blocks of the user                                 *)

Changes == /\ AsksNow
           /\ excused' = excused \cup {w \in EventWorker : eventJob[w] # NoEventJob}
           /\ UNCHANGED <<event, lastReadId, pushed, eventJob, listing>>

ToggleSetting(t) ==
  /\ setting' = [setting EXCEPT !.recv = IF t \in @ THEN @ \ {t} ELSE @ \cup {t}]
  /\ Changes
  /\ UNCHANGED blocked

ToggleBlock == blocked' = ~blocked /\ Changes /\ UNCHANGED setting

-----------------------------------------------------------------------------
(* mark_read and delete                                                    *)

\* The rows that one request selects, with the type whose watermark it moves:
\* those created until the cutoff (creation goes with the ids here).
Everything == [rows |-> {n \in EventId : Stored(n)}, type |-> NoType, max |-> 0]
OfType(t, cut) == {n \in 1 .. cut : Stored(n) /\ TypeOfDeed(event[n].deed) = t}
WholeType(t, cut) ==
  [rows |-> OfType(t, cut), type |-> t, max |-> LargestId(OfType(t, cut))]
OneCard(c) ==
  [rows |-> {n \in EventId : Stored(n) /\ CardOf[event[n].deed] = c},
   type |-> TypeOf[c], max |-> LargestId(OfType(TypeOf[c], LastEvent))]
OneEvent(n) == [rows |-> {n} \cap {x \in EventId : Stored(x)}, type |-> NoType,
                max |-> 0]
Selections == {Everything} \cup {OneCard(c) : c \in Card}
                \cup {OneEvent(n) : n \in EventId}
                \cup {WholeType(t, cut) : t \in Type, cut \in EventId}

CardsOf(rows) == {CardOf[event[n].deed] : n \in rows}

\* What the UPDATE selected, seen by others at the commit.
MarkRows(rows) ==
  /\ event' = [n \in EventId |-> IF n \in rows THEN [event[n] EXCEPT !.read = TRUE]
                                 ELSE event[n]]
  /\ ListingNotices(IF listing.op # "idle" /\ listing.only
                 THEN CardsOf(rows \cap EventRows(TRUE)) ELSE {})

MarkReads(w, s) ==
  /\ eventJob[w] = NoEventJob
  /\ s.rows # {} /\ s.type = NoType
  /\ MarkRows(s.rows)
  /\ AsksNow
  /\ UNCHANGED <<setting, blocked, lastReadId, pushed, eventJob, excused>>

\* The UPDATE and, in _advance_cursor, the largest id of the type, ...
MarkFinds(w, s) ==
  /\ eventJob[w] = NoEventJob
  /\ s.rows # {} /\ s.type # NoType
  /\ AsksNow
  /\ Serve(w, [op |-> "mark", rows |-> s.rows, type |-> s.type, max |-> s.max])
  /\ UNCHANGED <<event, setting, blocked, lastReadId, pushed, listing>>

\* GREATEST
Raised(old, new) == IF new > old THEN new ELSE old

\* ... and the upsert, committed with the UPDATE.
MarkCommits(w) ==
  LET j == eventJob[w]
  IN /\ j.op = "mark"
     /\ MarkRows(j.rows)
     /\ lastReadId' = [lastReadId EXCEPT ![j.type] = Raised(@, j.max)]
     /\ Serve(w, NoEventJob)
     /\ UNCHANGED <<setting, blocked, pushed, eventsAsked>>

DeleteEvents(rows) ==
  /\ rows # {} /\ rows \subseteq {n \in EventId : Stored(n)}
  /\ event' = [n \in EventId |-> IF n \in rows THEN [event[n] EXCEPT !.deleted = TRUE]
                                 ELSE event[n]]
  /\ ListingNotices(IF listing.op = "idle" THEN {}
                 ELSE CardsOf(rows \cap EventRows(listing.only)))
  /\ AsksNow
  /\ UNCHANGED <<setting, blocked, lastReadId, pushed, eventJob, excused>>

-----------------------------------------------------------------------------
(* list_msgfeed, page by page                                              *)

Newest(c, only) == LargestId(RowsOf(c, only))
Cards(only) == {c \in Card : RowsOf(c, only) # {}}

\* The cards whose newest event is below the cursor.
Below(only, from) == {c \in Cards(only) : Newest(c, only) < from}

FirstOf(S, only) ==
  {c \in S : Cardinality({x \in S : Newest(x, only) > Newest(c, only)}) < CardLimit}

Unbounded == LastEvent + 1       \* no cursor

ScanStarts(only) ==
  /\ listing = NotListing
  /\ AsksNow
  /\ listing' = [op |-> "page", only |-> only, from |-> Unbounded, start |-> Cards(only),
                 page |-> {}, more |-> FALSE, given |-> [c \in Card |-> 0],
                 touched |-> {}, unsteady |-> FALSE, crowded |-> FALSE]
  /\ UNCHANGED <<event, setting, blocked, lastReadId, pushed, eventJob, excused>>

ListingKeeps == UNCHANGED <<event, setting, blocked, lastReadId, pushed, eventJob,
                         excused, eventsAsked>>

ScanPage ==
  LET page == FirstOf(Below(listing.only, listing.from), listing.only)
  IN /\ listing.op = "page"
     /\ listing' = [listing EXCEPT !.op = IF page = {} THEN "ended" ELSE "tail",
                                      !.page = page]
     /\ ListingKeeps

\* has_more: the query of the cards again, with an offset.
ScanTail ==
  /\ listing.op = "tail"
  /\ listing' = [listing EXCEPT !.op = "details",
       !.more = Cardinality(Below(listing.only, listing.from)) > CardLimit]
  /\ ListingKeeps

\* The newest events of the cards, ScanLimit of them in all.
DetailsOf(page, only) ==
  LET S == UNION {RowsOf(c, only) : c \in page}
  IN {n \in S : Cardinality({x \in S : x > n}) < ScanLimit}

\* A card without an event among them is an IndexError; the cursor of the
\* page is the newest event found of its last card.
ScanDetails ==
  LET details == DetailsOf(listing.page, listing.only)
      found(c) == {n \in details : CardOf[event[n].deed] = c}
      last == CHOOSE n \in {LargestId(found(c)) : c \in listing.page} :
                \A c \in listing.page : n <= LargestId(found(c))
  IN /\ listing.op = "details"
     /\ listing' = IF \E c \in listing.page : found(c) = {}
                THEN [listing EXCEPT !.op = "failed",
                        !.crowded = \E c \in listing.page : RowsOf(c, listing.only) # {}
                                                          /\ found(c) = {}]
                ELSE [listing EXCEPT
                        !.op = IF listing.more THEN "page" ELSE "ended",
                        !.from = last,
                        !.given = [c \in Card |-> IF c \in listing.page /\ @[c] < 2
                                                  THEN @[c] + 1 ELSE @[c]]]
     /\ ListingKeeps

-----------------------------------------------------------------------------

EventNext ==
  \/ \E w \in EventWorker :
       \/ \E d \in Deed : ReportAsks(w, d)
       \/ ReportPasses(w)
       \/ \E n \in EventId : ReportInserts(w, n)
       \/ ReportDuplicate(w) \/ ReportCommits(w) \/ ReportPushes(w)
       \/ \E s \in Selections : MarkReads(w, s) \/ MarkFinds(w, s)
       \/ MarkCommits(w)
  \/ \E t \in Type : ToggleSetting(t)
  \/ ToggleBlock
  \/ \E n \in EventId : DeleteEvents({n})
  \/ \E only \in BOOLEAN : ScanStarts(only)
  \/ ScanPage \/ ScanTail \/ ScanDetails

EventSpec == EventInit /\ [][EventNext]_eventVars

-----------------------------------------------------------------------------
(* Properties.                                                             *)

\* A scan that ends has given every card that was there at its start and did
\* not change exactly once, whatever changed between its pages, unless cards
\* changed between the three queries of one page (the docstring of
\* list_msgfeed: each group is on exactly one page).
ScanGivesOnce ==
  listing.op = "ended" /\ ~listing.unsteady
    => \A c \in listing.start \ listing.touched : listing.given[c] = 1

\* A page fails only when cards changed between its queries or when they hold
\* more events than the limit of the third one.
PagesFailOnly == listing.op = "failed" => listing.unsteady \/ listing.crowded

\* A new deed is pushed once, and after it was stored, however often it is
\* reported.
PushedOnce == \A d \in Deed :
  pushed[d] <= IF SameKey(d, "stored") = {} THEN 0 ELSE 1

\* After the user closed a gate only reports that were under way go through.
SilentOnceClosed == \A w \in EventWorker :
  eventJob[w].op \in {"passed", "inserted"} /\ Closed(eventJob[w].deed)
    => w \in excused

\* Reports, readers and switches at the same time, and the watermark, which
\* two requests never lower (report, list_msgfeed, mark_read).
RemindersHold ==
  /\ [](ScanGivesOnce /\ PagesFailOnly /\ PushedOnce /\ SilentOnceClosed)
  /\ [][\A t \in Type : lastReadId'[t] >= lastReadId[t]]_eventVars

=============================================================================
