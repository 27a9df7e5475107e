---------------------------- MODULE Feeds_proofs ----------------------------
(***************************************************************************)
(* Proofs about the reminders and about the streams of moments, for any    *)
(* number of deeds, cards, events, requests, moments and readers, and any  *)
(* limits.                                                                 *)
(***************************************************************************)
EXTENDS Reminders, Feeds, FiniteSetTheorems, TLAPS

-----------------------------------------------------------------------------
(* The largest id of a set, and what a reader finds of the cards.          *)

LEMMA LargestIsThere ==
  ASSUME NEW S \in SUBSET Nat, IsFiniteSet(S), S # {}
  PROVE  LargestId(S) \in S /\ \A x \in S : x <= LargestId(S)
<1> DEFINE Above(n) == {x \in S : x > n}
           T == {Above(n) : n \in S}
<1>1. IsWellFoundedOn(StrictSubsetOrdering(S), FiniteSubsetsOf(S))
  BY FS_StrictSubsetOrderingWellFounded
<1>2. T \subseteq FiniteSubsetsOf(S) /\ T # {}
  <2>1. \A n \in S : Above(n) \in SUBSET S /\ IsFiniteSet(Above(n))
    BY FS_Subset
  <2> QED BY <2>1 DEF FiniteSubsetsOf
<1>3. PICK A \in T : \A B \in T : <<B, A>> \notin StrictSubsetOrdering(S)
  BY <1>1, <1>2, WFMin
<1>4. PICK n \in S : A = Above(n)
  BY <1>3
<1>5. \A x \in S : x <= n
  <2>1. SUFFICES ASSUME NEW x \in S, x > n PROVE FALSE
    OBVIOUS
  <2>2. /\ Above(x) \subseteq Above(n) /\ x \in Above(n) /\ x \notin Above(x)
        /\ Above(n) \subseteq S
    <3>1. x \in Int /\ n \in Int /\ \A y \in S : y \in Int
      OBVIOUS
    <3>2. \A y \in S : y > x => y > n
      BY <2>1, <3>1
    <3>3. ~(x > x)
      BY <3>1
    <3> QED BY <2>1, <3>2, <3>3
  <2>3. <<Above(x), Above(n)>> \in StrictSubsetOrdering(S)
    BY <2>2 DEF StrictSubsetOrdering
  <2> QED BY <1>3, <1>4, <2>1, <2>3
<1> QED BY <1>4, <1>5, Zenon DEF LargestId

\* The smallest, by the largest difference to a bound.
LEMMA SmallestIdIsThere ==
  ASSUME NEW b \in Nat, NEW S, S \subseteq 0 .. b, S # {}
  PROVE  \E m \in S : \A x \in S : m <= x
<1> DEFINE D == {b - x : x \in S}
<1>1. D \in SUBSET Nat /\ D # {} /\ D \subseteq 0 .. b
  <2>1. \A x \in S : b - x \in 0 .. b
    OBVIOUS
  <2>2. D # {} /\ D \subseteq 0 .. b
    BY <2>1
  <2>3. D \subseteq Nat
    BY <2>2
  <2> QED BY <2>2, <2>3
<1>2. IsFiniteSet(0 .. b)
  BY FS_Interval
<1>3. IsFiniteSet(D)
  BY <1>1, <1>2, FS_Subset
<1>4. PICK n : n \in D /\ \A d \in D : d <= n
  <2> HIDE DEF D
  <2> QED BY <1>1, <1>3, LargestIsThere
<1>5. PICK m \in S : n = b - m
  BY <1>4
<1>6. ASSUME NEW x \in S
      PROVE  m <= x
  <2>1. b - x <= b - m
    BY <1>4, <1>5
  <2>2. x \in Int /\ m \in Int
    OBVIOUS
  <2> QED BY <2>1, <2>2
<1> QED BY <1>6

-----------------------------------------------------------------------------
(* The types of the reminders.                                             *)

ReminderJob ==
  {NoEventJob} \cup [op: {"asked", "passed", "stored"}, deed: Deed]
    \cup [op: {"inserted"}, deed: Deed, n: EventId]
    \cup [op: {"mark"}, rows: SUBSET EventId, type: Type, max: 0 .. LastEvent]

Listing ==
  [op: {"page", "tail", "details", "ended", "failed"}, only: BOOLEAN, from: Nat,
   start: SUBSET Card, page: SUBSET Card, more: BOOLEAN, given: [Card -> 0 .. 2],
   touched: SUBSET Card, unsteady: BOOLEAN, crowded: BOOLEAN]

RowTypes ==
  /\ event \in [EventId -> EventRow]
  /\ \A n \in EventId : event[n].status # "none" => event[n].deed \in Deed

ReminderTypes ==
  /\ RowTypes
  /\ setting \in [recv : SUBSET Type, push : SUBSET Type]
  /\ blocked \in BOOLEAN
  /\ lastReadId \in [Type -> 0 .. LastEvent]
  /\ pushed \in [Deed -> 0 .. 2]
  /\ eventJob \in [EventWorker -> ReminderJob]
  /\ excused \subseteq EventWorker
  /\ listing \in {NotListing} \cup Listing
  /\ listing.op \in {"tail", "details"} => listing.page # {}
  /\ eventsAsked \in 0 .. EventRequests

LEMMA TypesOfDeeds ==
  /\ CardOf \in [Deed -> Card] /\ TypeOf \in [Card -> Type]
  /\ \A d \in Deed : CardOf[d] \in Card /\ TypeOfDeed(d) \in Type
BY ReminderAssumption DEF Card, Type, TypeOfDeed

-----------------------------------------------------------------------------
(* The cards and the queries of a page.                                    *)

LEMMA RowsAreIds ==
  ASSUME RowTypes, NEW o, NEW c
  PROVE  /\ RowsOf(c, o) \subseteq EventId /\ RowsOf(c, o) \in SUBSET Nat
         /\ IsFiniteSet(RowsOf(c, o)) /\ IsFiniteSet(EventId)
         /\ \A n \in RowsOf(c, o) : CardOf[event[n].deed] = c
<1>1. LastEvent \in Nat
  BY ReminderAssumption
<1>2. IsFiniteSet(EventId)
  BY <1>1, FS_Interval DEF EventId
<1>3. RowsOf(c, o) \subseteq EventId
  BY DEF RowsOf, EventRows
<1>4. IsFiniteSet(RowsOf(c, o))
  BY <1>2, <1>3, FS_Subset
<1> QED BY <1>1, <1>2, <1>3, <1>4 DEF RowsOf, EventId

LEMMA NewestIsThere ==
  ASSUME RowTypes, NEW o, NEW c, RowsOf(c, o) # {}
  PROVE  /\ Newest(c, o) \in RowsOf(c, o) /\ Newest(c, o) \in EventId
         /\ Newest(c, o) \in Nat /\ Newest(c, o) <= LastEvent
         /\ \A n \in RowsOf(c, o) : n <= Newest(c, o)
<1>1. LastEvent \in Nat
  BY ReminderAssumption
<1> QED BY <1>1, RowsAreIds, LargestIsThere DEF Newest, EventId

LEMMA CardsAreFinite ==
  ASSUME RowTypes, NEW o
  PROVE  IsFiniteSet(Cards(o))
<1> DEFINE f == [c \in Cards(o) |-> Newest(c, o)]
<1>1. \A c \in Cards(o) : Newest(c, o) \in EventId
                          /\ CardOf[event[Newest(c, o)].deed] = c
  BY NewestIsThere, RowsAreIds DEF Cards
<1>2. f \in Injection(Cards(o), EventId)
  BY <1>1 DEF Injection, IsInjective
<1>3. IsFiniteSet(EventId)
  BY RowsAreIds
<1> QED BY <1>2, <1>3, FS_Injection

\* The cards of a page are those before the others of the list; if they are
\* not more than a page, it has all.
LEMMA PageIsNext ==
  ASSUME RowTypes, NEW o, NEW f \in Nat
  PROVE  /\ FirstOf(Below(o, f), o) \subseteq Below(o, f)
         /\ Below(o, f) # {} => FirstOf(Below(o, f), o) # {}
         /\ \A c \in Below(o, f) \ FirstOf(Below(o, f), o) :
              \A p \in FirstOf(Below(o, f), o) : Newest(c, o) < Newest(p, o)
         /\ ~(Cardinality(Below(o, f)) > CardLimit)
              => FirstOf(Below(o, f), o) = Below(o, f)
<1> DEFINE B == Below(o, f)
           P == FirstOf(B, o)
           Newer(c) == {x \in B : Newest(x, o) > Newest(c, o)}
<1>1. CardLimit \in Nat \ {0} /\ LastEvent \in Nat
  BY ReminderAssumption
<1>2. B \subseteq Cards(o) /\ IsFiniteSet(B)
  BY CardsAreFinite, FS_Subset DEF Below
<1>3. \A c \in B : Newest(c, o) \in 0 .. LastEvent
  BY <1>1, <1>2, NewestIsThere DEF Cards
<1>4. P = {c \in B : Cardinality(Newer(c)) < CardLimit}
  BY DEF FirstOf
<1>5. \A c \in B : IsFiniteSet(Newer(c)) /\ Cardinality(Newer(c)) \in Nat
  <2> TAKE c \in B
  <2>1. Newer(c) \in SUBSET B
    OBVIOUS
  <2> QED BY <1>2, <2>1, FS_Subset, FS_CardinalityType
<1>6. B # {} => P # {}
  <2> SUFFICES ASSUME B # {} PROVE P # {}
    OBVIOUS
  <2> DEFINE N == {LastEvent - Newest(c, o) : c \in B}
  <2>1. N \subseteq 0 .. LastEvent /\ N # {}
    BY <1>1, <1>3
  <2>2. PICK m \in N : \A x \in N : m <= x
    <3> HIDE DEF N
    <3> QED BY <1>1, <2>1, SmallestIdIsThere
  <2>3. PICK c \in B : m = LastEvent - Newest(c, o)
    BY <2>2
  <2>4. ASSUME NEW x \in B
        PROVE  ~(Newest(x, o) > Newest(c, o))
    <3>1. LastEvent - Newest(x, o) \in N
      OBVIOUS
    <3>2. LastEvent - Newest(c, o) <= LastEvent - Newest(x, o)
      BY <2>2, <2>3, <3>1
    <3>3. Newest(x, o) \in Int /\ Newest(c, o) \in Int
      BY <1>3
    <3> QED BY <1>1, <3>2, <3>3
  <2>5. Newer(c) = {}
    BY <2>4
  <2>6. Cardinality(Newer(c)) = 0
    BY <2>5, FS_EmptySet
  <2> QED BY <1>1, <1>4, <2>6
<1>7. ASSUME NEW c \in B \ P, NEW p \in P
      PROVE  Newest(c, o) < Newest(p, o)
  <2>1. SUFFICES ASSUME Newest(p, o) <= Newest(c, o) PROVE FALSE
    BY <1>3, <1>4
  <2>2. Newer(c) \in SUBSET Newer(p)
    BY <1>3, <1>4, <2>1
  <2>3. Cardinality(Newer(c)) <= Cardinality(Newer(p))
    BY <1>4, <1>5, <2>2, FS_Subset
  <2>4. Cardinality(Newer(p)) < CardLimit /\ ~(Cardinality(Newer(c)) < CardLimit)
    BY <1>4
  <2>5. Cardinality(Newer(p)) \in Nat /\ Cardinality(Newer(c)) \in Nat
    BY <1>4, <1>5
  <2> HIDE DEF Newer
  <2> QED BY <1>1, <2>3, <2>4, <2>5
<1>8. ASSUME ~(Cardinality(B) > CardLimit), NEW c \in B
      PROVE  c \in P
  <2>1. Newer(c) \in SUBSET B /\ c \notin Newer(c)
    BY <1>3
  <2>2. Cardinality(Newer(c)) < Cardinality(B)
    <3>1. Cardinality(Newer(c)) <= Cardinality(B) /\ (Cardinality(Newer(c)) = Cardinality(B) => Newer(c) = B)
      BY <1>2, <2>1, FS_Subset
    <3>2. Cardinality(B) \in Nat
      BY <1>2, FS_CardinalityType
    <3> QED BY <1>5, <2>1, <3>1, <3>2
  <2>3. Cardinality(B) \in Nat
    BY <1>2, FS_CardinalityType
  <2> QED BY <1>1, <1>4, <1>5, <1>8, <2>2, <2>3
<1> QED BY <1>4, <1>6, <1>7, <1>8

\* What the third query finds of a card begins with its newest event.
LEMMA FoundIsNewest ==
  ASSUME RowTypes, NEW o, NEW shown, NEW c \in shown,
         NEW found, found = {n \in DetailsOf(shown, o) : CardOf[event[n].deed] = c},
         found # {}
  PROVE  LargestId(found) = Newest(c, o)
<1> DEFINE S == UNION {RowsOf(x, o) : x \in shown}
           Later(n) == {x \in S : x > n}
<1>1. S \subseteq EventId /\ IsFiniteSet(S) /\ \A n \in S : n \in Nat
  <2>1. S \subseteq EventId /\ EventId \subseteq Nat
    BY RowsAreIds, ReminderAssumption DEF EventId
  <2> QED BY <2>1, RowsAreIds, FS_Subset
<1>2. DetailsOf(shown, o) = {n \in S : Cardinality(Later(n)) < ScanLimit}
  BY DEF DetailsOf
<1>3. \A n \in S : CardOf[event[n].deed] = c => n \in RowsOf(c, o)
  BY DEF RowsOf
<1>4. found \subseteq RowsOf(c, o)
  BY <1>2, <1>3
<1>5. PICK n : n \in found
  OBVIOUS
<1>6. RowsOf(c, o) # {} /\ n \in RowsOf(c, o) /\ n \in S
  BY <1>2, <1>4, <1>5
<1>7. PICK m : m = Newest(c, o)
  OBVIOUS
<1>8. m \in RowsOf(c, o) /\ \A x \in RowsOf(c, o) : x <= m
  BY <1>6, <1>7, NewestIsThere
<1>9. m \in S /\ CardOf[event[m].deed] = c
  BY <1>8, RowsAreIds
<1>10. m \in found
  <2>1. Later(m) \in SUBSET Later(n)
    BY <1>1, <1>6, <1>8, <1>9
  <2>2. Later(n) \in SUBSET S
    OBVIOUS
  <2>3. IsFiniteSet(Later(n)) /\ Cardinality(Later(n)) \in Nat
    BY <1>1, <2>2, FS_Subset, FS_CardinalityType
  <2>4. Cardinality(Later(m)) <= Cardinality(Later(n)) /\ Cardinality(Later(m)) \in Nat
    BY <2>1, <2>3, FS_Subset, FS_CardinalityType
  <2>5. Cardinality(Later(n)) < ScanLimit
    BY <1>2, <1>5
  <2>6. Cardinality(Later(m)) < ScanLimit
    BY <2>3, <2>4, <2>5, ReminderAssumption
  <2> QED BY <1>2, <1>9, <2>6
<1>11. PICK k : k = LargestId(found)
  OBVIOUS
<1>12. k \in found /\ \A x \in found : x <= k
  <2>1. found \in SUBSET Nat /\ IsFiniteSet(found)
    BY <1>4, RowsAreIds, FS_Subset
  <2> QED BY <1>5, <1>11, <2>1, LargestIsThere
<1>13. k \in Nat /\ m \in Nat /\ k <= m /\ m <= k
  BY <1>1, <1>4, <1>8, <1>9, <1>10, <1>12, RowsAreIds
<1> QED BY <1>7, <1>11, <1>13
-----------------------------------------------------------------------------
(* Every step keeps the types.                                             *)

LEMMA ServeTypes ==
  ASSUME ReminderTypes, NEW w \in EventWorker, NEW job \in ReminderJob, Serve(w, job)
  PROVE  /\ eventJob' \in [EventWorker -> ReminderJob] /\ excused' \subseteq EventWorker
         /\ eventJob'[w] = job
         /\ \A u \in EventWorker : u # w => eventJob'[u] = eventJob[u]
BY DEF ReminderTypes, Serve

LEMMA NoticeTypes ==
  ASSUME ReminderTypes, NEW cards, cards \subseteq Card, ListingNotices(cards)
  PROVE  listing' \in {NotListing} \cup Listing
<1>1. CASE listing = NotListing
  BY <1>1 DEF ListingNotices, NotListing
<1>2. CASE listing \in Listing
  <2>1. listing.touched \cup cards \subseteq Card
    BY <1>2 DEF Listing
  <2>2. (listing.unsteady \/ listing.op \in {"tail", "details"}) \in BOOLEAN
    BY <1>2 DEF Listing
  <2>3. CASE listing' = listing
    BY <1>2, <2>3
  <2>4. CASE listing' = [listing EXCEPT !.touched = @ \cup cards,
                             !.unsteady = @ \/ listing.op \in {"tail", "details"}]
    BY <1>2, <2>1, <2>2, <2>4 DEF Listing
  <2> QED BY <2>3, <2>4 DEF ListingNotices
<1> QED BY <1>1, <1>2 DEF ReminderTypes

LEMMA CardsOfRows ==
  ASSUME RowTypes
  PROVE  /\ \A n \in EventId : Stored(n) => CardOf[event[n].deed] \in Card
         /\ \A rows : (\A n \in rows : n \in EventId /\ Stored(n))
              => CardsOf(rows) \subseteq Card
BY TypesOfDeeds DEF RowTypes, Stored, CardsOf

\* Rows that are changed in what the user did with them.
Flagged(rows) ==
  /\ \A n \in EventId : n \notin rows => event'[n] = event[n]
  /\ \A n \in EventId : /\ event'[n] \in EventRow
                        /\ event'[n].status = event[n].status
                        /\ event'[n].deed = event[n].deed

LEMMA MarkedRows ==
  ASSUME RowTypes, NEW rows, MarkRows(rows)
  PROVE  /\ Flagged(rows) /\ RowTypes'
         /\ \A n \in EventId : event'[n].deleted = event[n].deleted
         /\ \A n \in rows \cap EventId : event'[n].read
<1>1. event' = [n \in EventId |-> IF n \in rows THEN [event[n] EXCEPT !.read = TRUE]
                                  ELSE event[n]]
  BY DEF MarkRows
<1>2. \A n \in EventId : event[n] \in EventRow
  BY DEF RowTypes
<1>3. \A n \in EventId : n \in rows =>
        /\ event'[n] = [event[n] EXCEPT !.read = TRUE]
        /\ event'[n] \in EventRow /\ event'[n].status = event[n].status
        /\ event'[n].deed = event[n].deed /\ event'[n].deleted = event[n].deleted
        /\ event'[n].read
  BY <1>1, <1>2 DEF EventRow
<1>4. \A n \in EventId : n \notin rows => event'[n] = event[n]
  BY <1>1
<1>5. Flagged(rows)
  BY <1>2, <1>3, <1>4, Zenon DEF Flagged
<1>6. RowTypes'
  BY <1>1, <1>5 DEF RowTypes, Flagged
<1> QED BY <1>3, <1>4, <1>5, <1>6, Zenon

LEMMA DeletedRows ==
  ASSUME RowTypes, NEW rows, DeleteEvents(rows)
  PROVE  /\ Flagged(rows) /\ RowTypes'
<1>1. event' = [n \in EventId |-> IF n \in rows THEN [event[n] EXCEPT !.deleted = TRUE]
                                  ELSE event[n]]
  BY DEF DeleteEvents
<1>2. \A n \in EventId : event[n] \in EventRow
  BY DEF RowTypes
<1>3. \A n \in EventId : n \in rows =>
        /\ event'[n] = [event[n] EXCEPT !.deleted = TRUE]
        /\ event'[n] \in EventRow /\ event'[n].status = event[n].status
        /\ event'[n].deed = event[n].deed
  BY <1>1, <1>2 DEF EventRow
<1>4. \A n \in EventId : n \notin rows => event'[n] = event[n]
  BY <1>1
<1>5. Flagged(rows)
  BY <1>2, <1>3, <1>4, Zenon DEF Flagged
<1>6. RowTypes'
  BY <1>1, <1>5 DEF RowTypes, Flagged
<1> QED BY <1>5, <1>6

\* A row that is inserted, and one that is committed.
LEMMA InsertedRow ==
  ASSUME RowTypes, NEW w \in EventWorker, NEW n \in EventId, ReportInserts(w, n),
         eventJob[w].deed \in Deed
  PROVE  /\ RowTypes'
         /\ event'[n].status = "inserted" /\ event'[n].deed = eventJob[w].deed
         /\ event[n].status = "none"
         /\ \A x \in EventId : x # n => event'[x] = event[x]
<1>1. event' = [event EXCEPT ![n] = [NoEvent EXCEPT !.status = "inserted",
                                                    !.deed = eventJob[w].deed]]
  BY DEF ReportInserts
<1>2. PICK new : new = [NoEvent EXCEPT !.status = "inserted", !.deed = eventJob[w].deed]
  OBVIOUS
<1>3. event'[n] = new /\ \A x \in EventId : x # n => event'[x] = event[x]
  BY <1>1, <1>2, Zenon DEF RowTypes
<1>4. new \in EventRow /\ new.status = "inserted" /\ new.deed = eventJob[w].deed
  BY <1>2 DEF EventRow, NoEvent
<1>5. event' \in [EventId -> EventRow]
  BY <1>1, <1>3, <1>4 DEF RowTypes
<1>6. RowTypes'
  BY <1>3, <1>4, <1>5 DEF RowTypes
<1> QED BY <1>3, <1>4, <1>6 DEF ReportInserts

LEMMA CommittedRow ==
  ASSUME RowTypes, NEW w \in EventWorker, ReportCommits(w),
         NEW n \in EventId, n = eventJob[w].n, event[n].status = "inserted"
  PROVE  /\ RowTypes'
         /\ event'[n].status = "stored" /\ event'[n].deed = event[n].deed
         /\ \A x \in EventId : x # n => event'[x] = event[x]
<1>1. event' = [event EXCEPT ![n].status = "stored"]
  BY DEF ReportCommits
<1>2. event'[n] = [event[n] EXCEPT !.status = "stored"]
      /\ \A x \in EventId : x # n => event'[x] = event[x]
  BY <1>1 DEF RowTypes
<1>3. event[n] \in EventRow
  BY DEF RowTypes
<1>4. event'[n] \in EventRow /\ event'[n].status = "stored" /\ event'[n].deed = event[n].deed
  BY <1>2, <1>3 DEF EventRow
<1>5. event' \in [EventId -> EventRow]
  BY <1>1, <1>2, <1>4 DEF RowTypes
<1>6. RowTypes'
  BY <1>2, <1>4, <1>5 DEF RowTypes
<1> QED BY <1>2, <1>4, <1>6
\* What the third query's answer makes of a page.
FoundOf(c) ==
  {n \in DetailsOf(listing.page, listing.only) : CardOf[event[n].deed] = c}
LastOf ==
  CHOOSE n \in {LargestId(FoundOf(c)) : c \in listing.page} :
    \A c \in listing.page : n <= LargestId(FoundOf(c))

LEMMA DetailsGive ==
  ASSUME ScanDetails
  PROVE  /\ listing.op = "details" /\ ListingKeeps
         /\ \/ /\ \E c \in listing.page : FoundOf(c) = {}
               /\ listing' = [listing EXCEPT !.op = "failed",
                    !.crowded = \E c \in listing.page :
                      RowsOf(c, listing.only) # {} /\ FoundOf(c) = {}]
            \/ /\ \A c \in listing.page : FoundOf(c) # {}
               /\ listing' = [listing EXCEPT
                    !.op = IF listing.more THEN "page" ELSE "ended",
                    !.from = LastOf,
                    !.given = [c \in Card |-> IF c \in listing.page /\ listing.given[c] < 2
                                              THEN listing.given[c] + 1
                                              ELSE listing.given[c]]]
BY Zenon DEF ScanDetails, FoundOf, LastOf

LEMMA LastIsOldest ==
  ASSUME RowTypes, listing.page # {}, \A c \in listing.page : FoundOf(c) # {}
  PROVE  /\ LastOf \in Nat
         /\ \E c \in listing.page : LastOf = Newest(c, listing.only)
         /\ \A c \in listing.page : LastOf <= Newest(c, listing.only)
<1> DEFINE S == {LargestId(FoundOf(c)) : c \in listing.page}
<1>1. \A c \in listing.page : LargestId(FoundOf(c)) = Newest(c, listing.only)
  <2> TAKE c \in listing.page
  <2>1. FoundOf(c) = {n \in DetailsOf(listing.page, listing.only) : CardOf[event[n].deed] = c}
    BY DEF FoundOf
  <2> QED BY <2>1, FoundIsNewest
<1>2. \A c \in listing.page : RowsOf(c, listing.only) # {}
  <2> TAKE c \in listing.page
  <2>1. PICK n \in FoundOf(c) : TRUE
    OBVIOUS
  <2>2. PICK x \in listing.page : n \in RowsOf(x, listing.only)
    BY <2>1 DEF FoundOf, DetailsOf
  <2>3. n \in RowsOf(c, listing.only)
    BY <2>1, <2>2 DEF FoundOf, RowsOf
  <2> QED BY <2>3
<1>3. LastEvent \in Nat
  BY ReminderAssumption
<1>4. \A c \in listing.page : Newest(c, listing.only) \in 0 .. LastEvent
  BY <1>2, <1>3, NewestIsThere
<1>5. S \subseteq 0 .. LastEvent /\ S # {}
  BY <1>1, <1>4
<1>6. PICK m \in S : \A x \in S : m <= x
  <2> HIDE DEF S
  <2> QED BY <1>3, <1>5, SmallestIdIsThere
<1>7. \A c \in listing.page : m <= LargestId(FoundOf(c))
  BY <1>6
<1>8. LastOf \in S /\ \A c \in listing.page : LastOf <= LargestId(FoundOf(c))
  BY <1>6, <1>7, Zenon DEF LastOf
<1> QED BY <1>1, <1>5, <1>8

LEMMA ListingTypes ==
  ASSUME ReminderTypes, NEW only \in BOOLEAN, ScanStarts(only) \/ ScanPage \/ ScanTail \/ ScanDetails
  PROVE  ReminderTypes'
<1>1. /\ listing \in {NotListing} \cup Listing
      /\ listing.op \in {"tail", "details"} => listing.page # {}
  BY DEF ReminderTypes
<1>2. CASE ScanStarts(only)
  <2>1. Unbounded \in Nat
    BY ReminderAssumption DEF Unbounded
  <2>2. Cards(only) \subseteq Card
    BY DEF Cards
  <2>3. listing' \in Listing /\ listing'.op = "page"
    BY <1>2, <2>1, <2>2 DEF ScanStarts, Listing
  <2>4. eventsAsked' \in 0 .. EventRequests
    BY <1>2, ReminderAssumption DEF ScanStarts, AsksNow, ReminderTypes
  <2> QED BY <1>2, <2>3, <2>4 DEF ScanStarts, ReminderTypes, RowTypes
<1>3. CASE ScanPage
  <2>1. listing \in Listing
    BY <1>1, <1>3 DEF ScanPage, NotListing
  <2> DEFINE shown == FirstOf(Below(listing.only, listing.from), listing.only)
  <2>2. shown \subseteq Card
    BY DEF FirstOf, Below, Cards
  <2>3. listing' = [listing EXCEPT !.op = IF shown = {} THEN "ended" ELSE "tail", !.page = shown]
    BY <1>3 DEF ScanPage
  <2> HIDE DEF shown
  <2>4. listing' \in Listing /\ (listing'.op = "tail" => listing'.page # {}) /\ listing'.op # "details"
    BY <2>1, <2>2, <2>3 DEF Listing
  <2> QED BY <1>3, <2>4 DEF ScanPage, ListingKeeps, ReminderTypes, RowTypes
<1>4. CASE ScanTail
  <2>1. listing \in Listing /\ listing.page # {}
    BY <1>1, <1>4 DEF ScanTail, NotListing
  <2> DEFINE more == Cardinality(Below(listing.only, listing.from)) > CardLimit
  <2>2. listing' = [listing EXCEPT !.op = "details", !.more = more] /\ more \in BOOLEAN
    BY <1>4 DEF ScanTail
  <2> HIDE DEF more
  <2>3. listing' \in Listing /\ listing'.page = listing.page
    BY <2>1, <2>2 DEF Listing
  <2> QED BY <1>4, <2>1, <2>3 DEF ScanTail, ListingKeeps, ReminderTypes, RowTypes
<1>5. CASE ScanDetails
  <2>1. listing \in Listing /\ listing.page # {}
    BY <1>1, <1>5, DetailsGive DEF NotListing
  <2>2. CASE \E c \in listing.page : FoundOf(c) = {}
    <3>1. PICK crowded \in BOOLEAN : listing' = [listing EXCEPT !.op = "failed", !.crowded = crowded]
      BY <1>5, <2>2, DetailsGive, Zenon
    <3>2. listing' \in Listing /\ listing'.op = "failed"
      BY <2>1, <3>1 DEF Listing
    <3> QED BY <1>5, <3>2, DetailsGive DEF ListingKeeps, ReminderTypes, RowTypes
  <2>3. CASE \A c \in listing.page : FoundOf(c) # {}
    <3>1. LastOf \in Nat
      BY <2>1, <2>3, LastIsOldest DEF ReminderTypes
    <3> DEFINE given == [c \in Card |-> IF c \in listing.page /\ listing.given[c] < 2
                                        THEN listing.given[c] + 1 ELSE listing.given[c]]
    <3>2. given \in [Card -> 0 .. 2]
      BY <2>1 DEF Listing
    <3>3. listing' = [listing EXCEPT !.op = IF listing.more THEN "page" ELSE "ended",
                                     !.from = LastOf, !.given = given]
      BY <1>5, <2>3, DetailsGive
    <3> HIDE DEF given
    <3>4. listing' \in Listing /\ listing'.op \in {"page", "ended"}
      BY <2>1, <3>1, <3>2, <3>3 DEF Listing
    <3> QED BY <1>5, <3>4, DetailsGive DEF ListingKeeps, ReminderTypes, RowTypes
  <2> QED BY <2>2, <2>3
<1> QED BY <1>2, <1>3, <1>4, <1>5
LEMMA SelectionTypes ==
  ASSUME RowTypes, NEW s \in Selections
  PROVE  /\ s.rows \subseteq EventId /\ \A n \in s.rows : Stored(n)
         /\ s.type # NoType => s.type \in Type /\ s.max \in 0 .. LastEvent
<1>1. LastEvent \in Nat /\ EventId \subseteq Nat /\ IsFiniteSet(EventId) /\ NoType \notin Type
  BY RowsAreIds, ReminderAssumption DEF EventId
<1>2. CASE s = Everything
  BY <1>2 DEF Everything
<1>3. ASSUME NEW t \in Type, NEW cut \in EventId
      PROVE  /\ OfType(t, cut) \subseteq EventId /\ \A n \in OfType(t, cut) : Stored(n)
             /\ LargestId(OfType(t, cut)) \in 0 .. LastEvent
  <2>1. OfType(t, cut) \subseteq EventId /\ \A n \in OfType(t, cut) : Stored(n)
    BY <1>1 DEF OfType, EventId
  <2>2. IsFiniteSet(OfType(t, cut)) /\ OfType(t, cut) \in SUBSET Nat
    BY <1>1, <2>1, FS_Subset
  <2>3. OfType(t, cut) # {} => LargestId(OfType(t, cut)) \in EventId
    BY <2>1, <2>2, LargestIsThere
  <2>4. OfType(t, cut) = {} => LargestId(OfType(t, cut)) = 0
    BY DEF LargestId
  <2> QED BY <1>1, <2>1, <2>3, <2>4 DEF EventId
<1>4. ASSUME NEW t \in Type, LastEvent \notin EventId
      PROVE  LargestId(OfType(t, LastEvent)) = 0
  <2>1. OfType(t, LastEvent) = {}
    BY <1>1, <1>4 DEF OfType, EventId
  <2> QED BY <2>1 DEF LargestId
<1>5. CASE \E c \in Card : s = OneCard(c)
  <2>1. PICK c \in Card : s = OneCard(c)
    BY <1>5
  <2>2. TypeOf[c] \in Type
    BY TypesOfDeeds
  <2>3. LargestId(OfType(TypeOf[c], LastEvent)) \in 0 .. LastEvent
    BY <1>1, <1>3, <1>4, <2>2
  <2> QED BY <2>1, <2>2, <2>3 DEF OneCard
<1>6. CASE \E n \in EventId : s = OneEvent(n)
  BY <1>6 DEF OneEvent
<1>7. CASE \E t \in Type, cut \in EventId : s = WholeType(t, cut)
  BY <1>3, <1>7 DEF WholeType
<1> QED BY <1>2, <1>5, <1>6, <1>7 DEF Selections

\* What a job is that has an op.
LEMMA JobTypes ==
  ASSUME ReminderTypes, NEW w \in EventWorker
  PROVE  /\ eventJob[w].op \in {"asked", "passed", "inserted", "stored"}
              => eventJob[w].deed \in Deed
         /\ eventJob[w].op = "inserted" => eventJob[w].n \in EventId
         /\ eventJob[w].op = "mark" =>
              /\ eventJob[w].rows \subseteq EventId /\ eventJob[w].type \in Type
              /\ eventJob[w].max \in 0 .. LastEvent
BY DEF ReminderTypes, ReminderJob, NoEventJob

LEMMA ReportTypes ==
  ASSUME ReminderTypes, NEW w \in EventWorker,
         \/ \E d \in Deed : ReportAsks(w, d)
         \/ ReportPasses(w) \/ ReportDuplicate(w) \/ ReportPushes(w)
  PROVE  ReminderTypes'
<1>1. NoEventJob \in ReminderJob
  BY DEF ReminderJob
<1>2. CASE \E d \in Deed : ReportAsks(w, d)
  <2>1. PICK d \in Deed : ReportAsks(w, d)
    BY <1>2
  <2>2. [op |-> "asked", deed |-> d] \in ReminderJob
    BY DEF ReminderJob
  <2>3. eventsAsked' \in 0 .. EventRequests
    BY <2>1, ReminderAssumption DEF ReportAsks, AsksNow, ReminderTypes
  <2>4. eventJob' \in [EventWorker -> ReminderJob] /\ excused' \subseteq EventWorker
    BY <2>1, <2>2, ServeTypes DEF ReportAsks
  <2> QED BY <2>1, <2>3, <2>4 DEF ReportAsks, ReminderTypes, RowTypes
<1>3. CASE ReportPasses(w)
  <2>1. eventJob[w].deed \in Deed
    BY <1>3, JobTypes DEF ReportPasses
  <2>2. [op |-> "passed", deed |-> eventJob[w].deed] \in ReminderJob
    BY <2>1 DEF ReminderJob
  <2>3. eventJob' \in [EventWorker -> ReminderJob] /\ excused' \subseteq EventWorker
    BY <1>1, <1>3, <2>2, ServeTypes DEF ReportPasses
  <2> QED BY <1>3, <2>3 DEF ReportPasses, ReminderTypes, RowTypes
<1>4. CASE ReportDuplicate(w)
  <2>1. eventJob' \in [EventWorker -> ReminderJob] /\ excused' \subseteq EventWorker
    BY <1>1, <1>4, ServeTypes DEF ReportDuplicate
  <2> QED BY <1>4, <2>1 DEF ReportDuplicate, ReminderTypes, RowTypes
<1>5. CASE ReportPushes(w)
  <2>1. eventJob' \in [EventWorker -> ReminderJob] /\ excused' \subseteq EventWorker
    BY <1>1, <1>5, ServeTypes DEF ReportPushes
  <2>2. eventJob[w].deed \in Deed /\ pushed \in [Deed -> 0 .. 2]
    BY <1>5, JobTypes DEF ReportPushes, ReminderTypes
  <2>3. pushed' \in [Deed -> 0 .. 2]
    BY <1>5, <2>2 DEF ReportPushes
  <2> QED BY <1>5, <2>1, <2>3 DEF ReportPushes, ReminderTypes, RowTypes
<1> QED BY <1>2, <1>3, <1>4, <1>5

LEMMA InsertTypes ==
  ASSUME ReminderTypes, NEW w \in EventWorker, NEW n \in EventId, ReportInserts(w, n)
  PROVE  ReminderTypes'
<1>1. eventJob[w].deed \in Deed
  BY JobTypes DEF ReportInserts
<1>2. RowTypes'
  BY <1>1, InsertedRow DEF ReminderTypes
<1>3. [op |-> "inserted", deed |-> eventJob[w].deed, n |-> n] \in ReminderJob
  BY <1>1 DEF ReminderJob
<1>4. eventJob' \in [EventWorker -> ReminderJob] /\ excused' \subseteq EventWorker
  BY <1>3, ServeTypes DEF ReportInserts
<1> QED BY <1>2, <1>4 DEF ReportInserts, ReminderTypes

LEMMA NoticeKeepsPage ==
  ASSUME ReminderTypes, NEW cards, cards \subseteq Card, ListingNotices(cards)
  PROVE  /\ listing' \in {NotListing} \cup Listing
         /\ listing'.op \in {"tail", "details"} => listing'.page # {}
<1>1. CASE listing' = listing
  BY <1>1 DEF ReminderTypes
<1>2. CASE listing' # listing
  <2>1. listing' = [listing EXCEPT !.touched = @ \cup cards,
                        !.unsteady = @ \/ listing.op \in {"tail", "details"}]
    BY <1>2 DEF ListingNotices
  <2>2. listing \in Listing
    BY <1>2 DEF ListingNotices, NotListing, ReminderTypes
  <2>3. listing'.op = listing.op /\ listing'.page = listing.page
    BY <2>1, <2>2 DEF Listing
  <2> QED BY <2>3, NoticeTypes DEF ReminderTypes
<1> QED BY <1>1, <1>2

LEMMA CommitTypes ==
  ASSUME ReminderTypes, NEW w \in EventWorker, ReportCommits(w),
         event[eventJob[w].n].status = "inserted"
  PROVE  ReminderTypes'
<1>1. eventJob[w].deed \in Deed /\ eventJob[w].n \in EventId
  BY JobTypes DEF ReportCommits
<1>2. RowTypes'
  BY <1>1, CommittedRow DEF ReminderTypes
<1>3. [op |-> "stored", deed |-> eventJob[w].deed] \in ReminderJob
  BY <1>1 DEF ReminderJob
<1>4. eventJob' \in [EventWorker -> ReminderJob] /\ excused' \subseteq EventWorker
  BY <1>3, ServeTypes DEF ReportCommits
<1>5. {CardOf[eventJob[w].deed]} \subseteq Card
  BY <1>1, TypesOfDeeds
<1>6. /\ listing' \in {NotListing} \cup Listing
      /\ listing'.op \in {"tail", "details"} => listing'.page # {}
  BY <1>5, NoticeKeepsPage DEF ReportCommits
<1> QED BY <1>2, <1>4, <1>6 DEF ReportCommits, ReminderTypes

LEMMA SwitchTypes ==
  ASSUME ReminderTypes, ToggleBlock \/ \E t \in Type : ToggleSetting(t)
  PROVE  ReminderTypes'
<1>1. ASSUME Changes
      PROVE  excused' \subseteq EventWorker /\ eventsAsked' \in 0 .. EventRequests
  BY <1>1, ReminderAssumption DEF Changes, AsksNow, ReminderTypes
<1>2. CASE ToggleBlock
  <2>1. Changes /\ setting' = setting /\ blocked' \in BOOLEAN
    BY <1>2 DEF ToggleBlock
  <2> QED BY <1>1, <2>1 DEF Changes, ReminderTypes, RowTypes
<1>3. CASE \E t \in Type : ToggleSetting(t)
  <2>1. PICK t \in Type : ToggleSetting(t)
    BY <1>3
  <2>2. setting' \in [recv : SUBSET Type, push : SUBSET Type]
    BY <2>1 DEF ToggleSetting, ReminderTypes
  <2>3. Changes /\ blocked' = blocked
    BY <2>1 DEF ToggleSetting
  <2> QED BY <1>1, <2>2, <2>3 DEF Changes, ReminderTypes, RowTypes
<1> QED BY <1>2, <1>3

LEMMA TouchedCards ==
  ASSUME RowTypes
  PROVE  \A rows, o : CardsOf(rows \cap EventRows(o)) \subseteq Card
<1>1. \A o : \A n \in EventRows(o) : n \in EventId /\ Stored(n)
  BY DEF EventRows
<1> QED BY <1>1, CardsOfRows

LEMMA MarkTypes ==
  ASSUME ReminderTypes, NEW w \in EventWorker,
         \/ MarkCommits(w)
         \/ \E s \in Selections : MarkReads(w, s) \/ MarkFinds(w, s)
  PROVE  ReminderTypes'
<1>1. ASSUME NEW rows, MarkRows(rows)
      PROVE  /\ RowTypes' /\ listing' \in {NotListing} \cup Listing
             /\ listing'.op \in {"tail", "details"} => listing'.page # {}
  <2>1. RowTypes'
    BY <1>1, MarkedRows DEF ReminderTypes
  <2>2. PICK cards : cards \subseteq Card /\ ListingNotices(cards)
    BY <1>1, TouchedCards DEF MarkRows, ReminderTypes
  <2> QED BY <2>1, <2>2, NoticeKeepsPage
<1>2. NoEventJob \in ReminderJob
  BY DEF ReminderJob
<1>3. CASE MarkCommits(w)
  <2>1. MarkRows(eventJob[w].rows)
    BY <1>3 DEF MarkCommits
  <2>2. eventJob[w].type \in Type /\ eventJob[w].max \in 0 .. LastEvent
    BY <1>3, JobTypes DEF MarkCommits
  <2>3. lastReadId' \in [Type -> 0 .. LastEvent]
    BY <1>3, <2>2 DEF MarkCommits, Raised, ReminderTypes
  <2>4. eventJob' \in [EventWorker -> ReminderJob] /\ excused' \subseteq EventWorker
    BY <1>2, <1>3, ServeTypes DEF MarkCommits
  <2> QED BY <1>1, <1>3, <2>1, <2>3, <2>4 DEF MarkCommits, ReminderTypes
<1>4. CASE \E s \in Selections : MarkReads(w, s)
  <2>1. PICK s \in Selections : MarkReads(w, s)
    BY <1>4
  <2>2. eventsAsked' \in 0 .. EventRequests
    BY <2>1, ReminderAssumption DEF MarkReads, AsksNow, ReminderTypes
  <2> QED BY <1>1, <2>1, <2>2 DEF MarkReads, ReminderTypes
<1>5. CASE \E s \in Selections : MarkFinds(w, s)
  <2>1. PICK s \in Selections : MarkFinds(w, s)
    BY <1>5
  <2>2. s.rows \subseteq EventId /\ s.type \in Type /\ s.max \in 0 .. LastEvent
    BY <2>1, SelectionTypes DEF MarkFinds, ReminderTypes
  <2>3. [op |-> "mark", rows |-> s.rows, type |-> s.type, max |-> s.max] \in ReminderJob
    BY <2>2 DEF ReminderJob
  <2>4. eventJob' \in [EventWorker -> ReminderJob] /\ excused' \subseteq EventWorker
    BY <2>1, <2>3, ServeTypes DEF MarkFinds
  <2>5. eventsAsked' \in 0 .. EventRequests
    BY <2>1, ReminderAssumption DEF MarkFinds, AsksNow, ReminderTypes
  <2> QED BY <2>1, <2>4, <2>5 DEF MarkFinds, ReminderTypes, RowTypes
<1> QED BY <1>3, <1>4, <1>5

LEMMA DeleteTypes ==
  ASSUME ReminderTypes, NEW rows, DeleteEvents(rows)
  PROVE  ReminderTypes'
<1>1. RowTypes'
  BY DeletedRows DEF ReminderTypes
<1>2. PICK cards : cards \subseteq Card /\ ListingNotices(cards)
  BY TouchedCards DEF DeleteEvents, ReminderTypes
<1>3. /\ listing' \in {NotListing} \cup Listing
      /\ listing'.op \in {"tail", "details"} => listing'.page # {}
  BY <1>2, NoticeKeepsPage
<1>4. eventsAsked' \in 0 .. EventRequests
  BY ReminderAssumption DEF DeleteEvents, AsksNow, ReminderTypes
<1> QED BY <1>1, <1>3, <1>4 DEF DeleteEvents, ReminderTypes
-----------------------------------------------------------------------------
(* A deed is pushed once.                                                  *)

Reporting(w, d) == eventJob[w].op \in {"inserted", "stored"} /\ eventJob[w].deed = d

PushInv ==
  /\ \A w \in EventWorker : eventJob[w].op = "inserted" =>
       /\ event[eventJob[w].n].status = "inserted"
       /\ event[eventJob[w].n].deed = eventJob[w].deed
  /\ \A d \in Deed, w \in EventWorker : Reporting(w, d) =>
       /\ pushed[d] = 0
       /\ SameKey(d, "stored") = {} <=> eventJob[w].op = "inserted"
  /\ \A d \in Deed, w \in EventWorker, u \in EventWorker :
       Reporting(w, d) /\ Reporting(u, d) => w = u
  /\ PushedOnce

\* The job of one request, and the others.
LEMMA Served ==
  ASSUME ReminderTypes, NEW w \in EventWorker, NEW job, Serve(w, job)
  PROVE  /\ eventJob'[w] = job
         /\ \A u \in EventWorker : u # w => eventJob'[u] = eventJob[u]
BY DEF ReminderTypes, Serve

\* Nothing is reported by a step that leaves jobs, keys and pushes alone.
LEMMA PushInvKept ==
  ASSUME PushInv, UNCHANGED pushed,
         \A d, s : SameKey(d, s)' = SameKey(d, s),
         \A w \in EventWorker : eventJob'[w].op \in {"inserted", "stored"} =>
           /\ eventJob'[w] = eventJob[w]
           /\ eventJob[w].op = "inserted" =>
                /\ event'[eventJob[w].n].status = event[eventJob[w].n].status
                /\ event'[eventJob[w].n].deed = event[eventJob[w].n].deed
  PROVE  PushInv'
<1>1. \A d : \A w \in EventWorker : Reporting(w, d)' => Reporting(w, d)
  BY DEF Reporting
<1>2. PushedOnce'
  BY DEF PushInv, PushedOnce
<1>3. \A w \in EventWorker : eventJob'[w].op = "inserted" =>
       /\ event'[eventJob'[w].n].status = "inserted"
       /\ event'[eventJob'[w].n].deed = eventJob'[w].deed
  BY DEF PushInv
<1>4. \A d : \A w \in EventWorker : Reporting(w, d)' => eventJob'[w] = eventJob[w]
  BY DEF Reporting
<1>5. \A d \in Deed, w \in EventWorker : Reporting(w, d)' =>
       /\ pushed'[d] = 0
       /\ SameKey(d, "stored")' = {} <=> eventJob'[w].op = "inserted"
  BY <1>1, <1>4 DEF PushInv
<1>6. \A d \in Deed, w \in EventWorker, u \in EventWorker :
       Reporting(w, d)' /\ Reporting(u, d)' => w = u
  BY <1>1, Zenon DEF PushInv
<1> QED BY <1>2, <1>3, <1>5, <1>6 DEF PushInv

LEMMA FlagsKeepKeys ==
  ASSUME NEW rows, Flagged(rows)
  PROVE  /\ \A d, s : SameKey(d, s)' = SameKey(d, s)
         /\ \A n \in EventId : event'[n].status = event[n].status
                               /\ event'[n].deed = event[n].deed
BY DEF Flagged, SameKey

LEMMA PushInsert ==
  ASSUME ReminderTypes, PushInv, NEW w \in EventWorker, NEW n \in EventId, ReportInserts(w, n)
  PROVE  PushInv'
<1>1. PICK d \in Deed : d = eventJob[w].deed
  BY JobTypes DEF ReportInserts
<1>2. /\ event'[n].status = "inserted" /\ event'[n].deed = d /\ event[n].status = "none"
      /\ \A x \in EventId : x # n => event'[x] = event[x]
  BY <1>1, InsertedRow DEF ReminderTypes
<1>3. /\ eventJob'[w] = [op |-> "inserted", deed |-> d, n |-> n]
      /\ \A u \in EventWorker : u # w => eventJob'[u] = eventJob[u]
  BY <1>1, Served DEF ReportInserts
<1>4. SameKey(d, "inserted") = {} /\ SameKey(d, "stored") = {} /\ pushed' = pushed
  BY <1>1 DEF ReportInserts
<1>5. \A e : SameKey(e, "stored")' = SameKey(e, "stored")
  BY <1>2 DEF SameKey
<1>6. pushed[d] = 0
  BY <1>4 DEF PushInv, PushedOnce, ReminderTypes
<1>7. \A u \in EventWorker : ~Reporting(u, d)
  <2> SUFFICES ASSUME NEW u \in EventWorker, Reporting(u, d) PROVE FALSE
    OBVIOUS
  <2>1. CASE eventJob[u].op = "inserted"
    <3>1. eventJob[u].n \in EventId
      BY <2>1, JobTypes
    <3>2. eventJob[u].n \in SameKey(d, "inserted")
      BY <2>1, <3>1 DEF PushInv, Reporting, SameKey
    <3> QED BY <1>4, <3>2
  <2>2. CASE eventJob[u].op = "stored"
    BY <1>4, <2>2 DEF PushInv, Reporting
  <2> QED BY <2>1, <2>2 DEF Reporting
<1>8. \A e : \A u \in EventWorker : u # w => (Reporting(u, e)' <=> Reporting(u, e))
  BY <1>3 DEF Reporting
<1>9. \A e : Reporting(w, e)' <=> e = d
  BY <1>3 DEF Reporting
<1>10. PushedOnce'
  BY <1>4, <1>5 DEF PushInv, PushedOnce
<1>11. ASSUME NEW e \in Deed, NEW u \in EventWorker, Reporting(u, e)'
       PROVE  /\ pushed'[e] = 0
              /\ SameKey(e, "stored")' = {} <=> eventJob'[u].op = "inserted"
  <2>1. CASE u = w
    BY <1>3, <1>4, <1>5, <1>6, <1>9, <1>11, <2>1
  <2>2. CASE u # w
    <3>1. Reporting(u, e) /\ eventJob'[u] = eventJob[u]
      BY <1>3, <1>8, <1>11, <2>2
    <3> QED BY <1>4, <1>5, <3>1 DEF PushInv
  <2> QED BY <2>1, <2>2
<1>12. \A e \in Deed, u \in EventWorker, v \in EventWorker :
         Reporting(u, e)' /\ Reporting(v, e)' => u = v
  BY <1>7, <1>8, <1>9 DEF PushInv
<1>13. ASSUME NEW u \in EventWorker, eventJob'[u].op = "inserted"
       PROVE  /\ event'[eventJob'[u].n].status = "inserted"
              /\ event'[eventJob'[u].n].deed = eventJob'[u].deed
  <2>1. CASE u = w
    BY <1>2, <1>3, <2>1
  <2>2. CASE u # w
    <3>1. eventJob'[u] = eventJob[u] /\ eventJob[u].n \in EventId
      BY <1>3, <1>13, <2>2, JobTypes
    <3>2. /\ event[eventJob[u].n].status = "inserted"
          /\ event[eventJob[u].n].deed = eventJob[u].deed
      BY <1>13, <3>1 DEF PushInv
    <3>3. event'[eventJob[u].n] = event[eventJob[u].n]
      BY <1>2, <3>1, <3>2
    <3> QED BY <3>1, <3>2, <3>3
  <2> QED BY <2>1, <2>2
<1> QED BY <1>10, <1>11, <1>12, <1>13 DEF PushInv

LEMMA PushCommit ==
  ASSUME ReminderTypes, PushInv, NEW w \in EventWorker, ReportCommits(w)
  PROVE  PushInv'
<1>1. PICK d \in Deed, n \in EventId : d = eventJob[w].deed /\ n = eventJob[w].n
  BY JobTypes DEF ReportCommits
<1>2. Reporting(w, d) /\ event[n].status = "inserted" /\ event[n].deed = d
  BY <1>1 DEF Reporting, ReportCommits, PushInv
<1>3. /\ event'[n].status = "stored" /\ event'[n].deed = d
      /\ \A x \in EventId : x # n => event'[x] = event[x]
  BY <1>1, <1>2, CommittedRow DEF ReminderTypes
<1>4. /\ eventJob'[w] = [op |-> "stored", deed |-> d]
      /\ \A u \in EventWorker : u # w => eventJob'[u] = eventJob[u]
  BY <1>1, Served DEF ReportCommits
<1>5. pushed' = pushed
  BY DEF ReportCommits
<1>6. \A e : \A u \in EventWorker : Reporting(u, e)' <=> Reporting(u, e)
  BY <1>1, <1>2, <1>4 DEF Reporting
<1>7. \A e : e # d => SameKey(e, "stored")' = SameKey(e, "stored")
  BY <1>2, <1>3 DEF SameKey
<1>8. n \in SameKey(d, "stored")'
  BY <1>3 DEF SameKey
<1>9. \A e \in Deed : SameKey(e, "stored")' = {} => SameKey(e, "stored") = {}
  BY <1>7, <1>8
<1>10. PushedOnce'
  <2> SUFFICES ASSUME NEW e \in Deed
               PROVE  pushed'[e] <= IF SameKey(e, "stored")' = {} THEN 0 ELSE 1
    BY DEF PushedOnce
  <2>1. pushed[e] <= IF SameKey(e, "stored") = {} THEN 0 ELSE 1
    BY DEF PushInv, PushedOnce
  <2> QED BY <1>5, <1>9, <2>1 DEF ReminderTypes
<1>11. ASSUME NEW e \in Deed, NEW u \in EventWorker, Reporting(u, e)'
       PROVE  /\ pushed'[e] = 0
              /\ SameKey(e, "stored")' = {} <=> eventJob'[u].op = "inserted"
  <2>1. Reporting(u, e)
    BY <1>6, <1>11
  <2>2. CASE u = w
    <3>1. e = d
      BY <1>2, <2>1, <2>2 DEF Reporting
    <3> QED BY <1>4, <1>5, <1>8, <2>1, <2>2, <3>1 DEF PushInv
  <2>3. CASE u # w
    <3>1. e # d /\ eventJob'[u] = eventJob[u]
      BY <1>2, <1>4, <2>1, <2>3 DEF PushInv
    <3> QED BY <1>5, <1>7, <2>1, <3>1 DEF PushInv
  <2> QED BY <2>2, <2>3
<1>12. \A e \in Deed, u \in EventWorker, v \in EventWorker :
         Reporting(u, e)' /\ Reporting(v, e)' => u = v
  BY <1>6, Zenon DEF PushInv
<1>13. ASSUME NEW u \in EventWorker, eventJob'[u].op = "inserted"
       PROVE  /\ event'[eventJob'[u].n].status = "inserted"
              /\ event'[eventJob'[u].n].deed = eventJob'[u].deed
  <2>1. u # w
    BY <1>4, <1>13
  <2>2. eventJob'[u] = eventJob[u] /\ eventJob[u].n \in EventId /\ eventJob[u].deed \in Deed
    BY <1>4, <1>13, <2>1, JobTypes
  <2>3. eventJob[u].deed # d
    BY <1>2, <1>13, <2>1, <2>2 DEF PushInv, Reporting
  <2>4. /\ event[eventJob[u].n].status = "inserted"
        /\ event[eventJob[u].n].deed = eventJob[u].deed
    BY <1>13, <2>2 DEF PushInv
  <2>5. eventJob[u].n # n
    BY <1>2, <2>3, <2>4
  <2> QED BY <1>3, <2>2, <2>4, <2>5
<1> QED BY <1>10, <1>11, <1>12, <1>13 DEF PushInv

LEMMA PushPush ==
  ASSUME ReminderTypes, PushInv, NEW w \in EventWorker, ReportPushes(w)
  PROVE  PushInv'
<1>1. PICK d \in Deed : d = eventJob[w].deed
  BY JobTypes DEF ReportPushes
<1>2. Reporting(w, d) /\ SameKey(d, "stored") # {} /\ pushed[d] = 0
  BY <1>1 DEF Reporting, ReportPushes, PushInv
<1>3. /\ eventJob'[w] = NoEventJob
      /\ \A u \in EventWorker : u # w => eventJob'[u] = eventJob[u]
  BY <1>1, Served DEF ReportPushes
<1>4. event' = event /\ \A e, s : SameKey(e, s)' = SameKey(e, s)
  BY DEF ReportPushes, SameKey
<1>5. pushed'[d] \in {0, 1} /\ \A e \in Deed : e # d => pushed'[e] = pushed[e]
  BY <1>1, <1>2 DEF ReportPushes, ReminderTypes
<1>6. \A e : \A u \in EventWorker : Reporting(u, e)' => u # w /\ Reporting(u, e)
  BY <1>3 DEF Reporting, NoEventJob
<1>7. PushedOnce'
  <2> SUFFICES ASSUME NEW e \in Deed
               PROVE  pushed'[e] <= IF SameKey(e, "stored")' = {} THEN 0 ELSE 1
    BY DEF PushedOnce
  <2>1. CASE e = d
    BY <1>2, <1>4, <1>5, <2>1
  <2>2. CASE e # d
    BY <1>4, <1>5, <2>2 DEF PushInv, PushedOnce
  <2> QED BY <2>1, <2>2
<1>8. \A u \in EventWorker : eventJob'[u].op \in {"inserted", "stored"} =>
         eventJob'[u] = eventJob[u]
  BY <1>3 DEF NoEventJob
<1>9. ASSUME NEW e \in Deed, NEW u \in EventWorker, Reporting(u, e)'
      PROVE  /\ pushed'[e] = 0
             /\ SameKey(e, "stored")' = {} <=> eventJob'[u].op = "inserted"
  <2>1. u # w /\ Reporting(u, e) /\ eventJob'[u] = eventJob[u]
    BY <1>3, <1>6, <1>9
  <2>2. e # d
    BY <1>2, <2>1 DEF PushInv
  <2> QED BY <1>4, <1>5, <2>1, <2>2 DEF PushInv
<1>10. \A e \in Deed, u \in EventWorker, v \in EventWorker :
         Reporting(u, e)' /\ Reporting(v, e)' => u = v
  BY <1>6, Zenon DEF PushInv
<1>11. \A u \in EventWorker : eventJob'[u].op = "inserted" =>
         /\ event'[eventJob'[u].n].status = "inserted"
         /\ event'[eventJob'[u].n].deed = eventJob'[u].deed
  BY <1>4, <1>8 DEF PushInv
<1> QED BY <1>7, <1>9, <1>10, <1>11 DEF PushInv

LEMMA QuietKeepsPushes ==
  ASSUME ReminderTypes, PushInv, UNCHANGED <<event, pushed, eventJob>>
  PROVE  PushInv'
<1>1. \A d, s : SameKey(d, s)' = SameKey(d, s)
  BY DEF SameKey
<1> QED BY <1>1, PushInvKept

LEMMA PushOthers ==
  ASSUME ReminderTypes, PushInv, NEW w \in EventWorker,
         \/ \E d \in Deed : ReportAsks(w, d)
         \/ ReportPasses(w) \/ ReportDuplicate(w) \/ MarkCommits(w)
         \/ \E s \in Selections : MarkReads(w, s) \/ MarkFinds(w, s)
  PROVE  PushInv'
<1>1. ASSUME UNCHANGED event
      PROVE  /\ \A d, s : SameKey(d, s)' = SameKey(d, s)
             /\ \A n \in EventId : event'[n].status = event[n].status
                                   /\ event'[n].deed = event[n].deed
  BY <1>1 DEF SameKey
<1>2. \A u \in EventWorker : eventJob[u].op = "inserted" => eventJob[u].n \in EventId
  BY JobTypes
<1>3. ASSUME NEW job, Serve(w, job), job.op \notin {"inserted", "stored"}
      PROVE  \A u \in EventWorker : eventJob'[u].op \in {"inserted", "stored"} =>
               eventJob'[u] = eventJob[u]
  BY <1>3, Served
<1>4. CASE (\E d \in Deed : ReportAsks(w, d)) \/ ReportPasses(w) \/ ReportDuplicate(w)
  <2>1. UNCHANGED <<event, pushed>>
    BY <1>4 DEF ReportAsks, ReportPasses, ReportDuplicate
  <2>2. \E job : Serve(w, job) /\ job.op \notin {"inserted", "stored"}
    <3>1. ASSUME NEW d \in Deed, ReportAsks(w, d)
          PROVE  Serve(w, [op |-> "asked", deed |-> d])
      BY <3>1 DEF ReportAsks
    <3>2. ASSUME ReportPasses(w)
          PROVE  \/ Serve(w, NoEventJob)
                 \/ Serve(w, [op |-> "passed", deed |-> eventJob[w].deed])
      BY <3>2 DEF ReportPasses
    <3>3. ReportDuplicate(w) => Serve(w, NoEventJob)
      BY DEF ReportDuplicate
    <3>4. NoEventJob.op = "idle"
      BY DEF NoEventJob
    <3>5. CASE Serve(w, NoEventJob)
      BY <3>4, <3>5
    <3>6. ASSUME NEW d, NEW op \in {"asked", "passed"}, Serve(w, [op |-> op, deed |-> d])
          PROVE  \E job : Serve(w, job) /\ job.op \notin {"inserted", "stored"}
      <4>1. [op |-> op, deed |-> d].op \notin {"inserted", "stored"}
        OBVIOUS
      <4> QED BY <3>6, <4>1, Zenon
    <3> QED BY <1>4, <3>1, <3>2, <3>3, <3>5, <3>6
  <2> QED BY <1>1, <1>2, <1>3, <2>1, <2>2, PushInvKept
<1>5. CASE MarkCommits(w)
  <2>1. MarkRows(eventJob[w].rows) /\ UNCHANGED pushed
    BY <1>5 DEF MarkCommits
  <2>2. Flagged(eventJob[w].rows)
    BY <2>1, MarkedRows DEF ReminderTypes
  <2>3. \E job : Serve(w, job) /\ job.op \notin {"inserted", "stored"}
    BY <1>5 DEF MarkCommits, NoEventJob
  <2> QED BY <1>2, <1>3, <2>1, <2>2, <2>3, FlagsKeepKeys, PushInvKept
<1>6. CASE \E s \in Selections : MarkReads(w, s)
  <2>1. PICK s \in Selections : MarkReads(w, s)
    BY <1>6
  <2>2. MarkRows(s.rows) /\ UNCHANGED <<pushed, eventJob>>
    BY <2>1 DEF MarkReads
  <2>3. Flagged(s.rows)
    BY <2>2, MarkedRows DEF ReminderTypes
  <2> QED BY <1>2, <2>2, <2>3, FlagsKeepKeys, PushInvKept
<1>7. CASE \E s \in Selections : MarkFinds(w, s)
  <2>1. UNCHANGED <<event, pushed>>
    BY <1>7 DEF MarkFinds
  <2>2. \E job : Serve(w, job) /\ job.op \notin {"inserted", "stored"}
    BY <1>7 DEF MarkFinds
  <2> QED BY <1>1, <1>2, <1>3, <2>1, <2>2, PushInvKept
<1> QED BY <1>4, <1>5, <1>6, <1>7

-----------------------------------------------------------------------------
(* A closed gate.                                                          *)

\* A report on its way was asked while the gates were open, or one of them
\* was closed since.
SilentInv ==
  /\ \A w \in EventWorker : eventJob[w].op = "asked"
       /\ TypeOfDeed(eventJob[w].deed) \notin setting.recv => w \in excused
  /\ SilentOnceClosed

LEMMA SilentKept ==
  ASSUME SilentInv, UNCHANGED <<setting, blocked>>,
         \A w \in EventWorker : eventJob'[w].op \in {"asked", "passed", "inserted"} =>
           /\ w \in excused => w \in excused'
           /\ \/ eventJob'[w] = eventJob[w]
              \/ /\ eventJob'[w].op = "asked"
                 /\ TypeOfDeed(eventJob'[w].deed) \in setting.recv
              \/ /\ eventJob[w].op = "asked" /\ eventJob'[w].op = "passed"
                 /\ eventJob'[w].deed = eventJob[w].deed /\ ~Refused(eventJob[w].deed)
              \/ /\ eventJob[w].op = "passed" /\ eventJob'[w].op = "inserted"
                 /\ eventJob'[w].deed = eventJob[w].deed
  PROVE  SilentInv'
<1>1. ASSUME NEW w \in EventWorker, eventJob'[w].op = "asked",
             TypeOfDeed(eventJob'[w].deed) \notin setting.recv
      PROVE  w \in excused'
  BY <1>1 DEF SilentInv
<1>2. ASSUME NEW w \in EventWorker, eventJob'[w].op \in {"passed", "inserted"},
             Closed(eventJob'[w].deed)
      PROVE  w \in excused'
  <2>1. CASE eventJob'[w] = eventJob[w]
    BY <1>2, <2>1 DEF SilentInv, SilentOnceClosed
  <2>2. CASE /\ eventJob[w].op = "asked" /\ eventJob'[w].deed = eventJob[w].deed
             /\ ~Refused(eventJob[w].deed)
    BY <1>2, <2>2 DEF SilentInv, Closed
  <2>3. CASE eventJob[w].op = "passed" /\ eventJob'[w].deed = eventJob[w].deed
    BY <1>2, <2>3 DEF SilentInv, SilentOnceClosed
  <2> QED BY <1>2, <2>1, <2>2, <2>3
<1>3. \A d : Closed(d)' <=> Closed(d)
  BY DEF Closed, Refused
<1>4. \A w \in EventWorker : eventJob'[w].op \in {"passed", "inserted"} /\ Closed(eventJob[w].deed)'
        => w \in excused'
  BY <1>2, <1>3 DEF Closed, Refused
<1> QED BY <1>1, <1>4 DEF SilentInv, SilentOnceClosed

LEMMA ServeKeepsExcused ==
  ASSUME ReminderTypes, NEW w \in EventWorker, NEW job, Serve(w, job)
  PROVE  \A u \in EventWorker : eventJob'[u].op # "idle" /\ u \in excused => u \in excused'
<1>1. ASSUME NEW u \in EventWorker, eventJob'[u].op # "idle", u \in excused
      PROVE  u \in excused'
  <2>1. CASE u = w
    <3>1. job # NoEventJob
      BY <1>1, <2>1, Served DEF NoEventJob
    <3> QED BY <1>1, <3>1 DEF Serve
  <2>2. CASE u # w
    BY <1>1, <2>2 DEF Serve
  <2> QED BY <2>1, <2>2
<1> QED BY <1>1

LEMMA SilentStep ==
  ASSUME ReminderTypes, SilentInv, [EventNext]_eventVars
  PROVE  SilentInv'
<1>1. ASSUME NEW w \in EventWorker, NEW d \in Deed, ReportAsks(w, d)
      PROVE  SilentInv'
  <2>1. Serve(w, [op |-> "asked", deed |-> d]) /\ TypeOfDeed(d) \in setting.recv
        /\ UNCHANGED <<setting, blocked>>
    BY <1>1 DEF ReportAsks
  <2> QED BY <2>1, Served, ServeKeepsExcused, SilentKept
<1>2. ASSUME NEW w \in EventWorker, ReportPasses(w)
      PROVE  SilentInv'
  <2>1. UNCHANGED <<setting, blocked>> /\ eventJob[w].op = "asked"
    BY <1>2 DEF ReportPasses
  <2>2. CASE Refused(eventJob[w].deed)
    <3>1. Serve(w, NoEventJob)
      BY <1>2, <2>2 DEF ReportPasses
    <3> QED BY <2>1, <3>1, Served, ServeKeepsExcused, SilentKept DEF NoEventJob
  <2>3. CASE ~Refused(eventJob[w].deed)
    <3>1. Serve(w, [op |-> "passed", deed |-> eventJob[w].deed])
      BY <1>2, <2>3 DEF ReportPasses
    <3> QED BY <2>1, <2>3, <3>1, Served, ServeKeepsExcused, SilentKept
  <2> QED BY <2>2, <2>3
<1>3. ASSUME NEW w \in EventWorker, NEW n \in EventId, ReportInserts(w, n)
      PROVE  SilentInv'
  <2>1. Serve(w, [op |-> "inserted", deed |-> eventJob[w].deed, n |-> n])
        /\ UNCHANGED <<setting, blocked>> /\ eventJob[w].op = "passed"
    BY <1>3 DEF ReportInserts
  <2> QED BY <2>1, Served, ServeKeepsExcused, SilentKept
<1>4. ASSUME NEW w \in EventWorker,
             ReportDuplicate(w) \/ ReportCommits(w) \/ ReportPushes(w) \/ MarkCommits(w)
      PROVE  SilentInv'
  <2>1. UNCHANGED <<setting, blocked>>
    BY <1>4 DEF ReportDuplicate, ReportCommits, ReportPushes, MarkCommits
  <2>2. PICK job : Serve(w, job) /\ job.op \in {"idle", "stored"}
    BY <1>4 DEF ReportDuplicate, ReportCommits, ReportPushes, MarkCommits, NoEventJob
  <2> QED BY <2>1, <2>2, Served, ServeKeepsExcused, SilentKept
<1>5. ASSUME NEW w \in EventWorker, NEW s \in Selections, MarkFinds(w, s)
      PROVE  SilentInv'
  <2>1. UNCHANGED <<setting, blocked>>
        /\ Serve(w, [op |-> "mark", rows |-> s.rows, type |-> s.type, max |-> s.max])
    BY <1>5 DEF MarkFinds
  <2> QED BY <2>1, Served, ServeKeepsExcused, SilentKept
<1>6. ASSUME UNCHANGED <<setting, blocked, eventJob, excused>>
      PROVE  SilentInv'
  BY <1>6, SilentKept
<1>7. ASSUME Changes
      PROVE  SilentInv'
  <2>1. eventJob' = eventJob
        /\ \A w \in EventWorker : eventJob[w] # NoEventJob => w \in excused'
    BY <1>7 DEF Changes
  <2>2. \A w \in EventWorker : eventJob[w].op # "idle" => w \in excused'
    BY <2>1 DEF NoEventJob
  <2> QED BY <2>1, <2>2 DEF SilentInv, SilentOnceClosed
<1>8. ASSUME NEW w \in EventWorker, NEW s \in Selections, MarkReads(w, s)
      PROVE  SilentInv'
  BY <1>6, <1>8 DEF MarkReads
<1>9. ASSUME \/ \E n \in EventId : DeleteEvents({n})
             \/ \E only \in BOOLEAN : ScanStarts(only)
             \/ ScanPage \/ ScanTail \/ ScanDetails \/ UNCHANGED eventVars
      PROVE  SilentInv'
  BY <1>6, <1>9 DEF DeleteEvents, ScanStarts, ScanPage, ScanTail, ScanDetails,
                    ListingKeeps, eventVars
<1>10. ASSUME ToggleBlock \/ \E t \in Type : ToggleSetting(t)
       PROVE  SilentInv'
  BY <1>7, <1>10 DEF ToggleBlock, ToggleSetting
<1> QED BY <1>1, <1>2, <1>3, <1>4, <1>5, <1>8, <1>9, <1>10 DEF EventNext
-----------------------------------------------------------------------------
(* A scan gives every card that stays as it was, once.                     *)

Untouched == listing.start \ listing.touched
IsGiven(c) == listing.given[c] = 1
AwaitsPage == listing.op \in {"page", "tail", "details"}

\* Of the cards that were there at the start and did not change, those below
\* the cursor are still to be given, once, and the others have been; between
\* the queries of a page it is what the first of them found.
ScanInv ==
  /\ listing.op # "idle" => listing.start \subseteq Card
  /\ listing.op # "idle" /\ ~listing.unsteady =>
       /\ \A c \in Untouched : RowsOf(c, listing.only) # {}
       /\ AwaitsPage => \A c \in Untouched :
            listing.given[c] = IF Newest(c, listing.only) < listing.from THEN 0 ELSE 1
       /\ listing.op = "ended" => \A c \in Untouched : IsGiven(c)
       /\ listing.op \in {"tail", "details"} =>
            listing.page = FirstOf(Below(listing.only, listing.from), listing.only)
       /\ listing.op = "details" =>
            listing.more = (Cardinality(Below(listing.only, listing.from)) > CardLimit)
       /\ listing.op = "failed" => listing.crowded

\* What other requests do to the cards is noted.
KeepsCards(cards) ==
  /\ cards \subseteq Card /\ ListingNotices(cards)
  /\ \A o \in BOOLEAN : listing.op # "idle" /\ o = listing.only =>
       \A c \in Card \ cards : RowsOf(c, o)' = RowsOf(c, o)

LEMMA SameCards ==
  ASSUME NEW o, NEW f, \A c \in Card : RowsOf(c, o)' = RowsOf(c, o)
  PROVE  /\ \A c \in Card : Newest(c, o)' = Newest(c, o)
         /\ Below(o, f)' = Below(o, f)
         /\ FirstOf(Below(o, f), o)' = FirstOf(Below(o, f), o)
<1>1. \A c \in Card : Newest(c, o)' = Newest(c, o)
  BY DEF Newest
<1>2. Cards(o)' = Cards(o) /\ Cards(o) \subseteq Card
  BY DEF Cards
<1>3. Below(o, f)' = Below(o, f) /\ Below(o, f) \subseteq Card
  BY <1>1, <1>2 DEF Below
<1>4. \A c \in Card : {x \in Below(o, f)' : Newest(x, o)' > Newest(c, o)'}
                      = {x \in Below(o, f) : Newest(x, o) > Newest(c, o)}
  BY <1>1, <1>3
<1>5. FirstOf(Below(o, f), o)' = {c \in Below(o, f)' :
        Cardinality({x \in Below(o, f)' : Newest(x, o)' > Newest(c, o)'}) < CardLimit}
  BY DEF FirstOf
<1>6. FirstOf(Below(o, f), o) = {c \in Below(o, f) :
        Cardinality({x \in Below(o, f) : Newest(x, o) > Newest(c, o)}) < CardLimit}
  BY DEF FirstOf
<1> QED BY <1>1, <1>3, <1>4, <1>5, <1>6

LEMMA ScanKept ==
  ASSUME ReminderTypes, ScanInv, NEW cards, KeepsCards(cards)
  PROVE  ScanInv'
<1>1. CASE listing = NotListing
  BY <1>1 DEF KeepsCards, ListingNotices, ScanInv, NotListing
<1>2. CASE listing \in Listing
  <2> PICK o \in BOOLEAN, f \in Nat : o = listing.only /\ f = listing.from
    BY <1>2 DEF Listing
  <2>1. listing.op # "idle"
    BY <1>2 DEF Listing
  <2>2. \A c \in Card \ cards : RowsOf(c, o)' = RowsOf(c, o)
    BY <2>1 DEF KeepsCards
  <2>3. \A c \in Card \ cards : Newest(c, o)' = Newest(c, o)
    BY <2>2 DEF Newest
  <2>4. CASE cards = {}
    <3>1. listing' = listing
      BY <2>4 DEF KeepsCards, ListingNotices
    <3>2. /\ \A c \in Card : Newest(c, o)' = Newest(c, o)
          /\ Below(o, f)' = Below(o, f)
          /\ FirstOf(Below(o, f), o)' = FirstOf(Below(o, f), o)
      BY <2>2, <2>4, SameCards
    <3>3. /\ \A c \in Card : Newest(c, listing.only)' = Newest(c, listing.only)
          /\ \A c \in Card : RowsOf(c, listing.only)' = RowsOf(c, listing.only)
          /\ Below(listing.only, listing.from)' = Below(listing.only, listing.from)
          /\ FirstOf(Below(listing.only, listing.from), listing.only)'
               = FirstOf(Below(listing.only, listing.from), listing.only)
      <4>1. listing'.only = o /\ listing'.from = f
        BY <3>1
      <4> QED BY <2>2, <2>4, <3>2, <4>1
    <3>4. Untouched' = Untouched /\ (AwaitsPage' <=> AwaitsPage)
          /\ \A c : IsGiven(c)' <=> IsGiven(c)
      BY <3>1 DEF Untouched, AwaitsPage, IsGiven
    <3> QED BY <2>1, <3>1, <3>3, <3>4 DEF ScanInv, Untouched
  <2>5. CASE cards # {}
    <3>1. listing' = [listing EXCEPT !.touched = @ \cup cards,
                          !.unsteady = @ \/ listing.op \in {"tail", "details"}]
      BY <2>1, <2>5 DEF KeepsCards, ListingNotices
    <3>2. /\ listing'.op = listing.op /\ listing'.only = o /\ listing'.from = f
          /\ listing'.start = listing.start /\ listing'.touched = listing.touched \cup cards
          /\ listing'.given = listing.given /\ listing'.crowded = listing.crowded
          /\ listing'.unsteady <=> listing.unsteady \/ listing.op \in {"tail", "details"}
      BY <1>2, <3>1 DEF Listing
    <3>3. Untouched' \subseteq Untouched /\ Untouched' \subseteq Card \ cards
      BY <2>1, <3>2 DEF Untouched, ScanInv
    <3>4. \A c \in Untouched' : RowsOf(c, listing.only)' = RowsOf(c, listing.only)
                                /\ Newest(c, listing.only)' = Newest(c, listing.only)
      BY <2>2, <2>3, <3>2, <3>3 DEF RowsOf, Newest
    <3>5. listing'.op \in {"tail", "details"} => listing'.unsteady
      BY <3>2
    <3>6. (AwaitsPage' <=> AwaitsPage) /\ \A c : IsGiven(c)' <=> IsGiven(c)
      BY <3>2 DEF AwaitsPage, IsGiven
    <3> QED BY <2>1, <3>2, <3>3, <3>4, <3>5, <3>6 DEF ScanInv
  <2> QED BY <2>4, <2>5
<1> QED BY <1>1, <1>2 DEF ReminderTypes
LEMMA RowsFacts ==
  \A n, c, o : n \in RowsOf(c, o) <=>
    /\ n \in EventId /\ event[n].status = "stored" /\ ~event[n].deleted
    /\ o => ~event[n].read
    /\ CardOf[event[n].deed] = c
BY DEF RowsOf, EventRows, Stored

LEMMA RowsFactsNext ==
  \A n, c, o : n \in RowsOf(c, o)' <=>
    /\ n \in EventId /\ event'[n].status = "stored" /\ ~event'[n].deleted
    /\ o => ~event'[n].read
    /\ CardOf[event'[n].deed] = c
BY DEF RowsOf, EventRows, Stored

\* Two sets with the same elements.
LEMMA SameRows ==
  ASSUME NEW c, NEW o, \A n : n \in RowsOf(c, o)' <=> n \in RowsOf(c, o)
  PROVE  RowsOf(c, o)' = RowsOf(c, o)
<1>1. \A S, T : (\A n : n \in S <=> n \in T) => S = T
  OBVIOUS
<1> QED BY <1>1

LEMMA MarkKeepsCards ==
  ASSUME ReminderTypes, NEW rows, MarkRows(rows)
  PROVE  \E cards : KeepsCards(cards)
<1>1. PICK cards : /\ cards = IF listing.op # "idle" /\ listing.only
                              THEN CardsOf(rows \cap EventRows(TRUE)) ELSE {}
                   /\ ListingNotices(cards)
  BY DEF MarkRows
<1>2. cards \subseteq Card
  BY <1>1, TouchedCards DEF ReminderTypes
<1>3. /\ \A n \in EventId : n \notin rows => event'[n] = event[n]
      /\ \A n \in EventId : /\ event'[n].status = event[n].status
                            /\ event'[n].deed = event[n].deed
                            /\ event'[n].deleted = event[n].deleted
      /\ \A n \in rows \cap EventId : event'[n].read
  BY MarkedRows DEF ReminderTypes, Flagged
<1>4. ASSUME NEW o \in BOOLEAN, listing.op # "idle", o = listing.only, NEW c \in Card \ cards
      PROVE  RowsOf(c, o)' = RowsOf(c, o)
  <2>1. ASSUME NEW n
        PROVE  n \in RowsOf(c, o)' <=> n \in RowsOf(c, o)
    <3>1. CASE ~o
      BY <1>3, <3>1, RowsFacts, RowsFactsNext
    <3>2. CASE o /\ n \in EventId /\ n \notin rows
      <4>1. event'[n] = event[n]
        BY <1>3, <3>2
      <4> QED BY <3>2, <4>1, RowsFacts, RowsFactsNext
    <3>3. CASE o /\ n \in EventId /\ n \in rows
      <4>1. n \notin RowsOf(c, o)'
        BY <1>3, <3>3, RowsFactsNext
      <4>2. n \in RowsOf(c, o) => n \in EventRows(TRUE) /\ CardOf[event[n].deed] = c
        BY <3>3 DEF RowsOf, EventRows
      <4>3. cards = CardsOf(rows \cap EventRows(TRUE))
        BY <1>1, <1>4, <3>3
      <4> QED BY <1>4, <3>3, <4>1, <4>2, <4>3 DEF CardsOf
    <3> QED BY <3>1, <3>2, <3>3, RowsFacts, RowsFactsNext
  <2> QED BY <2>1, SameRows
<1> QED BY <1>1, <1>2, <1>4 DEF KeepsCards

LEMMA DeleteKeepsCards ==
  ASSUME ReminderTypes, NEW rows, DeleteEvents(rows)
  PROVE  \E cards : KeepsCards(cards)
<1>1. PICK cards : /\ cards = IF listing.op = "idle" THEN {}
                              ELSE CardsOf(rows \cap EventRows(listing.only))
                   /\ ListingNotices(cards)
  BY DEF DeleteEvents
<1>2. cards \subseteq Card
  BY <1>1, TouchedCards DEF ReminderTypes
<1>3. \A n \in EventId : n \notin rows => event'[n] = event[n]
  BY DeletedRows DEF ReminderTypes, Flagged
<1>4. \A n \in EventId \cap rows : event'[n].deleted
  <2>1. \A n \in EventId \cap rows : event'[n] = [event[n] EXCEPT !.deleted = TRUE]
    BY DEF DeleteEvents
  <2> QED BY <2>1 DEF ReminderTypes, RowTypes, EventRow
<1>5. ASSUME NEW o \in BOOLEAN, listing.op # "idle", o = listing.only, NEW c \in Card \ cards
      PROVE  RowsOf(c, o)' = RowsOf(c, o)
  <2>1. ASSUME NEW n
        PROVE  n \in RowsOf(c, o)' <=> n \in RowsOf(c, o)
    <3>1. CASE n \in EventId /\ n \notin rows
      BY <1>3, <3>1, RowsFacts, RowsFactsNext
    <3>2. CASE n \in EventId /\ n \in rows
      <4>1. n \notin RowsOf(c, o)'
        BY <1>4, <3>2, RowsFactsNext
      <4>2. n \in RowsOf(c, o) => n \in EventRows(o) /\ CardOf[event[n].deed] = c
        BY DEF RowsOf
      <4>3. cards = CardsOf(rows \cap EventRows(o))
        BY <1>1, <1>5
      <4> QED BY <1>5, <3>2, <4>1, <4>2, <4>3 DEF CardsOf
    <3> QED BY <3>1, <3>2, RowsFacts, RowsFactsNext
  <2> QED BY <2>1, SameRows
<1> QED BY <1>1, <1>2, <1>5 DEF KeepsCards

LEMMA InsertKeepsCards ==
  ASSUME ReminderTypes, NEW w \in EventWorker, NEW n \in EventId, ReportInserts(w, n)
  PROVE  KeepsCards({})
<1>1. eventJob[w].deed \in Deed
  BY JobTypes DEF ReportInserts
<1>2. /\ event'[n].status = "inserted" /\ event[n].status = "none"
      /\ \A x \in EventId : x # n => event'[x] = event[x]
  BY <1>1, InsertedRow DEF ReminderTypes
<1>3. ASSUME NEW o, NEW c
      PROVE  RowsOf(c, o)' = RowsOf(c, o)
  <2>1. ASSUME NEW x
        PROVE  x \in RowsOf(c, o)' <=> x \in RowsOf(c, o)
    <3>1. CASE x = n
      BY <1>2, <3>1, RowsFacts, RowsFactsNext
    <3>2. CASE x # n
      BY <1>2, <3>2, RowsFacts, RowsFactsNext
    <3> QED BY <3>1, <3>2
  <2> QED BY <2>1, SameRows
<1>4. ListingNotices({})
  BY DEF ReportInserts, ListingNotices
<1> QED BY <1>3, <1>4 DEF KeepsCards

LEMMA CommitKeepsCards ==
  ASSUME ReminderTypes, PushInv, NEW w \in EventWorker, ReportCommits(w)
  PROVE  \E cards : KeepsCards(cards)
<1>1. PICK d \in Deed, n \in EventId : d = eventJob[w].deed /\ n = eventJob[w].n
  BY JobTypes DEF ReportCommits
<1>2. event[n].status = "inserted" /\ event[n].deed = d
  BY <1>1 DEF ReportCommits, PushInv
<1>3. /\ event'[n].status = "stored" /\ event'[n].deed = d
      /\ \A x \in EventId : x # n => event'[x] = event[x]
  BY <1>1, <1>2, CommittedRow DEF ReminderTypes
<1>4. {CardOf[d]} \subseteq Card /\ ListingNotices({CardOf[d]})
  BY <1>1, TypesOfDeeds DEF ReportCommits
<1>5. ASSUME NEW o, NEW c \in Card \ {CardOf[d]}
      PROVE  RowsOf(c, o)' = RowsOf(c, o)
  <2>1. ASSUME NEW x
        PROVE  x \in RowsOf(c, o)' <=> x \in RowsOf(c, o)
    <3>1. CASE x = n
      BY <1>2, <1>3, <1>5, <3>1, RowsFacts, RowsFactsNext
    <3>2. CASE x # n
      BY <1>3, <3>2, RowsFacts, RowsFactsNext
    <3> QED BY <3>1, <3>2
  <2> QED BY <2>1, SameRows
<1>6. KeepsCards({CardOf[d]})
  BY <1>4, <1>5 DEF KeepsCards
<1> QED BY <1>6

LEMMA RestKeepsCards ==
  ASSUME UNCHANGED <<event, listing>>
  PROVE  KeepsCards({})
<1>1. \A o, c : RowsOf(c, o)' = RowsOf(c, o)
  BY DEF RowsOf, EventRows, Stored
<1> QED BY <1>1 DEF KeepsCards, ListingNotices

-----------------------------------------------------------------------------
(* The steps of a scan.                                                    *)

\* The cards are not changed by them.
LEMMA ScanLeavesRows ==
  ASSUME ScanPage \/ ScanTail \/ ScanDetails \/ \E only \in BOOLEAN : ScanStarts(only)
  PROVE  /\ \A o, c : RowsOf(c, o)' = RowsOf(c, o) /\ Newest(c, o)' = Newest(c, o)
         /\ \A o, f : Below(o, f)' = Below(o, f)
         /\ \A o, f : FirstOf(Below(o, f), o)' = FirstOf(Below(o, f), o)
<1>1. event' = event
  BY DEF ScanPage, ScanTail, ScanDetails, ScanStarts, ListingKeeps
<1>2. \A o, c : RowsOf(c, o)' = RowsOf(c, o)
  BY <1>1 DEF RowsOf, EventRows, Stored
<1>3. \A o, c : Newest(c, o)' = Newest(c, o)
  BY <1>2 DEF Newest
<1> QED BY <1>2, <1>3, SameCards

LEMMA StartScans ==
  ASSUME ReminderTypes, NEW only \in BOOLEAN, ScanStarts(only)
  PROVE  ScanInv'
<1>1. listing' = [op |-> "page", only |-> only, from |-> Unbounded, start |-> Cards(only),
                  page |-> {}, more |-> FALSE, given |-> [c \in Card |-> 0],
                  touched |-> {}, unsteady |-> FALSE, crowded |-> FALSE]
  BY DEF ScanStarts
<1>2. \A c \in Cards(only) : /\ c \in Card /\ RowsOf(c, only) # {}
                             /\ Newest(c, only) < Unbounded
  <2> TAKE c \in Cards(only)
  <2>1. c \in Card /\ RowsOf(c, only) # {}
    BY DEF Cards
  <2> QED BY <2>1, NewestIsThere, ReminderAssumption DEF Unbounded, ReminderTypes
<1>3. \A c : RowsOf(c, only)' = RowsOf(c, only) /\ Newest(c, only)' = Newest(c, only)
  BY ScanLeavesRows
<1>4. \A c \in listing'.start : /\ RowsOf(c, listing.only)' # {}
                                /\ Newest(c, listing.only)' < listing'.from
                                /\ listing'.given[c] = 0
  BY <1>1, <1>2, <1>3
<1>5. listing'.start \subseteq Card /\ listing'.op = "page"
  BY <1>1, <1>2
<1> QED BY <1>4, <1>5 DEF ScanInv, Untouched, AwaitsPage

LEMMA PageScans ==
  ASSUME ReminderTypes, ScanInv, ScanPage
  PROVE  ScanInv'
<1>1. listing \in Listing /\ listing.op = "page"
  BY DEF ScanPage, NotListing, ReminderTypes
<1> PICK o \in BOOLEAN, f \in Nat : o = listing.only /\ f = listing.from
  BY <1>1 DEF Listing
<1>2. PICK shown : shown = FirstOf(Below(o, f), o)
  OBVIOUS
<1>3. /\ listing'.op = IF shown = {} THEN "ended" ELSE "tail"
      /\ listing'.page = shown /\ listing'.only = o /\ listing'.from = f
      /\ listing'.start = listing.start /\ listing'.touched = listing.touched
      /\ listing'.unsteady = listing.unsteady /\ listing'.given = listing.given
  BY <1>1, <1>2 DEF ScanPage, Listing
<1>4. /\ \A c : RowsOf(c, o)' = RowsOf(c, o) /\ Newest(c, o)' = Newest(c, o)
      /\ FirstOf(Below(o, f), o)' = FirstOf(Below(o, f), o)
  BY ScanLeavesRows
<1>5. Untouched' = Untouched /\ listing.start \subseteq Card
  BY <1>1, <1>3 DEF Untouched, ScanInv
<1>6. ASSUME ~listing.unsteady, NEW c \in Untouched
      PROVE  /\ RowsOf(c, o) # {}
             /\ listing.given[c] = IF Newest(c, o) < f THEN 0 ELSE 1
  BY <1>1, <1>6 DEF ScanInv, AwaitsPage
<1>7. ASSUME ~listing.unsteady, shown = {}, NEW c \in Untouched
      PROVE  listing.given[c] = 1
  <2>1. Below(o, f) = {}
    BY <1>2, <1>7, PageIsNext DEF ReminderTypes
  <2>2. c \in Cards(o)
    BY <1>5, <1>6, <1>7 DEF Cards, Untouched
  <2>3. ~(Newest(c, o) < f)
    BY <2>1, <2>2 DEF Below
  <2> QED BY <1>6, <1>7, <2>3
<1>8. /\ \A c : RowsOf(c, listing.only)' = RowsOf(c, o) /\ Newest(c, listing.only)' = Newest(c, o)
      /\ FirstOf(Below(listing.only, listing.from), listing.only)' = shown
  BY <1>2, <1>3, <1>4
<1> QED BY <1>3, <1>5, <1>6, <1>7, <1>8 DEF ScanInv, AwaitsPage, IsGiven

LEMMA TailScans ==
  ASSUME ReminderTypes, ScanInv, ScanTail
  PROVE  ScanInv'
<1>1. listing \in Listing /\ listing.op = "tail"
  BY DEF ScanTail, NotListing, ReminderTypes
<1> PICK o \in BOOLEAN, f \in Nat : o = listing.only /\ f = listing.from
  BY <1>1 DEF Listing
<1>2. PICK more : more = (Cardinality(Below(o, f)) > CardLimit)
  OBVIOUS
<1>3. /\ listing'.op = "details" /\ listing'.more = more
      /\ listing'.page = listing.page /\ listing'.only = o /\ listing'.from = f
      /\ listing'.start = listing.start /\ listing'.touched = listing.touched
      /\ listing'.unsteady = listing.unsteady /\ listing'.given = listing.given
  BY <1>1, <1>2 DEF ScanTail, Listing
<1>4. /\ \A c : RowsOf(c, o)' = RowsOf(c, o) /\ Newest(c, o)' = Newest(c, o)
      /\ FirstOf(Below(o, f), o)' = FirstOf(Below(o, f), o)
      /\ Below(o, f)' = Below(o, f)
  BY ScanLeavesRows
<1>5. Untouched' = Untouched /\ listing.start \subseteq Card
  BY <1>1, <1>3 DEF Untouched, ScanInv
<1>6. ~listing.unsteady =>
        /\ \A c \in Untouched : /\ RowsOf(c, o) # {}
                                /\ listing.given[c] = IF Newest(c, o) < f THEN 0 ELSE 1
        /\ listing.page = FirstOf(Below(o, f), o)
  BY <1>1 DEF ScanInv, AwaitsPage
<1>7. /\ \A c : RowsOf(c, listing.only)' = RowsOf(c, o) /\ Newest(c, listing.only)' = Newest(c, o)
      /\ FirstOf(Below(listing.only, listing.from), listing.only)' = FirstOf(Below(o, f), o)
      /\ Below(listing.only, listing.from)' = Below(o, f)
  BY <1>3, <1>4
<1>8. listing'.more = (Cardinality(Below(listing.only, listing.from)') > CardLimit)
  BY <1>2, <1>3, <1>7
<1> QED BY <1>3, <1>5, <1>6, <1>7, <1>8 DEF ScanInv, AwaitsPage

LEMMA DetailsScan ==
  ASSUME ReminderTypes, ScanInv, ScanDetails
  PROVE  ScanInv'
<1>1. listing.op = "details" /\ listing \in Listing /\ listing.page # {}
  BY DetailsGive DEF NotListing, ReminderTypes
<1> PICK o \in BOOLEAN, f \in Nat : o = listing.only /\ f = listing.from
  BY <1>1 DEF Listing
<1>2. listing.start \subseteq Card
  BY <1>1 DEF ScanInv
<1>3. ~listing.unsteady =>
        /\ \A c \in Untouched : /\ RowsOf(c, o) # {}
                                /\ listing.given[c] = IF Newest(c, o) < f THEN 0 ELSE 1
        /\ listing.page = FirstOf(Below(o, f), o)
        /\ listing.more = (Cardinality(Below(o, f)) > CardLimit)
  BY <1>1 DEF ScanInv, AwaitsPage
<1>4. \A c : RowsOf(c, o)' = RowsOf(c, o) /\ Newest(c, o)' = Newest(c, o)
  BY ScanLeavesRows
<1>5. CASE \E c \in listing.page : FoundOf(c) = {}
  <2>1. PICK crowded \in BOOLEAN :
          /\ listing' = [listing EXCEPT !.op = "failed", !.crowded = crowded]
          /\ crowded = \E c \in listing.page : RowsOf(c, listing.only) # {} /\ FoundOf(c) = {}
    BY <1>5, DetailsGive, Zenon
  <2>2. /\ listing'.op = "failed" /\ listing'.crowded = crowded /\ listing'.only = o
        /\ listing'.start = listing.start /\ listing'.touched = listing.touched
        /\ listing'.unsteady = listing.unsteady
    BY <1>1, <2>1 DEF Listing
  <2>3. ~listing.unsteady => crowded
    <3>1. \A c \in Below(o, f) : RowsOf(c, o) # {}
      BY DEF Below, Cards
    <3>2. FirstOf(Below(o, f), o) \subseteq Below(o, f)
      BY DEF FirstOf
    <3> QED BY <1>3, <1>5, <2>1, <3>1, <3>2
  <2>4. Untouched' = Untouched /\ \A c : RowsOf(c, listing.only)' = RowsOf(c, o)
    BY <1>4, <2>2 DEF Untouched
  <2> QED BY <1>2, <1>3, <2>2, <2>3, <2>4 DEF ScanInv, AwaitsPage
<1>6. CASE \A c \in listing.page : FoundOf(c) # {}
  <2>1. PICK last \in Nat :
          /\ last = LastOf
          /\ \E c \in listing.page : last = Newest(c, o)
          /\ \A c \in listing.page : last <= Newest(c, o)
    BY <1>1, <1>6, LastIsOldest DEF ReminderTypes
  <2> DEFINE given == [c \in Card |-> IF c \in listing.page /\ listing.given[c] < 2
                                      THEN listing.given[c] + 1 ELSE listing.given[c]]
  <2>2. listing' = [listing EXCEPT !.op = IF listing.more THEN "page" ELSE "ended",
                                   !.from = last, !.given = given]
    BY <1>6, <2>1, DetailsGive
  <2>3. /\ listing'.op = IF listing.more THEN "page" ELSE "ended"
        /\ listing'.from = last /\ listing'.given = given /\ listing'.only = o
        /\ listing'.start = listing.start /\ listing'.touched = listing.touched
        /\ listing'.unsteady = listing.unsteady
    <3> HIDE DEF given
    <3> QED BY <1>1, <2>2 DEF Listing
  <2>4. Untouched' = Untouched /\ Untouched \subseteq Card
        /\ \A c : RowsOf(c, listing.only)' = RowsOf(c, o) /\ Newest(c, listing.only)' = Newest(c, o)
    BY <1>2, <1>4, <2>3 DEF Untouched
  <2>5. ASSUME ~listing.unsteady, NEW c \in Untouched
        PROVE  /\ listing.more => given[c] = IF Newest(c, o) < last THEN 0 ELSE 1
               /\ ~listing.more => given[c] = 1
    <3>1. c \in Card /\ RowsOf(c, o) # {} /\ c \in Cards(o)
      BY <1>3, <2>4, <2>5 DEF Cards
    <3>2. Newest(c, o) \in Nat
      BY <3>1, NewestIsThere DEF ReminderTypes
    <3>3. /\ listing.page \subseteq Below(o, f)
          /\ c \in Below(o, f) \ listing.page => Newest(c, o) < last
          /\ ~listing.more => listing.page = Below(o, f)
      <4>1. listing.page = FirstOf(Below(o, f), o)
            /\ listing.more = (Cardinality(Below(o, f)) > CardLimit)
        BY <1>3, <2>5
      <4>2. \A x \in Below(o, f) \ listing.page : \A p \in listing.page :
              Newest(x, o) < Newest(p, o)
        BY <4>1, PageIsNext DEF ReminderTypes
      <4>3. listing.page \subseteq Below(o, f) /\ (~listing.more => listing.page = Below(o, f))
        BY <4>1, PageIsNext DEF ReminderTypes
      <4> QED BY <2>1, <4>2, <4>3
    <3>4. c \in Below(o, f) <=> Newest(c, o) < f
      BY <3>1 DEF Below
    <3>5. last < f
      BY <2>1, <3>3 DEF Below
    <3>6. listing.given[c] = IF Newest(c, o) < f THEN 0 ELSE 1
      BY <1>3, <2>5
    <3>7. CASE c \in listing.page
      <4>1. Newest(c, o) < f /\ last <= Newest(c, o)
        BY <2>1, <3>3, <3>4, <3>7
      <4>2. given[c] = 1
        BY <3>1, <3>6, <3>7, <4>1
      <4> QED BY <2>1, <3>2, <4>1, <4>2
    <3>8. CASE c \notin listing.page
      <4>1. given[c] = listing.given[c]
        BY <3>1, <3>8
      <4> QED BY <2>1, <3>2, <3>3, <3>4, <3>5, <3>6, <3>8, <4>1
    <3> QED BY <3>7, <3>8
  <2> HIDE DEF given
  <2> QED BY <1>2, <1>3, <2>3, <2>4, <2>5 DEF ScanInv, AwaitsPage, IsGiven
<1> QED BY <1>5, <1>6
-----------------------------------------------------------------------------
(* The invariant.                                                          *)

ReminderInv == ReminderTypes /\ PushInv /\ SilentInv /\ ScanInv

LEMMA ReminderStart == EventInit => ReminderInv
<1> SUFFICES ASSUME EventInit PROVE ReminderInv
  OBVIOUS
<1>1. LastEvent \in Nat /\ EventRequests \in Nat /\ Silent \subseteq Type
  BY ReminderAssumption
<1>2. NoEvent \in EventRow /\ NoEvent.status = "none"
  BY DEF NoEvent, EventRow
<1>3. RowTypes
  BY <1>2 DEF EventInit, RowTypes
<1>4. ReminderTypes
  <2>1. setting \in [recv : SUBSET Type, push : SUBSET Type] /\ blocked \in BOOLEAN
    BY <1>1 DEF EventInit
  <2>2. lastReadId \in [Type -> 0 .. LastEvent] /\ pushed \in [Deed -> 0 .. 2]
        /\ eventsAsked \in 0 .. EventRequests
    BY <1>1 DEF EventInit
  <2>3. eventJob \in [EventWorker -> ReminderJob] /\ excused \subseteq EventWorker
    BY DEF EventInit, ReminderJob
  <2>4. listing = NotListing /\ listing.op = "idle"
    BY DEF EventInit, NotListing
  <2> QED BY <1>3, <2>1, <2>2, <2>3, <2>4 DEF ReminderTypes
<1>5. \A w \in EventWorker : eventJob[w].op = "idle"
  BY DEF EventInit, NoEventJob
<1>6. PushInv
  BY <1>5 DEF EventInit, PushInv, PushedOnce, Reporting
<1>7. SilentInv
  BY <1>5 DEF SilentInv, SilentOnceClosed
<1>8. ScanInv
  BY DEF EventInit, NotListing, ScanInv
<1> QED BY <1>4, <1>6, <1>7, <1>8 DEF ReminderInv

LEMMA ReminderStep == ReminderInv /\ [EventNext]_eventVars => ReminderInv'
<1> SUFFICES ASSUME ReminderInv, [EventNext]_eventVars PROVE ReminderInv'
  OBVIOUS
<1> USE DEF ReminderInv
<1>1. SilentInv'
  BY SilentStep
<1>2. ASSUME NEW w \in EventWorker, NEW n \in EventId, ReportInserts(w, n)
      PROVE  ReminderInv'
  BY <1>1, <1>2, InsertTypes, PushInsert, InsertKeepsCards, ScanKept
<1>3. ASSUME NEW w \in EventWorker, ReportCommits(w)
      PROVE  ReminderInv'
  <2>1. event[eventJob[w].n].status = "inserted"
    BY <1>3 DEF ReportCommits, PushInv
  <2>2. ReminderTypes' /\ PushInv'
    BY <1>3, <2>1, CommitTypes, PushCommit
  <2> QED BY <1>1, <1>3, <2>2, CommitKeepsCards, ScanKept
<1>4. ASSUME NEW w \in EventWorker,
             \/ \E d \in Deed : ReportAsks(w, d)
             \/ ReportPasses(w) \/ ReportDuplicate(w) \/ ReportPushes(w)
      PROVE  ReminderInv'
  <2>1. ReminderTypes'
    BY <1>4, ReportTypes
  <2>2. PushInv'
    BY <1>4, PushOthers, PushPush
  <2>3. UNCHANGED <<event, listing>>
    BY <1>4 DEF ReportAsks, ReportPasses, ReportDuplicate, ReportPushes
  <2> QED BY <1>1, <2>1, <2>2, <2>3, RestKeepsCards, ScanKept
<1>5. ASSUME NEW w \in EventWorker,
             \/ MarkCommits(w)
             \/ \E s \in Selections : MarkReads(w, s) \/ MarkFinds(w, s)
      PROVE  ReminderInv'
  <2>1. ReminderTypes' /\ PushInv'
    BY <1>5, MarkTypes, PushOthers
  <2>2. (\E rows : MarkRows(rows)) \/ UNCHANGED <<event, listing>>
    BY <1>5 DEF MarkCommits, MarkReads, MarkFinds
  <2> QED BY <1>1, <2>1, <2>2, MarkKeepsCards, RestKeepsCards, ScanKept
<1>6. ASSUME NEW n \in EventId, DeleteEvents({n})
      PROVE  ReminderInv'
  <2>2. Flagged({n}) /\ UNCHANGED <<pushed, eventJob>>
    BY <1>6, DeletedRows DEF DeleteEvents, ReminderTypes
  <2>3. \A u \in EventWorker : eventJob[u].op = "inserted" => eventJob[u].n \in EventId
    BY JobTypes
  <2>4. PushInv'
    BY <2>2, <2>3, FlagsKeepKeys, PushInvKept
  <2>5. ReminderTypes'
    BY <1>6, DeleteTypes
  <2> QED BY <1>1, <1>6, <2>4, <2>5, DeleteKeepsCards, ScanKept
<1>7. ASSUME \/ ToggleBlock \/ \E t \in Type : ToggleSetting(t)
             \/ UNCHANGED eventVars
      PROVE  ReminderInv'
  <2>1. UNCHANGED <<event, listing, pushed, eventJob>>
    BY <1>7 DEF ToggleBlock, ToggleSetting, Changes, eventVars
  <2>2. PushInv'
    BY <2>1, QuietKeepsPushes
  <2>3. ReminderTypes'
    <3>1. UNCHANGED eventVars => ReminderTypes'
      BY DEF eventVars, ReminderTypes, RowTypes
    <3> QED BY <1>7, <3>1, SwitchTypes
  <2> QED BY <1>1, <2>1, <2>2, <2>3, RestKeepsCards, ScanKept
<1>8. ASSUME NEW only \in BOOLEAN, ScanStarts(only)
      PROVE  ReminderInv'
  <2>1. PushInv'
    BY <1>8, QuietKeepsPushes DEF ScanStarts
  <2> QED BY <1>1, <1>8, <2>1, ListingTypes, StartScans
<1>9. ASSUME ScanPage \/ ScanTail \/ ScanDetails
      PROVE  ReminderInv'
  <2>1. PushInv'
    BY <1>9, QuietKeepsPushes DEF ScanPage, ScanTail, ScanDetails, ListingKeeps
  <2> QED BY <1>1, <1>9, <2>1, ListingTypes, PageScans, TailScans, DetailsScan
<1> QED BY <1>2, <1>3, <1>4, <1>5, <1>6, <1>7, <1>8, <1>9 DEF EventNext

LEMMA WatermarksRise ==
  ASSUME ReminderTypes, [EventNext]_eventVars, NEW t \in Type
  PROVE  lastReadId'[t] >= lastReadId[t]
<1>1. LastEvent \in Nat /\ lastReadId[t] \in 0 .. LastEvent
  BY ReminderAssumption DEF ReminderTypes
<1>2. CASE lastReadId' = lastReadId
  BY <1>1, <1>2
<1>3. ASSUME NEW w \in EventWorker, MarkCommits(w)
      PROVE  lastReadId'[t] >= lastReadId[t]
  <2>1. eventJob[w].max \in 0 .. LastEvent
    BY <1>3, JobTypes DEF MarkCommits
  <2>2. lastReadId'[t] = IF t = eventJob[w].type
                         THEN Raised(lastReadId[t], eventJob[w].max) ELSE lastReadId[t]
    BY <1>3 DEF MarkCommits, ReminderTypes
  <2> QED BY <1>1, <2>1, <2>2 DEF Raised
<1>4. (\E w \in EventWorker : MarkCommits(w)) \/ lastReadId' = lastReadId
  BY DEF EventNext, eventVars, ReportAsks, ReportPasses, ReportInserts, ReportDuplicate,
         ReportCommits, ReportPushes, MarkReads, MarkFinds, ToggleSetting, ToggleBlock,
         Changes, DeleteEvents, ScanStarts, ScanPage, ScanTail, ScanDetails, ListingKeeps
<1> QED BY <1>2, <1>3, <1>4

\* A scan gives every card that stays as it was exactly once, unless cards
\* change between the queries of one page; a page fails for no other reason
\* than that and the limit of its third query; a deed is pushed once; a closed
\* gate lets only reports through that were under way; watermarks do not fall
\* (report, list_msgfeed, mark_read of the insite events).
THEOREM RemindersAreKept == EventSpec => RemindersHold
<1>1. ReminderInv => ScanGivesOnce /\ PagesFailOnly /\ PushedOnce /\ SilentOnceClosed
  <2> SUFFICES ASSUME ReminderInv
               PROVE  ScanGivesOnce /\ PagesFailOnly /\ PushedOnce /\ SilentOnceClosed
    OBVIOUS
  <2>1. ScanGivesOnce
    BY DEF ReminderInv, ScanInv, ScanGivesOnce, Untouched, IsGiven
  <2>2. PagesFailOnly
    BY DEF ReminderInv, ScanInv, PagesFailOnly
  <2> QED BY <2>1, <2>2 DEF ReminderInv, PushInv, SilentInv
<1>2. ReminderInv /\ [EventNext]_eventVars
        => [\A t \in Type : lastReadId'[t] >= lastReadId[t]]_eventVars
  BY WatermarksRise DEF ReminderInv
<1> QED BY <1>1, <1>2, ReminderStart, ReminderStep, PTL DEF EventSpec, RemindersHold

-----------------------------------------------------------------------------
(* The invariant of the streams.                                           *)

\* The moments come in the order of their ids.
IdOrder == \A x, d \in Published : x < d => pubTime[x] < pubTime[d]

FeedTypes ==
  /\ FeedsTypeOK
  /\ \A d \in PostId : /\ post[d] = "auditing" => pubTime[d] = 0
                       /\ post[d] = "normal" => pubTime[d] > 0
                       /\ pubTime[d] <= Cardinality(Published)
  /\ pinned \in {0} \cup wasPinned
  /\ \A c \in Client : /\ client[c].due \subseteq Published
                       /\ ~client[c].on => client[c] = NoClient
                       /\ stream \in Scrolled => page[c].step = "none"

\* What client c was shown lies at or behind its cursor, skip aside.
Behind(c, skip) ==
  /\ client[c].again \subseteq skip
  /\ client[c].cursor = 0 => client[c].got = {}
  /\ \A d \in client[c].got \ skip : d >= client[c].cursor

\* It was shown all it was to see up to its cursor.
Covered(c) ==
  /\ client[c].missed = {}
  /\ client[c].cursor # 0 =>
       \A d \in client[c].due \cap Normal : d >= client[c].cursor => d \in client[c].got

\* The first n moments of the list.
FirstOnes(n) == {d \in Normal : Cardinality(Ahead(d, Normal)) < n}

TimeInv ==
  stream = "time" /\ "disorder" \notin faults =>
    IdOrder /\ \A c \in Client : Behind(c, {}) /\ Covered(c)

SpaceInv ==
  stream = "space" =>
    \A c \in Client : /\ Behind(c, wasPinned)
                      /\ PageSize > 1 \/ wasPinned = {} => Covered(c)

ForwardsInv ==
  stream = "forwards" /\ "shift" \notin faults =>
    \A c \in Client :
      /\ client[c].again = {} /\ client[c].missed = {}
      /\ ~client[c].ended => client[c].got = FirstOnes(client[c].cursor * PageSize)

\* What the pool of a ranked page and its answer have of the candidates.
Ranking(c) ==
  LET s == client[c]
      p == page[c]
  IN /\ s.again = {} /\ p.pool \cap s.got = {} /\ p.pool \subseteq p.cand
     /\ p.step # "none" /\ "elsewhere" \notin faults => p.cand \ s.got \subseteq p.pool
     /\ p.step = "read" /\ stream = "recommend" => p.pool \subseteq p.there
     /\ p.step = "served" => p.there \subseteq p.pool
     /\ p.step = "served" /\ "hole" \notin faults /\ ~(Cardinality(p.pool) > PageSize)
          => p.there = p.pool
     /\ s.missed # {} => "elsewhere" \in faults \/ "hole" \in faults

RankedInv ==
  /\ "hole" \in faults => stream = "topic"
  /\ stream \notin Scrolled => \A c \in Client : Ranking(c)

FeedInv == FeedTypes /\ TimeInv /\ SpaceInv /\ ForwardsInv /\ RankedInv

LEMMA BoundsOfFeeds ==
  /\ LastPost \in Nat /\ FeedPages \in Nat /\ FeedTurns \in Nat
  /\ PageSize \in Nat \ {0} /\ MinCandidates \in Nat \ {0}
  /\ PostId \subseteq Nat /\ 0 \notin PostId /\ IsFiniteSet(PostId)
  /\ Cardinality(PostId) = LastPost
<1>1. LastPost \in Nat
  BY FeedAssumption
<1>2. IsFiniteSet(PostId) /\ Cardinality(PostId) = LastPost
  BY <1>1, FS_Interval DEF PostId
<1> QED BY <1>1, <1>2, FeedAssumption DEF PostId

LEMMA SomePosts ==
  ASSUME NEW S, S \subseteq PostId
  PROVE  IsFiniteSet(S) /\ Cardinality(S) \in 0 .. LastPost
<1>1. IsFiniteSet(S) /\ Cardinality(S) <= LastPost
  BY BoundsOfFeeds, FS_Subset
<1> QED BY <1>1, BoundsOfFeeds, FS_CardinalityType

LEMMA Ranks ==
  ASSUME FeedTypes, NEW d \in PostId
  PROVE  Rank(d) \in 0 .. (LastPost + 1)
<1>1. pubTime[d] \in 0 .. LastPost /\ d \in 1 .. LastPost /\ LastPost \in Nat
  BY BoundsOfFeeds DEF FeedTypes, FeedsTypeOK, PostId
<1> QED BY <1>1 DEF Rank

LEMMA AheadOf ==
  ASSUME FeedTypes, NEW rows, rows \subseteq PostId, NEW d \in rows
  PROVE  /\ IsFiniteSet(Ahead(d, rows)) /\ Cardinality(Ahead(d, rows)) \in Nat
         /\ Cardinality(rows) \in Nat
         /\ Cardinality(Ahead(d, rows)) < Cardinality(rows)
<1>1. Ahead(d, rows) \in SUBSET rows /\ IsFiniteSet(rows) /\ Cardinality(rows) \in Nat
  BY SomePosts DEF Ahead
<1>2. d \notin Ahead(d, rows)
  BY Ranks DEF Ahead
<1>3. IsFiniteSet(Ahead(d, rows)) /\ Cardinality(Ahead(d, rows)) \in Nat
      /\ Cardinality(Ahead(d, rows)) <= Cardinality(rows)
      /\ (Cardinality(Ahead(d, rows)) = Cardinality(rows) => Ahead(d, rows) = rows)
  BY <1>1, FS_Subset, FS_CardinalityType
<1> QED BY <1>1, <1>2, <1>3

\* The first page has the rows before all others; if they are not more than a
\* page, it has all.
LEMMA PageIsFirst ==
  ASSUME FeedTypes, NEW rows, rows \subseteq PostId
  PROVE  /\ PageOf(rows, 0) \subseteq rows
         /\ rows # {} => PageOf(rows, 0) # {}
         /\ \A d \in rows \ PageOf(rows, 0) : \A p \in PageOf(rows, 0) : Rank(d) < Rank(p)
         /\ ~(Cardinality(rows) > PageSize) => PageOf(rows, 0) = rows
<1> DEFINE P == PageOf(rows, 0)
<1>1. PageSize \in Nat \ {0} /\ LastPost + 1 \in Nat /\ PageSize + 0 = PageSize
  BY BoundsOfFeeds
<1>2. \A d \in rows : Rank(d) \in 0 .. (LastPost + 1)
  BY Ranks
<1>3. P = {d \in rows : Cardinality(Ahead(d, rows)) < PageSize}
  BY <1>1, AheadOf DEF PageOf
<1>4. ASSUME rows # {}
      PROVE  P # {}
  <2> DEFINE N == {(LastPost + 1) - Rank(d) : d \in rows}
  <2>1. N \subseteq 0 .. (LastPost + 1) /\ N # {}
    BY <1>1, <1>2, <1>4
  <2>2. PICK m \in N : \A x \in N : m <= x
    <3> HIDE DEF N
    <3> QED BY <1>1, <2>1, SmallestIdIsThere
  <2>3. PICK d \in rows : m = (LastPost + 1) - Rank(d)
    BY <2>2
  <2>4. ASSUME NEW x \in rows
        PROVE  ~(Rank(x) > Rank(d))
    <3>1. (LastPost + 1) - Rank(x) \in N
      OBVIOUS
    <3>2. (LastPost + 1) - Rank(d) <= (LastPost + 1) - Rank(x)
      BY <2>2, <2>3, <3>1
    <3>3. Rank(x) \in Int /\ Rank(d) \in Int
      BY <1>2
    <3> QED BY <1>1, <3>2, <3>3
  <2>5. Ahead(d, rows) = {}
    BY <2>4 DEF Ahead
  <2>6. Cardinality(Ahead(d, rows)) = 0
    BY <2>5, FS_EmptySet
  <2> QED BY <1>1, <1>3, <2>6
<1>5. ASSUME NEW d \in rows \ P, NEW p \in P
      PROVE  Rank(d) < Rank(p)
  <2>0. p \in rows /\ d \in rows
    BY <1>3
  <2>1. SUFFICES ASSUME Rank(p) <= Rank(d) PROVE FALSE
    BY <1>2, <2>0
  <2>2. Ahead(d, rows) \in SUBSET Ahead(p, rows)
    BY <1>2, <2>0, <2>1 DEF Ahead
  <2>3. Cardinality(Ahead(d, rows)) <= Cardinality(Ahead(p, rows))
    BY <2>0, <2>2, AheadOf, FS_Subset
  <2>4. Cardinality(Ahead(p, rows)) < PageSize /\ ~(Cardinality(Ahead(d, rows)) < PageSize)
    BY <1>3
  <2>5. Cardinality(Ahead(p, rows)) \in Nat /\ Cardinality(Ahead(d, rows)) \in Nat
    BY <2>0, AheadOf
  <2> QED BY <1>1, <2>3, <2>4, <2>5
<1>6. ASSUME ~(Cardinality(rows) > PageSize), NEW d \in rows
      PROVE  d \in P
  <2>1. Cardinality(Ahead(d, rows)) < Cardinality(rows)
        /\ Cardinality(Ahead(d, rows)) \in Nat /\ Cardinality(rows) \in Nat
    BY AheadOf
  <2>2. Cardinality(Ahead(d, rows)) < PageSize
    BY <1>1, <1>6, <2>1
  <2> QED BY <1>3, <2>2
<1> QED BY <1>3, <1>4, <1>5, <1>6

\* The cursor of a page is the last moment on it.
LEMMA LastIsThere ==
  ASSUME FeedTypes, NEW items, items \subseteq PostId, items # {}
  PROVE  LastOn(items) \in items /\ \A x \in items : Rank(LastOn(items)) <= Rank(x)
<1> DEFINE N == {Rank(d) : d \in items}
<1>0. \A d \in items : Rank(d) \in 0 .. (LastPost + 1)
  BY Ranks
<1>1. N \subseteq 0 .. (LastPost + 1) /\ N # {} /\ LastPost + 1 \in Nat
  <2>1. LastPost + 1 \in Nat
    BY BoundsOfFeeds
  <2>2. N \subseteq 0 .. (LastPost + 1)
    BY <1>0
  <2> QED BY <2>1, <2>2
<1>2. PICK m \in N : \A x \in N : m <= x
  <2> HIDE DEF N
  <2> QED BY <1>1, SmallestIdIsThere
<1>3. PICK d \in items : m = Rank(d)
  BY <1>2
<1>4. \A x \in items : Rank(d) <= Rank(x)
  BY <1>2, <1>3
<1> QED BY <1>3, <1>4, Zenon DEF LastOn

-----------------------------------------------------------------------------
(* The types of the streams.                                               *)

ReaderRow == [got : SUBSET PostId, again : SUBSET PostId, missed : SUBSET PostId,
              due : SUBSET PostId, cursor : Nat, on : BOOLEAN, ended : BOOLEAN]
PageRow == [pool : SUBSET PostId, there : SUBSET PostId, cand : SUBSET PostId,
            step : {"none", "read", "served"}]

LEMMA ReaderTypes ==
  ASSUME FeedTypes
  PROVE  /\ client \in [Client -> ReaderRow] /\ page \in [Client -> PageRow]
         /\ \A c \in Client : client[c] \in ReaderRow /\ page[c] \in PageRow
         /\ Normal \subseteq Published /\ Published \subseteq PostId
         /\ NoPage \in PageRow /\ NoClient \in ReaderRow
<1>1. client \in [Client -> ReaderRow] /\ page \in [Client -> PageRow]
  BY DEF FeedTypes, FeedsTypeOK, ReaderRow, PageRow
<1>2. Normal \subseteq Published /\ Published \subseteq PostId
  BY DEF FeedTypes, Normal, Published
<1>3. NoPage \in PageRow /\ NoClient \in ReaderRow
  BY DEF NoPage, NoClient, PageRow, ReaderRow
<1> QED BY <1>1, <1>2, <1>3

LEMMA ApprovalGives ==
  ASSUME FeedTypes, NEW d \in PostId, ApprovesPost(d)
  PROVE  /\ d \notin Published /\ Published' = Published \cup {d}
         /\ Normal' = Normal \cup {d}
         /\ Cardinality(Published') = Cardinality(Published) + 1
         /\ Cardinality(Published) + 1 \in 1 .. LastPost
         /\ pubTime' \in [PostId -> 0 .. LastPost]
         /\ pubTime'[d] = Cardinality(Published) + 1
         /\ \A x \in PostId : x # d => pubTime'[x] = pubTime[x]
<1>1. pubTime[d] = 0 /\ d \notin Published /\ pubTime \in [PostId -> 0 .. LastPost]
  BY DEF FeedTypes, FeedsTypeOK, ApprovesPost, Published
<1>2. PICK n : n = Cardinality(Published)
  OBVIOUS
<1>3. pubTime' = [pubTime EXCEPT ![d] = n + 1]
  BY <1>2 DEF ApprovesPost
<1>4. IsFiniteSet(Published) /\ n \in Nat /\ Published \cup {d} \subseteq PostId
  BY <1>2, SomePosts DEF Published
<1>5. Cardinality(Published \cup {d}) = n + 1
  BY <1>1, <1>2, <1>4, FS_AddElement
<1>6. n + 1 \in 0 .. LastPost
  BY <1>4, <1>5, SomePosts
<1>7. n + 1 \in 1 .. LastPost /\ LastPost \in Nat
  BY <1>4, <1>6, BoundsOfFeeds
<1>8. pubTime' \in [PostId -> 0 .. LastPost] /\ pubTime'[d] = n + 1
      /\ \A x \in PostId : x # d => pubTime'[x] = pubTime[x]
  BY <1>1, <1>3, <1>7
<1>9. Published' = Published \cup {d}
  <2>1. n + 1 > 0
    BY <1>4
  <2> QED BY <1>8, <2>1 DEF Published
<1>10. Normal' = Normal \cup {d}
  BY DEF ApprovesPost, Normal, FeedTypes, FeedsTypeOK
<1> QED BY <1>1, <1>2, <1>5, <1>7, <1>8, <1>9, <1>10

LEMMA ApprovalTypes ==
  ASSUME FeedTypes, NEW d \in PostId, ApprovesPost(d)
  PROVE  FeedTypes'
<1>1. FeedsTypeOK'
  <2>1. pubTime' \in [PostId -> 0 .. LastPost]
        /\ outdated' \subseteq {x \in PostId : pubTime'[x] > 0}
    BY ApprovalGives DEF ApprovesPost, Published, FeedTypes, FeedsTypeOK
  <2>2. turns' \in 0 .. FeedTurns
    BY BoundsOfFeeds DEF ApprovesPost, Turn, FeedTypes, FeedsTypeOK
  <2>3. faults' \subseteq Fault
    BY DEF ApprovesPost, Shift, Fault, FeedTypes, FeedsTypeOK
  <2> QED BY <2>1, <2>2, <2>3 DEF ApprovesPost, readerVars, FeedTypes, FeedsTypeOK
<1>2. ASSUME NEW x \in PostId
      PROVE  /\ post'[x] = "auditing" => pubTime'[x] = 0
             /\ post'[x] = "normal" => pubTime'[x] > 0
             /\ pubTime'[x] <= Cardinality(Published')
  <2>1. PICK n : n = Cardinality(Published) /\ n \in Nat
    BY SomePosts DEF Published
  <2>2. Cardinality(Published') = n + 1 /\ pubTime'[d] = n + 1
        /\ (x # d => pubTime'[x] = pubTime[x])
    BY <2>1, ApprovalGives
  <2>3. x # d => post'[x] = post[x]
    BY DEF ApprovesPost, FeedTypes, FeedsTypeOK
  <2>4. post'[d] = "normal"
    BY DEF ApprovesPost, FeedTypes, FeedsTypeOK
  <2>5. pubTime[x] \in Nat /\ pubTime[x] <= n
        /\ (post[x] = "auditing" => pubTime[x] = 0) /\ (post[x] = "normal" => pubTime[x] > 0)
    BY <2>1 DEF FeedTypes, FeedsTypeOK
  <2>6. CASE x = d
    BY <2>1, <2>2, <2>4, <2>6
  <2>7. CASE x # d
    BY <2>1, <2>2, <2>3, <2>5, <2>7
  <2> QED BY <2>6, <2>7
<1>3. Published \subseteq Published' /\ UNCHANGED <<stream, pinned, wasPinned, client, page>>
  BY ApprovalGives DEF ApprovesPost, readerVars
<1> QED BY <1>1, <1>2, <1>3 DEF FeedTypes

\* What happens to the moments otherwise leaves the publications alone.
LEMMA ChangeTypes ==
  ASSUME FeedTypes,
         \/ \E d \in PostId : Leaves(d, "hidden") \/ Leaves(d, "orphan") \/ Pins(d)
         \/ LeavesWindow \/ ImpressionsExpire
  PROVE  /\ FeedTypes' /\ Normal' \subseteq Normal
         /\ Published' = Published /\ faults \subseteq faults'
         /\ UNCHANGED <<stream, pubTime, readerVars>>
<1>1. UNCHANGED <<stream, pubTime, readerVars>> /\ Published' = Published
  BY DEF Leaves, Pins, LeavesWindow, ImpressionsExpire, postVars, Published
<1>2. /\ post' \in [PostId -> {"auditing", "normal", "hidden", "orphan"}]
      /\ \A x \in PostId : post'[x] = post[x] \/ post'[x] \in {"hidden", "orphan"}
  BY DEF Leaves, Pins, LeavesWindow, ImpressionsExpire, postVars, FeedTypes, FeedsTypeOK
<1>3. Normal' \subseteq Normal
  BY <1>2 DEF Normal
<1>4. turns' \in 0 .. FeedTurns
  BY BoundsOfFeeds DEF Leaves, Pins, LeavesWindow, ImpressionsExpire, Turn, FeedTypes, FeedsTypeOK
<1>5. faults \subseteq faults' /\ faults' \subseteq Fault
  BY DEF Leaves, Pins, LeavesWindow, ImpressionsExpire, Shift, Fault, FeedTypes, FeedsTypeOK
<1>6. outdated' \subseteq {x \in PostId : pubTime[x] > 0} /\ impressed' \subseteq PostId
  BY DEF Leaves, Pins, LeavesWindow, ImpressionsExpire, postVars, Published, FeedTypes, FeedsTypeOK
<1>7. pinned' \in {0} \cup wasPinned' /\ wasPinned' \subseteq PostId
      /\ pinned' \in {0} \cup PostId
  BY DEF Leaves, Pins, LeavesWindow, ImpressionsExpire, postVars, FeedTypes, FeedsTypeOK
<1>8. FeedsTypeOK'
  BY <1>1, <1>2, <1>4, <1>5, <1>6, <1>7 DEF readerVars, FeedTypes, FeedsTypeOK
<1>9. FeedTypes'
  BY <1>1, <1>2, <1>7, <1>8 DEF readerVars, FeedTypes
<1> QED BY <1>1, <1>3, <1>5, <1>9

\* What a scrolled page shows, whether there is more, and the cursor it gives.
ScrollItems(c) == PageOf(RowsFrom(client[c].cursor), FirstRow(client[c].cursor))
ScrollMore(c) == Cardinality(RowsFrom(client[c].cursor)) > FirstRow(client[c].cursor) + PageSize
NextCursor(c) ==
  IF stream = "forwards" THEN client[c].cursor + 1
  ELSE IF ScrollItems(c) = {} THEN client[c].cursor ELSE LastOn(ScrollItems(c))
DueOf(c) == (IF client[c].on THEN client[c].due ELSE Normal) \cap Normal

LEMMA ScrollShows ==
  ASSUME FeedTypes, NEW c \in Client, ScrollPage(c)
  PROVE  /\ \A x \in Client : x # c => client'[x] = client[x]
         /\ client'[c].got = client[c].got \cup ScrollItems(c)
         /\ client'[c].again = client[c].again \cup (client[c].got \cap ScrollItems(c))
         /\ client'[c].missed =
              IF ScrollMore(c) THEN {} ELSE DueOf(c) \ (client[c].got \cup ScrollItems(c))
         /\ client'[c].due = DueOf(c) /\ client'[c].cursor = NextCursor(c)
         /\ client'[c].on = TRUE /\ client'[c].ended = ~ScrollMore(c)
         /\ client' \in [Client -> ReaderRow]
         /\ ScrollItems(c) \subseteq Normal /\ NextCursor(c) \in Nat /\ DueOf(c) \subseteq Normal
<1>1. client[c] \in ReaderRow /\ client \in [Client -> ReaderRow]
      /\ Normal \subseteq Published /\ Published \subseteq PostId /\ Normal \subseteq PostId
  BY ReaderTypes
<1>2. ScrollItems(c) \subseteq Normal /\ DueOf(c) \subseteq Normal
  BY DEF ScrollItems, PageOf, RowsFrom, PastCursor, DueOf
<1>3. NextCursor(c) \in Nat
  <2>1. client[c].cursor \in Nat
    BY <1>1 DEF ReaderRow
  <2>2. ScrollItems(c) # {} => LastOn(ScrollItems(c)) \in Nat
    BY <1>1, <1>2, LastIsThere, BoundsOfFeeds
  <2> QED BY <2>1, <2>2 DEF NextCursor
<1>4. Shows(c, ScrollItems(c), ScrollMore(c), NextCursor(c))
  BY DEF ScrollPage, ScrollItems, ScrollMore, NextCursor
<1> DEFINE r == [got |-> client[c].got \cup ScrollItems(c),
                 again |-> client[c].again \cup (client[c].got \cap ScrollItems(c)),
                 missed |-> IF ScrollMore(c) THEN {}
                            ELSE DueOf(c) \ (client[c].got \cup ScrollItems(c)),
                 due |-> DueOf(c), cursor |-> NextCursor(c), on |-> TRUE,
                 ended |-> ~ScrollMore(c)]
<1>5. client' = [client EXCEPT ![c] = r]
  BY <1>4 DEF Shows, DueOf
<1>6. r \in ReaderRow
  <2>1. ScrollMore(c) \in BOOLEAN
    BY DEF ScrollMore
  <2> QED BY <1>1, <1>2, <1>3, <2>1 DEF ReaderRow
<1>7. client'[c] = r /\ \A x \in Client : x # c => client'[x] = client[x]
  BY <1>1, <1>5
<1>8. client' \in [Client -> ReaderRow]
  <2> HIDE DEF r
  <2> QED BY <1>1, <1>5, <1>6
<1> QED BY <1>2, <1>3, <1>7, <1>8

LEMMA ScrollTypes ==
  ASSUME FeedTypes, NEW c \in Client, ScrollPage(c)
  PROVE  /\ FeedTypes' /\ stream \in Scrolled
         /\ UNCHANGED <<stream, postVars, impressed, page, faults, turns>>
<1>6. /\ client' \in [Client -> ReaderRow] /\ client'[c].due \subseteq Published
      /\ client'[c].on /\ \A x \in Client : x # c => client'[x] = client[x]
  BY ReaderTypes, ScrollShows
<1>7. UNCHANGED <<stream, post, pubTime, outdated, pinned, wasPinned, impressed, page, faults, turns>>
      /\ Published' = Published /\ stream \in Scrolled
  BY DEF ScrollPage, postVars, Published
<1>8. pages' \in 0 .. FeedPages
  BY BoundsOfFeeds DEF ScrollPage, AsksPage, FeedTypes, FeedsTypeOK
<1>9. FeedsTypeOK'
  BY <1>6, <1>7, <1>8 DEF FeedTypes, FeedsTypeOK, ReaderRow
<1>10. FeedTypes'
  BY <1>6, <1>7, <1>9 DEF FeedTypes
<1> QED BY <1>7, <1>10 DEF postVars

LEMMA RankReadTypes ==
  ASSUME FeedTypes, NEW c \in Client, NEW more, RankReads(c, more)
  PROVE  FeedTypes'
<1>1. Normal \subseteq PostId /\ Candidates(more) \subseteq PostId
  <2>1. PostRows \subseteq PostId /\ Normal \subseteq PostId
    BY DEF PostRows, Published, Normal
  <2>2. Recalled(more) \subseteq PostId
    BY <2>1 DEF Recalled, RankReads
  <2> QED BY <2>1, <2>2 DEF Candidates
<1>2. Pool(Candidates(more), client[c].got) \subseteq PostId
  BY <1>1 DEF Pool
<1>3. page' \in [Client -> PageRow] /\ stream \notin Scrolled
  BY <1>1, <1>2, ReaderTypes DEF RankReads, PageRow, Scrolled
<1>4. UNCHANGED <<stream, post, pubTime, outdated, pinned, wasPinned, impressed, client, turns>>
      /\ Published' = Published
  BY DEF RankReads, postVars, Published
<1>5. pages' \in 0 .. FeedPages
  BY BoundsOfFeeds DEF RankReads, AsksPage, FeedTypes, FeedsTypeOK
<1>6. faults' \subseteq Fault
  BY DEF RankReads, Fault, FeedTypes, FeedsTypeOK
<1>7. FeedsTypeOK'
  BY <1>3, <1>4, <1>5, <1>6 DEF FeedTypes, FeedsTypeOK, PageRow
<1> QED BY <1>3, <1>4, <1>7 DEF FeedTypes

LEMMA RankServeTypes ==
  ASSUME FeedTypes, NEW c \in Client, NEW cut, RankServes(c, cut)
  PROVE  FeedTypes' /\ stream \notin Scrolled
<1>1. page[c] \in PageRow /\ page \in [Client -> PageRow] /\ stream \notin Scrolled
  BY ReaderTypes DEF FeedTypes, RankServes
<1>2. cut \subseteq PostId
  BY <1>1 DEF RankServes, PageRow
<1>3. page' \in [Client -> PageRow]
  BY <1>1 DEF RankServes, PageRow
<1>4. UNCHANGED <<stream, post, pubTime, outdated, pinned, wasPinned, client, pages, turns>>
      /\ Published' = Published
  BY DEF RankServes, postVars, Published
<1>5. impressed' \subseteq PostId
  BY <1>2 DEF RankServes, Impressed, FeedTypes, FeedsTypeOK
<1>6. faults' \subseteq Fault
  BY DEF RankServes, Fault, FeedTypes, FeedsTypeOK
<1>7. FeedsTypeOK'
  BY <1>3, <1>4, <1>5, <1>6 DEF FeedTypes, FeedsTypeOK, PageRow
<1> QED BY <1>1, <1>4, <1>7 DEF FeedTypes

LEMMA AnswerTypes ==
  ASSUME FeedTypes, NEW c \in Client, AnswerArrives(c) \/ AnswerIsLost(c)
  PROVE  FeedTypes' /\ stream \notin Scrolled
<1>1. stream \notin Scrolled /\ client[c] \in ReaderRow /\ page[c] \in PageRow
      /\ client \in [Client -> ReaderRow] /\ page \in [Client -> PageRow]
      /\ NoPage \in PageRow
  BY ReaderTypes DEF FeedTypes, AnswerArrives, AnswerIsLost
<1>2. page' \in [Client -> PageRow]
  BY <1>1 DEF AnswerArrives, AnswerIsLost
<1>3. UNCHANGED <<stream, post, pubTime, outdated, pinned, wasPinned, impressed, pages, turns>>
      /\ Published' = Published
  BY DEF AnswerArrives, AnswerIsLost, postVars, Published
<1>4. faults' \subseteq Fault
  BY DEF AnswerArrives, AnswerIsLost, Fault, FeedTypes, FeedsTypeOK
<1>5. /\ client' \in [Client -> ReaderRow]
      /\ \A x \in Client : client'[x].due = client[x].due
                           /\ (client'[x].on \/ client'[x] = client[x])
  <2>1. CASE AnswerIsLost(c)
    BY <1>1, <2>1 DEF AnswerIsLost
  <2>2. CASE AnswerArrives(c)
    BY <1>1, <2>2 DEF AnswerArrives, ReaderRow, PageRow
  <2> QED BY <2>1, <2>2
<1>6. FeedsTypeOK'
  BY <1>2, <1>3, <1>4, <1>5 DEF FeedTypes, FeedsTypeOK, PageRow, ReaderRow
<1>7. \A x \in Client : client'[x].due \subseteq Published
                        /\ (~client'[x].on => client'[x] = NoClient)
  BY <1>5 DEF FeedTypes
<1> QED BY <1>1, <1>3, <1>6, <1>7 DEF FeedTypes

LEMMA FeedStart == FeedsInit => FeedInv
<1> SUFFICES ASSUME FeedsInit PROVE FeedInv
  OBVIOUS
<1>1. FeedsTypeOK
  BY BoundsOfFeeds DEF FeedsInit, FeedsTypeOK, NoClient, NoPage, Fault
<1>2. Published = {} /\ Normal = {} /\ Cardinality(Published) = 0
  BY FS_EmptySet DEF FeedsInit, Published, Normal
<1>3. FeedTypes
  BY <1>1, <1>2 DEF FeedTypes, FeedsInit, NoClient, NoPage
<1>4. \A c \in Client : (\A skip : Behind(c, skip)) /\ Covered(c)
  BY DEF FeedsInit, NoClient, Behind, Covered
<1>5. TimeInv /\ SpaceInv
  BY <1>2, <1>4 DEF TimeInv, SpaceInv, IdOrder
<1>6. \A n : FirstOnes(n) = {}
  BY <1>2 DEF FirstOnes
<1>7. ForwardsInv
  BY <1>6 DEF ForwardsInv, FeedsInit, NoClient
<1>8. RankedInv
  BY DEF RankedInv, Ranking, FeedsInit, NoClient, NoPage
<1> QED BY <1>3, <1>5, <1>7, <1>8 DEF FeedInv

-----------------------------------------------------------------------------
(* The streams that are read by the id of the last moment.                 *)

\* A page is cut behind the cursor: it holds what comes first there.
LEMMA CursorPage ==
  ASSUME FeedTypes, NEW c \in Client, stream \in {"time", "space"}
  PROVE  /\ ScrollItems(c) \subseteq PastCursor(client[c].cursor)
         /\ PastCursor(client[c].cursor) \subseteq PostId
         /\ \A d \in PastCursor(client[c].cursor) :
              d \in Normal /\ (client[c].cursor = 0 \/ d < client[c].cursor)
         /\ \A d \in Normal : d \notin PastCursor(client[c].cursor) =>
              client[c].cursor # 0 /\ d >= client[c].cursor
         /\ PastCursor(client[c].cursor) # {} => ScrollItems(c) # {}
         /\ \A d \in PastCursor(client[c].cursor) \ ScrollItems(c) :
              \A p \in ScrollItems(c) : Rank(d) < Rank(p)
         /\ ~ScrollMore(c) => ScrollItems(c) = PastCursor(client[c].cursor)
         /\ NextCursor(c) = IF ScrollItems(c) = {} THEN client[c].cursor
                            ELSE LastOn(ScrollItems(c))
         /\ ScrollItems(c) # {} => /\ LastOn(ScrollItems(c)) \in ScrollItems(c)
                                   /\ \A x \in ScrollItems(c) :
                                        Rank(LastOn(ScrollItems(c))) <= Rank(x)
<1> DEFINE rows == PastCursor(client[c].cursor)
<1>1. /\ RowsFrom(client[c].cursor) = rows /\ FirstRow(client[c].cursor) = 0
      /\ 0 + PageSize = PageSize
  BY BoundsOfFeeds DEF RowsFrom, FirstRow
<1>2. /\ ScrollItems(c) = PageOf(rows, 0)
      /\ ScrollMore(c) = (Cardinality(rows) > PageSize)
  BY <1>1 DEF ScrollItems, ScrollMore
<1>3. rows \subseteq PostId
  BY DEF PastCursor, Normal
<1>4. /\ ScrollItems(c) \subseteq rows
      /\ rows # {} => ScrollItems(c) # {}
      /\ \A d \in rows \ ScrollItems(c) : \A p \in ScrollItems(c) : Rank(d) < Rank(p)
      /\ ~ScrollMore(c) => ScrollItems(c) = rows
  BY <1>2, <1>3, PageIsFirst
<1>5. /\ \A d \in rows : d \in Normal /\ (client[c].cursor = 0 \/ d < client[c].cursor)
      /\ \A d \in Normal : d \notin rows => client[c].cursor # 0 /\ d >= client[c].cursor
  <2>1. client[c].cursor \in Nat /\ \A d \in Normal : d \in Nat
    BY ReaderTypes, BoundsOfFeeds DEF ReaderRow, Normal
  <2> QED BY <2>1 DEF PastCursor
<1>6. NextCursor(c) = IF ScrollItems(c) = {} THEN client[c].cursor
                      ELSE LastOn(ScrollItems(c))
  BY DEF NextCursor
<1>7. ScrollItems(c) # {} => /\ LastOn(ScrollItems(c)) \in ScrollItems(c)
                             /\ \A x \in ScrollItems(c) :
                                  Rank(LastOn(ScrollItems(c))) <= Rank(x)
  BY <1>3, <1>4, LastIsThere
<1> QED BY <1>3, <1>4, <1>5, <1>6, <1>7

LEMMA ScrollKeepsBehind ==
  ASSUME FeedTypes, NEW c \in Client, ScrollPage(c), stream \in {"time", "space"},
         NEW skip, Behind(c, skip),
         \A x \in ScrollItems(c) \ skip : LastOn(ScrollItems(c)) <= x
  PROVE  Behind(c, skip)'
<1> DEFINE s == client[c]
           items == ScrollItems(c)
           last == LastOn(items)
<1>1. /\ items \subseteq PostId /\ \A d \in items : s.cursor = 0 \/ d < s.cursor
      /\ items # {} => last \in items
      /\ NextCursor(c) = IF items = {} THEN s.cursor ELSE last
  BY CursorPage
<1>2. /\ client'[c].got = s.got \cup items
      /\ client'[c].again = s.again \cup (s.got \cap items)
      /\ client'[c].cursor = NextCursor(c)
  BY ScrollShows
<1>3. /\ s.again \subseteq skip /\ (s.cursor = 0 => s.got = {})
      /\ \A d \in s.got \ skip : d >= s.cursor
  BY DEF Behind
<1>4. s.cursor \in Nat /\ s.got \subseteq PostId /\ \A d \in PostId : d \in Nat /\ d # 0
  BY ReaderTypes, BoundsOfFeeds DEF ReaderRow
<1>5. \A x \in items \ skip : last <= x
  OBVIOUS
<1> HIDE DEF items, last, s
<1>6. s.got \cap items \subseteq skip
  BY <1>1, <1>3, <1>4
<1>7. CASE items = {}
  BY <1>1, <1>2, <1>3, <1>7 DEF Behind
<1>8. CASE items # {}
  <2>1. client'[c].cursor = last /\ last \in PostId /\ last \in items
    BY <1>1, <1>2, <1>8
  <2>2. ASSUME NEW d \in (s.got \cup items) \ skip
        PROVE  d >= last
    <3>1. CASE d \in items
      BY <1>1, <1>4, <1>5, <2>1, <3>1
    <3>2. CASE d \in s.got
      BY <1>1, <1>3, <1>4, <2>1, <3>2
    <3> QED BY <3>1, <3>2
  <2> QED BY <1>2, <1>3, <1>4, <1>6, <2>1, <2>2 DEF Behind
<1> QED BY <1>7, <1>8

LEMMA ScrollKeepsCovered ==
  ASSUME FeedTypes, NEW c \in Client, ScrollPage(c), stream \in {"time", "space"},
         Covered(c),
         \A d \in PastCursor(client[c].cursor) \ ScrollItems(c) : d < LastOn(ScrollItems(c))
  PROVE  Covered(c)'
<1> DEFINE s == client[c]
           items == ScrollItems(c)
           last == LastOn(items)
           rows == PastCursor(s.cursor)
<1>1. /\ items \subseteq rows /\ rows \subseteq PostId
      /\ \A d \in Normal : d \notin rows => s.cursor # 0 /\ d >= s.cursor
      /\ items # {} => last \in items
      /\ rows # {} => items # {}
      /\ ~ScrollMore(c) => items = rows
      /\ NextCursor(c) = IF items = {} THEN s.cursor ELSE last
  BY CursorPage
<1>2. /\ client'[c].got = s.got \cup items /\ client'[c].due = DueOf(c)
      /\ client'[c].missed = IF ScrollMore(c) THEN {} ELSE DueOf(c) \ (s.got \cup items)
      /\ client'[c].cursor = NextCursor(c) /\ DueOf(c) \subseteq Normal
  BY ScrollShows
<1>3. Normal' = Normal /\ Normal \subseteq PostId
  BY ScrollTypes DEF Normal, postVars
<1>4. /\ \A d \in PostId : d \in Nat
      /\ s.cursor \in Nat /\ (~s.on => s.cursor = 0)
  BY ReaderTypes, BoundsOfFeeds DEF ReaderRow, FeedTypes, NoClient
<1>5. s.cursor # 0 => \A d \in s.due \cap Normal : d >= s.cursor => d \in s.got
  BY DEF Covered
<1>6. \A d \in DueOf(c) : d \notin rows => d \in s.got
  <2>1. \A d \in DueOf(c) : d \in Normal /\ (s.on => d \in s.due)
    BY DEF DueOf
  <2> QED BY <1>1, <1>4, <1>5, <2>1
<1>7. \A d \in rows \ items : d < last
  OBVIOUS
<1> HIDE DEF items, last, rows, s
<1>8. client'[c].missed = {}
  BY <1>1, <1>2, <1>6
<1>9. ASSUME NEW d \in DueOf(c), d >= client'[c].cursor, client'[c].cursor # 0
      PROVE  d \in s.got \cup items
  <2>1. CASE d \notin rows
    BY <1>6, <2>1
  <2>2. CASE d \in rows
    <3>1. client'[c].cursor = last /\ last \in Nat /\ d \in Nat
      BY <1>1, <1>2, <1>4, <2>2
    <3> QED BY <1>7, <1>9, <2>2, <3>1
  <2> QED BY <2>1, <2>2
<1> QED BY <1>2, <1>3, <1>8, <1>9 DEF Covered

\* What is approved was due to nobody.
LEMMA ApprovalLeavesDue ==
  ASSUME FeedTypes, NEW d \in PostId, ApprovesPost(d), NEW c \in Client
  PROVE  /\ client' = client /\ client[c].due \cap Normal' = client[c].due \cap Normal
         /\ \A skip : Behind(c, skip) => Behind(c, skip)'
         /\ Covered(c) => Covered(c)'
<1>1. client' = client
  BY DEF ApprovesPost, readerVars
<1>2. client[c].due \cap Normal' = client[c].due \cap Normal
  BY ApprovalGives DEF FeedTypes
<1> QED BY <1>1, <1>2 DEF Behind, Covered

LEMMA ChangeLeavesReaders ==
  ASSUME client' = client, Normal' \subseteq Normal, NEW c \in Client
  PROVE  /\ \A skip : Behind(c, skip) => Behind(c, skip)'
         /\ Covered(c) => Covered(c)'
BY DEF Behind, Covered

LEMMA TimeApproved ==
  ASSUME FeedTypes, TimeInv, NEW d \in PostId, ApprovesPost(d)
  PROVE  TimeInv'
<1> SUFFICES ASSUME stream' = "time", "disorder" \notin faults'
             PROVE  IdOrder' /\ \A c \in Client : Behind(c, {})' /\ Covered(c)'
  BY DEF TimeInv
<1>1. stream = "time" /\ "disorder" \notin faults /\ \A x \in Published : ~(x > d)
  BY DEF ApprovesPost
<1>2. IdOrder /\ \A c \in Client : Behind(c, {}) /\ Covered(c)
  BY <1>1 DEF TimeInv
<1>3. IdOrder'
  <2>1. PICK n : n = Cardinality(Published) /\ n \in Nat
    BY SomePosts DEF Published
  <2>2. /\ Published' = Published \cup {d} /\ pubTime'[d] = n + 1
        /\ \A x \in Published : x \in PostId /\ pubTime[x] \in Nat /\ pubTime[x] <= n
        /\ \A x \in PostId : x # d => pubTime'[x] = pubTime[x]
    <3>1. /\ Published' = Published \cup {d} /\ pubTime'[d] = n + 1
          /\ \A x \in PostId : x # d => pubTime'[x] = pubTime[x]
      BY <2>1, ApprovalGives
    <3>2. \A x \in Published : x \in PostId /\ pubTime[x] \in Nat /\ pubTime[x] <= n
      BY <2>1, ReaderTypes DEF FeedTypes, FeedsTypeOK
    <3> QED BY <3>1, <3>2
  <2>3. \A x \in PostId : x \in Nat
    BY BoundsOfFeeds
  <2>4. ASSUME NEW x \in Published', NEW y \in Published', x < y
        PROVE  pubTime'[x] < pubTime'[y]
    <3>1. x \in Published
      BY <1>1, <2>2, <2>3, <2>4
    <3>2. CASE y = d
      <4>1. pubTime'[x] = pubTime[x] /\ pubTime'[y] = n + 1
        BY <2>2, <2>3, <2>4, <3>1, <3>2
      <4> QED BY <2>1, <2>2, <3>1, <4>1
    <3>3. CASE y # d
      <4>1. y \in Published /\ x # d
        BY <2>2, <3>1, <3>3, ApprovalGives
      <4>2. pubTime[x] < pubTime[y]
        BY <1>2, <2>4, <3>1, <4>1 DEF IdOrder
      <4> QED BY <2>2, <3>1, <3>3, <4>1, <4>2
    <3> QED BY <3>2, <3>3
  <2> QED BY <2>4 DEF IdOrder
<1> QED BY <1>2, <1>3, ApprovalLeavesDue

LEMMA TimeScrolled ==
  ASSUME FeedTypes, TimeInv, NEW c \in Client, ScrollPage(c)
  PROVE  TimeInv'
<1> SUFFICES ASSUME stream' = "time", "disorder" \notin faults'
             PROVE  IdOrder' /\ \A x \in Client : Behind(x, {})' /\ Covered(x)'
  BY DEF TimeInv
<1>1. /\ stream = "time" /\ "disorder" \notin faults /\ stream \in {"time", "space"}
      /\ UNCHANGED <<post, pubTime>> /\ \A x \in Client : x # c => client'[x] = client[x]
  BY ScrollTypes, ScrollShows DEF postVars
<1>2. IdOrder /\ \A x \in Client : Behind(x, {}) /\ Covered(x)
  BY <1>1 DEF TimeInv
<1>3. IdOrder'
  BY <1>1, <1>2 DEF IdOrder, Published
<1>4. \A d \in PostId : Rank(d) = pubTime[d] /\ pubTime[d] \in Nat /\ d \in Nat
  BY <1>1, BoundsOfFeeds DEF Rank, FeedTypes, FeedsTypeOK
<1>5. \A d, x \in Published : Rank(d) < Rank(x) => d < x
  <2> TAKE d, x \in Published
  <2>1. d \in PostId /\ x \in PostId
    BY ReaderTypes
  <2>2. (d < x => pubTime[d] < pubTime[x]) /\ (x < d => pubTime[x] < pubTime[d])
    BY <1>2 DEF IdOrder
  <2> QED BY <1>4, <2>1, <2>2
<1>6. PastCursor(client[c].cursor) \subseteq Published
      /\ ScrollItems(c) \subseteq PastCursor(client[c].cursor)
  BY <1>1, CursorPage, ReaderTypes
<1>7. \A x \in ScrollItems(c) \ {} : LastOn(ScrollItems(c)) <= x
  <2> SUFFICES ASSUME NEW x \in ScrollItems(c) PROVE LastOn(ScrollItems(c)) <= x
    OBVIOUS
  <2>1. PICK l : l = LastOn(ScrollItems(c))
    OBVIOUS
  <2>2. l \in Published /\ x \in Published /\ Rank(l) <= Rank(x)
    BY <1>1, <1>6, <2>1, CursorPage
  <2>3. l \in PostId /\ x \in PostId
    BY <2>2, ReaderTypes
  <2>4. x < l => Rank(x) < Rank(l)
    BY <1>2, <1>4, <2>2, <2>3 DEF IdOrder
  <2> QED BY <1>4, <2>1, <2>2, <2>3, <2>4
<1>8. \A d \in PastCursor(client[c].cursor) \ ScrollItems(c) : d < LastOn(ScrollItems(c))
  <2> TAKE d \in PastCursor(client[c].cursor) \ ScrollItems(c)
  <2>1. LastOn(ScrollItems(c)) \in ScrollItems(c)
    BY <1>1, CursorPage
  <2>2. Rank(d) < Rank(LastOn(ScrollItems(c)))
    BY <1>1, <2>1, CursorPage
  <2> QED BY <1>5, <1>6, <2>1, <2>2
<1>9. Behind(c, {})' /\ Covered(c)'
  BY <1>1, <1>2, <1>7, <1>8, ScrollKeepsBehind, ScrollKeepsCovered
<1>10. ASSUME NEW x \in Client, x # c
       PROVE  Behind(x, {})' /\ Covered(x)'
  BY <1>1, <1>2, <1>10 DEF Behind, Covered, Normal
<1> QED BY <1>3, <1>9, <1>10

LEMMA SpaceScrolled ==
  ASSUME FeedTypes, SpaceInv, NEW c \in Client, ScrollPage(c)
  PROVE  SpaceInv'
<1> SUFFICES ASSUME stream' = "space"
             PROVE  \A x \in Client : /\ Behind(x, wasPinned)'
                                      /\ PageSize > 1 \/ wasPinned' = {} => Covered(x)'
  BY DEF SpaceInv
<1>1. /\ stream = "space" /\ stream \in {"time", "space"}
      /\ UNCHANGED <<post, wasPinned>> /\ \A x \in Client : x # c => client'[x] = client[x]
  BY ScrollTypes, ScrollShows DEF postVars
<1>2. \A x \in Client : /\ Behind(x, wasPinned)
                        /\ PageSize > 1 \/ wasPinned = {} => Covered(x)
  BY <1>1 DEF SpaceInv
<1> DEFINE items == ScrollItems(c)
           last == LastOn(items)
           rows == PastCursor(client[c].cursor)
<1>3. /\ items \subseteq rows /\ rows \subseteq PostId
      /\ rows # {} => items # {}
      /\ \A d \in rows \ items : \A p \in items : Rank(d) < Rank(p)
      /\ items # {} => last \in items /\ \A x \in items : Rank(last) <= Rank(x)
  BY <1>1, CursorPage
<1>4. /\ \A d \in PostId : d \in Nat /\ d # 0 /\ d <= LastPost
      /\ LastPost \in Nat /\ pinned \in {0} \cup wasPinned /\ wasPinned \subseteq PostId
  BY BoundsOfFeeds DEF FeedTypes, FeedsTypeOK, PostId
<1>5. \A d \in PostId : Rank(d) = IF d = pinned THEN LastPost + 1 ELSE d
  BY <1>1 DEF Rank
<1>6. \A x \in items \ wasPinned : last <= x
  <2> HIDE DEF items, last
  <2> TAKE x \in items \ wasPinned
  <2>1. last \in PostId /\ x \in PostId /\ Rank(last) <= Rank(x)
    BY <1>3
  <2>2. Rank(x) = x
    BY <1>4, <1>5, <2>1
  <2>3. Rank(last) = last \/ Rank(last) = LastPost + 1
    BY <1>5, <2>1
  <2> QED BY <1>4, <2>1, <2>2, <2>3
<1>7. Behind(c, wasPinned)'
  <2>1. PICK skip : skip = wasPinned
    OBVIOUS
  <2>2. Behind(c, skip) /\ \A x \in items \ skip : last <= x
    BY <1>2, <1>6, <2>1
  <2>3. Behind(c, skip)'
    BY <1>1, <2>2, ScrollKeepsBehind
  <2>4. skip = wasPinned'
    BY <1>1, <2>1
  <2> QED BY <2>3, <2>4 DEF Behind
<1>8. ASSUME PageSize > 1 \/ wasPinned = {}, NEW d \in rows \ items
      PROVE  d < last
  <2>1. last \in items /\ last \in PostId /\ d \in PostId /\ Rank(d) < Rank(last)
    BY <1>3
  <2>2. CASE last # pinned
    BY <1>4, <1>5, <2>1, <2>2
  <2>3. CASE last = pinned
    <3>1. wasPinned # {} /\ PageSize > 1
      BY <1>4, <1>8, <2>1, <2>3
    <3>2. items = {pinned}
      <4> HIDE DEF items, last
      <4> SUFFICES ASSUME NEW x \in items, x # pinned PROVE FALSE
        BY <2>1, <2>3
      <4>1. x \in PostId /\ Rank(last) <= Rank(x)
        BY <1>3
      <4>2. Rank(last) = LastPost + 1 /\ Rank(x) = x
        BY <1>5, <2>1, <2>3, <4>1
      <4> QED BY <1>4, <4>1, <4>2
    <3> DEFINE rest == rows \ {pinned}
               others == {(LastPost + 1) - x : x \in rest}
    <3>3. d \in rest /\ rest \subseteq PostId
      BY <1>3, <3>2
    <3>4. PICK e \in rest : \A x \in rest : x <= e
      <4>1. others \subseteq 0 .. (LastPost + 1) /\ others # {} /\ LastPost + 1 \in Nat
        <5>1. \A x \in rest : (LastPost + 1) - x \in 0 .. (LastPost + 1)
          BY <1>4, <3>3
        <5> HIDE DEF rest
        <5> QED BY <1>4, <3>3, <5>1
      <4>2. PICK m \in others : \A x \in others : m <= x
        <5> HIDE DEF others
        <5> QED BY <4>1, SmallestIdIsThere
      <4>3. PICK e \in rest : m = (LastPost + 1) - e
        BY <4>2
      <4>4. ASSUME NEW x \in rest
            PROVE  x <= e
        <5>1. (LastPost + 1) - e <= (LastPost + 1) - x
          BY <4>2, <4>3
        <5>2. x \in Nat /\ e \in Nat
          BY <1>4, <3>3
        <5> QED BY <1>4, <5>1, <5>2
      <4> QED BY <4>4
    <3>5. Ahead(e, rows) \subseteq {pinned}
      <4> SUFFICES ASSUME NEW x \in rows, Rank(x) > Rank(e), x # pinned PROVE FALSE
        BY DEF Ahead
      <4>1. x \in rest /\ x \in PostId /\ e \in PostId
        BY <1>3
      <4>2. Rank(x) = x /\ Rank(e) = e /\ x <= e
        BY <1>5, <3>4, <4>1
      <4> QED BY <1>4, <4>1, <4>2
    <3>6. Cardinality(Ahead(e, rows)) \in Nat /\ Cardinality(Ahead(e, rows)) <= 1
      <4>1. IsFiniteSet({pinned}) /\ Cardinality({pinned}) = 1
        BY FS_Singleton
      <4>2. Cardinality(Ahead(e, rows)) <= 1 /\ IsFiniteSet(Ahead(e, rows))
        BY <3>5, <4>1, FS_Subset
      <4> QED BY <4>2, FS_CardinalityType
    <3>7. e \in items
      <4>1. items = PageOf(rows, 0)
        BY <1>1 DEF ScrollItems, RowsFrom, FirstRow
      <4>2. 0 + PageSize = PageSize /\ PageSize \in Nat
        BY BoundsOfFeeds
      <4> QED BY <3>1, <3>6, <4>1, <4>2 DEF PageOf
    <3> QED BY <3>2, <3>7
  <2> QED BY <2>2, <2>3
<1>9. PageSize > 1 \/ wasPinned = {} => Covered(c)'
  BY <1>1, <1>2, <1>8, ScrollKeepsCovered
<1>10. ASSUME NEW x \in Client, x # c
       PROVE  /\ Behind(x, wasPinned)'
              /\ PageSize > 1 \/ wasPinned = {} => Covered(x)'
  BY <1>1, <1>2, <1>10 DEF Behind, Covered, Normal
<1> QED BY <1>1, <1>7, <1>9, <1>10

\* What happens to the moments leaves both streams as they were.
LEMMA SpaceApproved ==
  ASSUME FeedTypes, SpaceInv, NEW d \in PostId, ApprovesPost(d)
  PROVE  SpaceInv'
<1>1. UNCHANGED <<stream, wasPinned>>
  BY DEF ApprovesPost
<1>2. ASSUME stream = "space", NEW c \in Client
      PROVE  /\ Behind(c, wasPinned)'
             /\ PageSize > 1 \/ wasPinned = {} => Covered(c)'
  <2>1. Behind(c, wasPinned) /\ (PageSize > 1 \/ wasPinned = {} => Covered(c))
    BY <1>2 DEF SpaceInv
  <2>2. client' = client /\ (Covered(c) => Covered(c)')
    BY ApprovalLeavesDue
  <2> QED BY <1>1, <2>1, <2>2 DEF Behind
<1> QED BY <1>1, <1>2 DEF SpaceInv

LEMMA CursorsChanged ==
  ASSUME FeedTypes, TimeInv, SpaceInv,
         UNCHANGED <<stream, pubTime, client>>, Normal' \subseteq Normal,
         Published' = Published, faults \subseteq faults', wasPinned \subseteq wasPinned'
  PROVE  TimeInv' /\ SpaceInv'
<1>1. \A c \in Client : Covered(c) => Covered(c)'
  BY DEF Covered
<1>2. ASSUME stream' = "time", "disorder" \notin faults'
      PROVE  IdOrder' /\ \A c \in Client : Behind(c, {})' /\ Covered(c)'
  <2>1. IdOrder /\ \A c \in Client : Behind(c, {}) /\ Covered(c)
    BY <1>2 DEF TimeInv
  <2>2. \A c \in Client : Behind(c, {})'
    BY <2>1 DEF Behind
  <2> QED BY <1>1, <2>1, <2>2 DEF IdOrder
<1>3. ASSUME stream' = "space", NEW c \in Client
      PROVE  /\ Behind(c, wasPinned)'
             /\ PageSize > 1 \/ wasPinned' = {} => Covered(c)'
  <2>1. Behind(c, wasPinned) /\ (PageSize > 1 \/ wasPinned = {} => Covered(c))
    BY <1>3 DEF SpaceInv
  <2> QED BY <1>1, <2>1 DEF Behind
<1> QED BY <1>2, <1>3 DEF TimeInv, SpaceInv

-----------------------------------------------------------------------------
(* The forwards of a moment, by page number.                               *)

LEMMA ForwardsStand ==
  ASSUME ForwardsInv, UNCHANGED <<stream, client, post, pubTime>>, faults \subseteq faults'
  PROVE  ForwardsInv'
<1> SUFFICES ASSUME stream' = "forwards", "shift" \notin faults', NEW c \in Client
             PROVE  /\ client'[c].again = {} /\ client'[c].missed = {}
                    /\ ~client'[c].ended =>
                         client'[c].got = FirstOnes(client[c].cursor * PageSize)'
  BY DEF ForwardsInv
<1>1. stream = "forwards" /\ "shift" \notin faults
  OBVIOUS
<1>2. /\ client[c].again = {} /\ client[c].missed = {}
      /\ ~client[c].ended => client[c].got = FirstOnes(client[c].cursor * PageSize)
  BY <1>1 DEF ForwardsInv
<1>3. FirstOnes(client[c].cursor * PageSize)' = FirstOnes(client[c].cursor * PageSize)
  BY <1>1 DEF FirstOnes, Ahead, Rank, Normal
<1> QED BY <1>2, <1>3

\* The list may change where nobody is paging.
LEMMA ForwardsShift ==
  ASSUME FeedTypes, ForwardsInv, UNCHANGED <<stream, client>>,
         faults \cup Shift \subseteq faults'
  PROVE  ForwardsInv'
<1> SUFFICES ASSUME stream' = "forwards", "shift" \notin faults', NEW c \in Client
             PROVE  /\ client'[c].again = {} /\ client'[c].missed = {}
                    /\ ~client'[c].ended =>
                         client'[c].got = FirstOnes(client[c].cursor * PageSize)'
  BY DEF ForwardsInv
<1>1. stream = "forwards" /\ "shift" \notin faults /\ ~Paging
  BY DEF Shift
<1>2. client[c].again = {} /\ client[c].missed = {}
  BY <1>1 DEF ForwardsInv
<1>3. ASSUME ~client[c].ended
      PROVE  client[c].got = FirstOnes(client[c].cursor * PageSize)'
  <2>1. client[c] = NoClient
    BY <1>1, <1>3 DEF Paging, FeedTypes
  <2>2. client[c].got = {} /\ client'[c].cursor * PageSize = 0
    BY <2>1, BoundsOfFeeds DEF NoClient
  <2>3. \A d \in Normal' : Cardinality(Ahead(d, Normal)') \in Nat
    <3> TAKE d \in Normal'
    <3>1. Ahead(d, Normal)' \subseteq PostId
      BY DEF Ahead, Normal
    <3>2. Cardinality(Ahead(d, Normal)') \in 0 .. LastPost
      BY <3>1, SomePosts
    <3> QED BY <3>2
  <2>4. \A d \in Normal' : ~(Cardinality(Ahead(d, Normal)') < 0)
    BY <2>3
  <2>5. FirstOnes(client[c].cursor * PageSize)' = {}
    BY <2>2, <2>4 DEF FirstOnes
  <2> QED BY <2>2, <2>5
<1> QED BY <1>2, <1>3

LEMMA ForwardsScrolled ==
  ASSUME FeedTypes, ForwardsInv, NEW c \in Client, ScrollPage(c)
  PROVE  ForwardsInv'
<1> SUFFICES ASSUME stream' = "forwards", "shift" \notin faults', NEW x \in Client
             PROVE  /\ client'[x].again = {} /\ client'[x].missed = {}
                    /\ ~client'[x].ended =>
                         client'[x].got = FirstOnes(client[x].cursor * PageSize)'
  BY DEF ForwardsInv
<1>1. /\ stream = "forwards" /\ "shift" \notin faults
      /\ UNCHANGED <<stream, post, pubTime>> /\ \A y \in Client : y # c => client'[y] = client[y]
  BY ScrollTypes, ScrollShows DEF postVars
<1>2. \A y \in Client :
        /\ client[y].again = {} /\ client[y].missed = {}
        /\ ~client[y].ended => client[y].got = FirstOnes(client[y].cursor * PageSize)
  BY <1>1 DEF ForwardsInv
<1>3. \A n : FirstOnes(n)' = FirstOnes(n)
  BY <1>1 DEF FirstOnes, Ahead, Rank, Normal
<1>4. CASE x # c
  <2>1. PICK n : n = client[x].cursor * PageSize
    OBVIOUS
  <2>2. client'[x] = client[x] /\ FirstOnes(n)' = FirstOnes(n)
    BY <1>1, <1>3, <1>4
  <2>3. n = client'[x].cursor * PageSize
    BY <2>1, <2>2
  <2>4. FirstOnes(client[x].cursor * PageSize)' = FirstOnes(n)'
    BY <2>3 DEF FirstOnes
  <2> QED BY <1>2, <2>1, <2>2, <2>4
<1>5. CASE x = c
  <2>1. PICK k : k = client[c].cursor /\ k \in Nat
    BY ReaderTypes DEF ReaderRow
  <2>2. PICK n : n = k * PageSize /\ n \in Nat
    BY <2>1, BoundsOfFeeds
  <2>3. (k + 1) * PageSize = n + PageSize /\ PageSize \in Nat \ {0}
    BY <2>1, <2>2, BoundsOfFeeds
  <2>4. ~client[c].ended
    BY DEF ScrollPage, AsksPage
  <2>5. client[c].got = FirstOnes(n)
    BY <1>2, <2>1, <2>2, <2>4
  <2>6. /\ ScrollItems(c) = PageOf(Normal, n)
        /\ ScrollMore(c) = (Cardinality(Normal) > n + PageSize)
        /\ NextCursor(c) = k + 1
    BY <1>1, <2>1, <2>2 DEF ScrollItems, ScrollMore, NextCursor, RowsFrom, FirstRow
  <2>7. \A d \in Normal : /\ Cardinality(Ahead(d, Normal)) \in Nat
                          /\ Cardinality(Normal) \in Nat
                          /\ Cardinality(Ahead(d, Normal)) < Cardinality(Normal)
    BY AheadOf DEF Normal
  <2>8. FirstOnes(n) \cap PageOf(Normal, n) = {}
    BY <2>2, <2>7 DEF FirstOnes, PageOf
  <2>9. FirstOnes(n) \cup PageOf(Normal, n) = FirstOnes(n + PageSize)
    BY <2>2, <2>3, <2>7 DEF FirstOnes, PageOf
  <2>10. ~ScrollMore(c) => FirstOnes(n + PageSize) = Normal
    <3> SUFFICES ASSUME ~(Cardinality(Normal) > n + PageSize), NEW d \in Normal
                 PROVE  Cardinality(Ahead(d, Normal)) < n + PageSize
      BY <2>6 DEF FirstOnes
    <3> QED BY <2>2, <2>3, <2>7
  <2>11. client'[c].got = FirstOnes(n + PageSize) /\ client'[c].again = {}
    BY <1>2, <2>5, <2>6, <2>8, <2>9, ScrollShows
  <2>12. client'[c].missed = {}
    BY <2>5, <2>6, <2>9, <2>10, ScrollShows
  <2>13. client'[c].cursor * PageSize = n + PageSize
    BY <2>3, <2>6, ScrollShows
  <2>14. FirstOnes(client[c].cursor * PageSize)' = FirstOnes(n + PageSize)'
    BY <2>13 DEF FirstOnes
  <2> QED BY <1>3, <1>5, <2>11, <2>12, <2>14
<1> QED BY <1>4, <1>5

-----------------------------------------------------------------------------
(* The ranked streams.                                                     *)

LEMMA RankedStands ==
  ASSUME RankedInv, UNCHANGED <<stream, client, page>>, faults \subseteq faults',
         "hole" \in faults' => "hole" \in faults
  PROVE  RankedInv'
<1>1. ASSUME NEW c \in Client, Ranking(c)
      PROVE  Ranking(c)'
  BY <1>1 DEF Ranking
<1> QED BY <1>1 DEF RankedInv


\* What one client is ranked leaves the pages of the others alone.
LEMMA OthersRank ==
  ASSUME NEW c \in Client, client'[c] = client[c], page'[c] = page[c], stream' = stream,
         faults \subseteq faults', Ranking(c)
  PROVE  Ranking(c)'
BY DEF Ranking

\* The pool is what the client has not shown, all of it if nothing of the
\* candidates was served to another.
LEMMA PoolOf ==
  ASSUME NEW cand, NEW got
  PROVE  /\ Pool(cand, got) \subseteq cand /\ Pool(cand, got) \cap got = {}
         /\ impressed \cap cand \subseteq got => cand \ got \subseteq Pool(cand, got)
BY DEF Pool

LEMMA RankedRead ==
  ASSUME FeedTypes, RankedInv, NEW c \in Client, NEW more, RankReads(c, more)
  PROVE  RankedInv'
<1> DEFINE cand == Candidates(more)
<1>1. /\ stream' = stream /\ client' = client /\ faults \subseteq faults'
      /\ "hole" \in faults' => "hole" \in faults
      /\ page'[c] = [pool |-> Pool(cand, client[c].got), there |-> Normal,
                     cand |-> cand, step |-> "read"]
      /\ \A x \in Client : x # c => page'[x] = page[x]
      /\ stream \notin Scrolled
  BY DEF RankReads, FeedTypes, FeedsTypeOK, Scrolled
<1>2. "elsewhere" \notin faults' => impressed \cap cand \subseteq client[c].got
  BY DEF RankReads
<1>3. stream = "recommend" => cand \subseteq Normal
  <2> SUFFICES ASSUME stream = "recommend" PROVE cand \subseteq Normal
    OBVIOUS
  <2>1. \A d \in Recalled(more) : d \in PostId
    BY DEF Recalled, PostRows, Published, RankReads
  <2> QED BY <2>1 DEF Candidates, Normal
<1>4. Ranking(c)
  BY <1>1 DEF RankedInv
<1>5. Ranking(c)'
  <2> HIDE DEF cand
  <2>1. client[c].again = {} /\ (client[c].missed # {} => "elsewhere" \in faults \/ "hole" \in faults)
    BY <1>4 DEF Ranking
  <2> QED BY <1>1, <1>2, <1>3, <2>1, PoolOf DEF Ranking
<1>6. ASSUME NEW x \in Client, x # c
      PROVE  Ranking(x)'
  BY <1>1, <1>6, OthersRank DEF RankedInv
<1> QED BY <1>1, <1>5, <1>6 DEF RankedInv

LEMMA RankedServed ==
  ASSUME FeedTypes, RankedInv, NEW c \in Client, NEW cut, RankServes(c, cut)
  PROVE  RankedInv'
<1> DEFINE p == page[c]
<1>1. /\ p.step = "read" /\ cut \subseteq p.pool
      /\ Cardinality(cut) = IF Cardinality(p.pool) < PageSize
                            THEN Cardinality(p.pool) ELSE PageSize
      /\ stream' = stream /\ client' = client /\ faults \subseteq faults'
      /\ "hole" \in faults' => "hole" \in faults \/ ~(cut \subseteq p.there)
      /\ "hole" \notin faults' => cut \subseteq p.there
      /\ stream \notin Scrolled
  BY RankServeTypes DEF RankServes
<1>2. p \in PageRow /\ page \in [Client -> PageRow]
  BY ReaderTypes
<1>3. /\ page'[c].pool = p.pool /\ page'[c].cand = p.cand
      /\ page'[c].there = p.there \cap cut /\ page'[c].step = "served"
      /\ \A x \in Client : x # c => page'[x] = page[x]
  BY <1>2 DEF RankServes, PageRow
<1>4. Ranking(c)
  BY <1>1 DEF RankedInv
<1>5. ~(Cardinality(p.pool) > PageSize) => cut = p.pool
  <2>1. IsFiniteSet(p.pool) /\ Cardinality(p.pool) \in Nat /\ cut \in SUBSET p.pool
    BY <1>1, <1>2, SomePosts DEF PageRow
  <2>2. Cardinality(cut) = Cardinality(p.pool) => cut = p.pool
    BY <2>1, FS_Subset
  <2> QED BY <1>1, <2>1, <2>2, BoundsOfFeeds
<1>6. Ranking(c)'
  <2> HIDE DEF p
  <2>1. page'[c].there \subseteq p.pool
    BY <1>1, <1>3
  <2>2. "hole" \notin faults' /\ ~(Cardinality(p.pool) > PageSize) => page'[c].there = p.pool
    BY <1>1, <1>3, <1>5
  <2>3. /\ client[c].again = {} /\ p.pool \cap client[c].got = {} /\ p.pool \subseteq p.cand
        /\ "elsewhere" \notin faults => p.cand \ client[c].got \subseteq p.pool
        /\ client[c].missed # {} => "elsewhere" \in faults \/ "hole" \in faults
    BY <1>1, <1>4 DEF Ranking, p
  <2> QED BY <1>1, <1>3, <2>1, <2>2, <2>3 DEF Ranking
<1>7. "hole" \in faults' => stream = "topic"
  <2>1. stream # "topic" => stream = "recommend"
    BY <1>1 DEF FeedTypes, FeedsTypeOK, Stream, Scrolled
  <2>2. stream = "recommend" => p.pool \subseteq p.there
    BY <1>1, <1>4 DEF Ranking
  <2> QED BY <1>1, <2>1, <2>2 DEF RankedInv
<1>8. ASSUME NEW x \in Client, x # c
      PROVE  Ranking(x)'
  BY <1>1, <1>3, <1>8, OthersRank DEF RankedInv
<1> QED BY <1>1, <1>6, <1>7, <1>8 DEF RankedInv

LEMMA RankedAnswered ==
  ASSUME FeedTypes, RankedInv, NEW c \in Client, AnswerArrives(c)
  PROVE  RankedInv'
<1> DEFINE p == page[c]
           s == client[c]
           more == Cardinality(p.pool) > PageSize
<1>1. /\ p.step = "served" /\ UNCHANGED <<stream, faults>> /\ stream \notin Scrolled
      /\ page'[c] = NoPage /\ \A x \in Client : x # c => page'[x] = page[x]
  BY AnswerTypes, ReaderTypes DEF AnswerArrives
<1>2. /\ client'[c].got = s.got \cup p.there
      /\ client'[c].again = s.again \cup (s.got \cap p.there)
      /\ client'[c].missed = IF more THEN {} ELSE p.cand \ (s.got \cup p.there)
      /\ \A x \in Client : x # c => client'[x] = client[x]
  <2>1. s \in ReaderRow /\ client \in [Client -> ReaderRow]
    BY ReaderTypes
  <2> QED BY <2>1 DEF AnswerArrives, ReaderRow
<1>3. Ranking(c)
  BY <1>1 DEF RankedInv
<1>4. /\ s.again = {} /\ p.pool \cap s.got = {} /\ p.there \subseteq p.pool
      /\ "elsewhere" \notin faults => p.cand \ s.got \subseteq p.pool
      /\ "hole" \notin faults /\ ~more => p.there = p.pool
  BY <1>1, <1>3 DEF Ranking
<1>5. Ranking(c)'
  <2> HIDE DEF p, s, more
  <2>1. client'[c].again = {}
    BY <1>2, <1>4
  <2>2. client'[c].missed # {} => "elsewhere" \in faults \/ "hole" \in faults
    BY <1>2, <1>4
  <2> QED BY <1>1, <2>1, <2>2 DEF Ranking, NoPage
<1>6. ASSUME NEW x \in Client, x # c
      PROVE  Ranking(x)'
  BY <1>1, <1>2, <1>6, OthersRank DEF RankedInv
<1> QED BY <1>1, <1>5, <1>6 DEF RankedInv

LEMMA RankedLost ==
  ASSUME FeedTypes, RankedInv, NEW c \in Client, AnswerIsLost(c)
  PROVE  RankedInv'
<1>1. /\ stream' = stream /\ client' = client /\ faults \subseteq faults'
      /\ "hole" \in faults' => "hole" \in faults
      /\ page'[c] = NoPage /\ \A x \in Client : x # c => page'[x] = page[x]
      /\ stream \notin Scrolled
  BY AnswerTypes, ReaderTypes DEF AnswerIsLost
<1>2. Ranking(c)'
  <2>1. Ranking(c)
    BY <1>1 DEF RankedInv
  <2>2. client[c].again = {} /\ (client[c].missed # {} => "elsewhere" \in faults \/ "hole" \in faults)
    BY <2>1 DEF Ranking
  <2> QED BY <1>1, <2>2 DEF Ranking, NoPage
<1>3. ASSUME NEW x \in Client, x # c
      PROVE  Ranking(x)'
  BY <1>1, <1>3, OthersRank DEF RankedInv
<1> QED BY <1>1, <1>2, <1>3 DEF RankedInv

-----------------------------------------------------------------------------
(* The invariant is kept.                                                  *)

LEMMA FeedStep == FeedInv /\ [FeedsNext]_feedVars => FeedInv'
<1> SUFFICES ASSUME FeedInv, [FeedsNext]_feedVars PROVE FeedInv'
  OBVIOUS
<1>1. FeedTypes /\ TimeInv /\ SpaceInv /\ ForwardsInv /\ RankedInv
  BY DEF FeedInv
<1>2. ASSUME NEW d \in PostId, ApprovesPost(d)
      PROVE  FeedInv'
  <2>1. /\ UNCHANGED <<stream, client, page>> /\ faults \cup Shift \subseteq faults'
        /\ "hole" \in faults' => "hole" \in faults
    BY <1>2 DEF ApprovesPost, readerVars, Shift
  <2>2. FeedTypes' /\ TimeInv' /\ SpaceInv'
    BY <1>1, <1>2, ApprovalTypes, TimeApproved, SpaceApproved
  <2>3. ForwardsInv' /\ RankedInv'
    BY <1>1, <2>1, ForwardsShift, RankedStands
  <2> QED BY <2>2, <2>3 DEF FeedInv
<1>3. ASSUME \/ \E d \in PostId : Leaves(d, "hidden") \/ Leaves(d, "orphan") \/ Pins(d)
             \/ LeavesWindow \/ ImpressionsExpire
      PROVE  FeedInv'
  <2>1. /\ FeedTypes' /\ Normal' \subseteq Normal
        /\ Published' = Published /\ faults \subseteq faults'
        /\ UNCHANGED <<stream, pubTime, client, page>>
    BY <1>1, <1>3, ChangeTypes DEF readerVars
  <2>2. /\ wasPinned \subseteq wasPinned' /\ ("hole" \in faults' => "hole" \in faults)
        /\ (faults \cup Shift \subseteq faults' \/ post' = post)
    BY <1>3 DEF Leaves, Pins, LeavesWindow, ImpressionsExpire, postVars, Shift
  <2>3. TimeInv' /\ SpaceInv'
    BY <1>1, <2>1, <2>2, CursorsChanged
  <2>4. ForwardsInv'
    BY <1>1, <2>1, <2>2, ForwardsShift, ForwardsStand
  <2>5. RankedInv'
    BY <1>1, <2>1, <2>2, RankedStands
  <2> QED BY <2>1, <2>3, <2>4, <2>5 DEF FeedInv
<1>4. ASSUME NEW c \in Client, ScrollPage(c)
      PROVE  FeedInv'
  <2>1. FeedTypes' /\ stream \in Scrolled /\ UNCHANGED <<stream, page, faults>>
    BY <1>1, <1>4, ScrollTypes
  <2>2. TimeInv' /\ SpaceInv' /\ ForwardsInv'
    BY <1>1, <1>4, TimeScrolled, SpaceScrolled, ForwardsScrolled
  <2>3. RankedInv'
    BY <1>1, <2>1 DEF RankedInv
  <2> QED BY <2>1, <2>2, <2>3 DEF FeedInv
<1>5. ASSUME NEW c \in Client,
             \/ \E more \in SUBSET PostId : RankReads(c, more)
             \/ \E cut \in SUBSET PostId : RankServes(c, cut)
             \/ AnswerArrives(c) \/ AnswerIsLost(c)
      PROVE  FeedInv'
  <2>1. FeedTypes' /\ RankedInv'
    BY <1>1, <1>5, RankReadTypes, RankServeTypes, AnswerTypes,
       RankedRead, RankedServed, RankedAnswered, RankedLost
  <2>2. stream' = stream /\ stream \notin Scrolled
    BY <1>1, <1>5, RankServeTypes, AnswerTypes
       DEF RankReads, RankServes, AnswerArrives, AnswerIsLost, Scrolled
  <2> QED BY <2>1, <2>2 DEF FeedInv, TimeInv, SpaceInv, ForwardsInv, Scrolled
<1>6. ASSUME UNCHANGED feedVars
      PROVE  FeedInv'
  <2>1. /\ UNCHANGED <<stream, pubTime, client, page, faults, post, pinned, wasPinned>>
        /\ UNCHANGED <<outdated, impressed, pages, turns>>
    BY <1>6 DEF feedVars, postVars, readerVars
  <2>2. FeedTypes' /\ Normal' = Normal /\ Published' = Published
    BY <1>1, <2>1 DEF FeedTypes, FeedsTypeOK, Normal, Published
  <2>3. TimeInv' /\ SpaceInv' /\ ForwardsInv' /\ RankedInv'
    BY <1>1, <2>1, <2>2, CursorsChanged, ForwardsStand, RankedStands
  <2> QED BY <2>2, <2>3 DEF FeedInv
<1> QED BY <1>2, <1>3, <1>4, <1>5, <1>6 DEF FeedsNext

\* Whatever happens to the moments meanwhile, a client is shown a moment once
\* and, when it is told there is no more, has been shown all it was to see, but
\* for the ways named in ShownOnce and ShownAll; and only a topic serves a row
\* without a moment (comprehensive_feed, space_feed, following_feed, topic_feed,
\* list_forwards, rank_feed).
THEOREM FeedsAreShown == FeedsSpec => []FeedsHold
<1>1. FeedInv => FeedsHold
  <2> SUFFICES ASSUME FeedInv PROVE FeedsHold
    OBVIOUS
  <2>1. FeedTypes /\ TimeInv /\ SpaceInv /\ ForwardsInv /\ RankedInv
    BY DEF FeedInv
  <2>2. /\ stream \in {"time", "space", "forwards", "recommend", "topic"}
        /\ PageSize \in Nat \ {0}
    BY <2>1, BoundsOfFeeds DEF FeedTypes, FeedsTypeOK, Stream
  <2>3. /\ stream = "time" /\ "disorder" \notin faults =>
             \A c \in Client : client[c].again = {} /\ client[c].missed = {}
        /\ stream = "space" =>
             \A c \in Client : /\ client[c].again \subseteq wasPinned
                               /\ PageSize > 1 \/ wasPinned = {} => client[c].missed = {}
        /\ stream = "forwards" /\ "shift" \notin faults =>
             \A c \in Client : client[c].again = {} /\ client[c].missed = {}
    BY <2>1 DEF TimeInv, SpaceInv, ForwardsInv, Behind, Covered
  <2>4. /\ "hole" \in faults => stream = "topic"
        /\ stream \in {"recommend", "topic"} =>
             \A c \in Client : /\ client[c].again = {}
                               /\ client[c].missed # {} => "elsewhere" \in faults \/ "hole" \in faults
    BY <2>1 DEF RankedInv, Ranking, Scrolled
  <2>5. ShownOnce
    BY <2>2, <2>3, <2>4 DEF ShownOnce
  <2>6. ShownAll
    BY <2>2, <2>3, <2>4 DEF ShownAll
  <2> QED BY <2>4, <2>5, <2>6 DEF FeedsHold, RenderedFull
<1> QED BY <1>1, FeedStart, FeedStep, PTL DEF FeedsSpec

=============================================================================
