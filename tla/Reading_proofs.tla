--------------------------- MODULE Reading_proofs ---------------------------
(***************************************************************************)
(* Proofs about the lists that readers page through, the audit of what     *)
(* they write, the spaces of users, and the whole of what they are shown   *)
(* (MCReading), for any number of rows and pages and any limits.           *)
(*                                                                         *)
(* A list is cut by number out of an order that changes, so the invariant  *)
(* says by number where the reader stands: how many rows come before one   *)
(* it has seen, and before one it was to see.  Rows that leave only lower  *)
(* these numbers, and nothing is seen again; rows that come only raise     *)
(* them, and nothing is left out.  A page holds a row for every number, so *)
(* one that is not full is the last.                                       *)
(*                                                                         *)
(* An audit is what its operators make of a text, so its proofs are about  *)
(* those: the walks through the trees, the verdict, and the mask, which is *)
(* a fold and has its value by a smallest counterexample.                  *)
(***************************************************************************)
EXTENDS MCReading, Feeds_proofs, SumTheorems, SequenceTheorems

-----------------------------------------------------------------------------
(* The lists: types and invariant.                                         *)

ListReader ==
  [at: {"idle", "read"}, page: Nat, cursor: {0} \cup RowId, from: {0} \cup RowId,
   focus: {0} \cup RowId, top: {0} \cup RowId, rows: SUBSET RowId, more: BOOLEAN,
   got: SUBSET RowId, again: SUBSET RowId, missed: SUBSET RowId, due: SUBSET RowId,
   ended: BOOLEAN]

ListTypes ==
  /\ ListsTypeOK
  /\ reader \in ListReader
  /\ \A r \in Present, q \in RowId : q < r => q \in Present

\* What the reader holds are rows that came; what it read first has been
\* decided upon, and the pinned row and the one to begin with are apart.
ReaderInv ==
  /\ ~Begun => reader = NoReader /\ met = {}
  /\ reader.page = 0 => reader.got = {}
  /\ reader.rows \cup reader.due \cup reader.got \subseteq Present
  /\ reader.at = "idle" => reader.rows = {} /\ reader.focus = 0 /\ reader.top = 0
  /\ list \notin Areas => reader.focus = 0 /\ reader.top = 0
  /\ reader.rows \cap {reader.focus, reader.top} = {}
  /\ reader.focus # 0 => reader.focus # reader.top /\ reader.page = 0 /\ "focus" \in met
  /\ list \in Areas \cup {"replies"} => \A r \in reader.rows : row[r] \in {"open", "gone"}

\* The rows of a list that is cut by number, and the place of one in it.
Standing == ListRows(0, 0)
PlaceOfRow(r) == Cardinality(Prior(r, Standing))

\* Nothing is read again while rows only leave.
OnceInv ==
  list \in Numbered /\ met \cap {"came", "moved"} = {} /\ ~(list \in Areas /\ "focus" \in met) =>
    /\ reader.again = {} /\ reader.rows \cap reader.got = {}
    /\ \A r \in reader.got \cap Standing : PlaceOfRow(r) < reader.page * RowsPerPage
    /\ \A r \in reader.rows \cap Standing :
         PlaceOfRow(r) < reader.page * RowsPerPage + RowsPerPage
    /\ list \in Areas /\ reader.at = "read" => reader.top = top

\* Nothing is left out while rows only come.
AllInv ==
  list \in Numbered /\ met \cap {"left", "moved"} = {} /\ ~(list = "fans" /\ "window" \in met) =>
    /\ reader.missed = {}
    /\ \A r \in reader.due \cap Standing :
         PlaceOfRow(r) < reader.page * RowsPerPage => r \in reader.got
    /\ reader.at = "read" =>
         \A r \in reader.due \cap Standing :
            PlaceOfRow(r) < reader.page * RowsPerPage + RowsPerPage \/ ~reader.more =>
              r \in reader.got \cup reader.rows \cup {reader.focus}
    /\ list \in Areas => /\ reader.at = "read" => reader.top = top
                         /\ reader.page > 0 => (top \in reader.due \cap Open => top \in reader.got)

\* Messages are read backwards from the cursor.
MessagesInv ==
  list = "messages" =>
    /\ reader.again = {} /\ reader.missed = {}
    /\ \A r \in reader.got : reader.cursor # 0 /\ r >= reader.cursor
    /\ \A r \in reader.rows : reader.cursor = 0 \/ r < reader.cursor
    /\ reader.due \cap (Held \ OwnRows) = {}
    /\ reader.cursor # 0 =>
         \A r \in reader.due \cap Messages : r >= reader.cursor => r \in reader.got
    /\ reader.at = "read" =>
         \A r \in reader.due \cap Messages :
            \/ r \in reader.got \cup reader.rows
            \/ reader.more /\ reader.rows # {} /\ \A q \in reader.rows : r < q

\* And forwards from the newest that was there first.
PollingInv ==
  list = "polling" =>
    /\ reader.again = {} /\ reader.ended = FALSE
    /\ \A r \in reader.got : r <= reader.cursor
    /\ \A r \in reader.rows : r > reader.cursor
    /\ reader.cursor # 0 => reader.cursor \in reader.got
    /\ reader.from = 0 <=> reader.cursor = 0
    /\ "late" \notin met =>
         /\ reader.missed = {}
         /\ \A r \in Messages : reader.from < r /\ r <= reader.cursor => r \in reader.got
         /\ reader.cursor # 0 =>
              \A r \in Messages, q \in reader.rows :
                 r > reader.cursor /\ r <= q => r \in reader.rows

\* The latest comments are read once.
LatestInv ==
  list = "latest" =>
    /\ reader.again = {} /\ (reader.page > 0 => reader.ended)
    /\ reader.at = "read" => reader.page = 0 /\ reader.more = FALSE
    /\ met = {} /\ reader.at = "read" => reader.rows = Cut(Open, 0, ScanRows)
    /\ LatestFills

ListInv ==
  /\ ListTypes /\ ReaderInv /\ PageIsSound /\ OwnComeFirst
  /\ OnceInv /\ AllInv /\ MessagesInv /\ PollingInv /\ LatestInv

LEMMA BoundsOfLists ==
  /\ LastRow \in Nat /\ ListPages \in Nat /\ ListTurns \in Nat /\ OwnRows \subseteq RowId
  /\ RowsPerPage \in Nat \ {0} /\ PageLimit \in Nat \ {0} /\ ScanRows \in Nat \ {0}
  /\ RowId \subseteq Nat /\ 0 \notin RowId /\ IsFiniteSet(RowId)
  /\ Cardinality(RowId) = LastRow
<1>1. LastRow \in Nat
  BY ListAssumption
<1>2. IsFiniteSet(RowId) /\ Cardinality(RowId) = LastRow
  BY <1>1, FS_Interval DEF RowId
<1> QED BY <1>1, <1>2, ListAssumption DEF RowId

LEMMA SomeRows ==
  ASSUME NEW S, S \subseteq RowId
  PROVE  IsFiniteSet(S) /\ Cardinality(S) \in 0 .. LastRow
<1>1. IsFiniteSet(S) /\ Cardinality(S) <= LastRow
  BY BoundsOfLists, FS_Subset
<1> QED BY <1>1, BoundsOfLists, FS_CardinalityType

LEMMA ReaderFields ==
  ASSUME ListTypes
  PROVE  /\ reader.at \in {"idle", "read"} /\ reader.page \in Nat
         /\ {reader.cursor, reader.from, reader.focus, reader.top} \subseteq {0} \cup RowId
         /\ reader.rows \subseteq RowId /\ reader.more \in BOOLEAN
         /\ reader.got \subseteq RowId /\ reader.again \subseteq RowId
         /\ reader.missed \subseteq RowId /\ reader.due \subseteq RowId
         /\ reader.ended \in BOOLEAN
         /\ \A r \in RowId : r \in Nat /\ r # 0
         /\ top \in {0} \cup RowId /\ row \in [RowId -> {"none", "held", "open", "gone"}]
BY BoundsOfLists DEF ListTypes, ListsTypeOK, ListReader

LEMMA RowsOfLists ==
  ASSUME ListTypes
  PROVE  /\ Open \subseteq Present /\ Held \subseteq Present /\ Messages \subseteq Present
         /\ Present \subseteq RowId /\ Open \cap Held = {}
         /\ \A f, k : ListRows(f, k) \subseteq Present
<1>1. Open \subseteq Present /\ Held \subseteq Present /\ Present \subseteq RowId
      /\ Open \cap Held = {}
  BY DEF Open, Held, Present
<1>2. Messages \subseteq Present
  BY <1>1 DEF Messages
<1> QED BY <1>1, <1>2 DEF ListRows, AreaRows, MessageRows, NewMessages

\* The places of the rows in the list are different.
LEMMA PlacesDiffer ==
  ASSUME ListTypes
  PROVE  /\ \A r \in Present : PlaceInList(r) \in 0 .. LastRow
         /\ \A r, q \in Present : PlaceInList(r) = PlaceInList(q) => r = q
<1>1. /\ \A r \in Present : place[r] \in 1 .. LastRow
      /\ \A r, q \in Present : place[r] = place[q] => r = q
  <2>1. Cardinality(Present) \in 0 .. LastRow /\ LastRow \in Nat
    BY SomeRows, BoundsOfLists DEF Present
  <2> QED BY <2>1 DEF ListTypes, ListsTypeOK
<1>2. \A r \in Present : r \in 1 .. LastRow /\ LastRow \in Nat
  BY BoundsOfLists DEF Present, RowId
<1>3. ASSUME NEW r \in Present
      PROVE  PlaceInList(r) \in 0 .. LastRow
  BY <1>1, <1>2 DEF PlaceInList
<1>4. ASSUME NEW r \in Present, NEW q \in Present, PlaceInList(r) = PlaceInList(q)
      PROVE  r = q
  <2>1. /\ place[r] \in 1 .. LastRow /\ place[q] \in 1 .. LastRow
        /\ r \in 1 .. LastRow /\ q \in 1 .. LastRow /\ LastRow \in Nat
        /\ place[r] = place[q] => r = q
    BY <1>1, <1>2
  <2>2. CASE list \in {"hot", "following", "fans"}
    BY <1>4, <2>1, <2>2 DEF PlaceInList
  <2>3. CASE list = "sessions"
    BY <1>4, <2>1, <2>3 DEF PlaceInList
  <2>4. CASE list \notin {"hot", "following", "fans", "sessions"}
    BY <1>4, <2>1, <2>4 DEF PlaceInList
  <2> QED BY <2>2, <2>3, <2>4
<1> QED BY <1>3, <1>4

LEMMA PriorRows ==
  ASSUME ListTypes, NEW rows, rows \subseteq Present, NEW r \in rows
  PROVE  /\ Prior(r, rows) \subseteq rows /\ r \notin Prior(r, rows)
         /\ Cardinality(Prior(r, rows)) \in Nat /\ Cardinality(rows) \in Nat
         /\ Cardinality(Prior(r, rows)) < Cardinality(rows)
         /\ IsFiniteSet(Prior(r, rows))
<1>1. Prior(r, rows) \in SUBSET rows /\ IsFiniteSet(rows) /\ Cardinality(rows) \in Nat
  BY SomeRows DEF Prior, Present
<1>2. r \notin Prior(r, rows)
  BY PlacesDiffer DEF Prior
<1>3. IsFiniteSet(Prior(r, rows)) /\ Cardinality(Prior(r, rows)) \in Nat
      /\ Cardinality(Prior(r, rows)) <= Cardinality(rows)
      /\ (Cardinality(Prior(r, rows)) = Cardinality(rows) => Prior(r, rows) = rows)
  BY <1>1, FS_Subset, FS_CardinalityType
<1> QED BY <1>1, <1>2, <1>3

LEMMA PriorGrows ==
  ASSUME ListTypes, NEW rows, rows \subseteq Present, NEW r \in rows, NEW q \in rows,
         PlaceInList(r) < PlaceInList(q)
  PROVE  Cardinality(Prior(r, rows)) < Cardinality(Prior(q, rows))
<1>1. Prior(r, rows) \in SUBSET Prior(q, rows) /\ r \in Prior(q, rows)
      /\ r \notin Prior(r, rows)
  <2>1. \A x \in rows : PlaceInList(x) \in Nat
    BY PlacesDiffer
  <2> QED BY <2>1 DEF Prior
<1>2. IsFiniteSet(Prior(q, rows)) /\ Cardinality(Prior(q, rows)) \in Nat
      /\ Cardinality(Prior(r, rows)) \in Nat
  BY PriorRows
<1>3. Cardinality(Prior(r, rows)) <= Cardinality(Prior(q, rows))
      /\ (Cardinality(Prior(r, rows)) = Cardinality(Prior(q, rows))
            => Prior(r, rows) = Prior(q, rows))
  BY <1>1, <1>2, FS_Subset
<1> QED BY <1>1, <1>2, <1>3

\* A page has as many rows as were asked for, if the list goes on so far.
LEMMA PageIsFull ==
  ASSUME ListTypes, NEW rows, rows \subseteq Present, NEW from \in Nat, NEW n \in Nat,
         from + n <= Cardinality(rows)
  PROVE  Cardinality(Cut(rows, from, n)) = n
<1> DEFINE k == Cardinality(rows)
           at == [r \in rows |-> Cardinality(Prior(r, rows))]
           P == Cut(rows, from, n)
           seen == [r \in P |-> Cardinality(Prior(r, rows))]
<1>1. IsFiniteSet(rows) /\ k \in Nat
  BY SomeRows DEF Present
<1>2. \A r \in rows : at[r] \in 0 .. (k - 1)
  BY <1>1, PriorRows
<1>3. \A r, q \in rows : at[r] = at[q] => r = q
  <2> SUFFICES ASSUME NEW r \in rows, NEW q \in rows, r # q PROVE at[r] # at[q]
    OBVIOUS
  <2>1. PlaceInList(r) \in Nat /\ PlaceInList(q) \in Nat /\ PlaceInList(r) # PlaceInList(q)
    BY PlacesDiffer
  <2>2. PlaceInList(r) < PlaceInList(q) \/ PlaceInList(q) < PlaceInList(r)
    BY <2>1
  <2>3. Cardinality(Prior(r, rows)) < Cardinality(Prior(q, rows))
        \/ Cardinality(Prior(q, rows)) < Cardinality(Prior(r, rows))
    BY <2>2, PriorGrows
  <2>4. Cardinality(Prior(r, rows)) \in Nat /\ Cardinality(Prior(q, rows)) \in Nat
    BY PriorRows
  <2> QED BY <2>3, <2>4
<1>4. at \in Injection(rows, 0 .. (k - 1))
  BY <1>2, <1>3 DEF Injection, IsInjective
<1>5. {at[r] : r \in rows} = 0 .. (k - 1)
  <2> DEFINE I == {at[r] : r \in rows}
  <2>1. I \in SUBSET (0 .. (k - 1))
    BY <1>2
  <2>2. IsFiniteSet(0 .. (k - 1)) /\ Cardinality(0 .. (k - 1)) = k
    <3>1. PICK j \in Int : j = k - 1
      BY <1>1
    <3>2. PICK z \in Int : z = 0
      OBVIOUS
    <3>3. IsFiniteSet(z .. j) /\ Cardinality(z .. j) = IF z > j THEN 0 ELSE j - z + 1
      BY <3>1, <3>2, FS_Interval
    <3> QED BY <1>1, <3>1, <3>2, <3>3
  <2>3. Cardinality(I) = k
    <3>1. at \in Bijection(rows, I)
      BY <1>3 DEF Bijection, Injection, Surjection, IsInjective
    <3>2. ExistsBijection(rows, I)
      BY <3>1 DEF ExistsBijection
    <3> HIDE DEF I, at
    <3> QED BY <1>1, <3>2, FS_Bijection
  <2> QED BY <2>1, <2>2, <2>3, FS_Subset
<1>6. seen \in Bijection(P, from .. (from + n - 1))
  <2>1. P = {r \in rows : at[r] >= from /\ at[r] < from + n}
    BY DEF Cut
  <2>2. \A r \in P : seen[r] \in from .. (from + n - 1)
    BY <1>2, <2>1
  <2>3. \A m \in from .. (from + n - 1) : \E r \in P : seen[r] = m
    <3> TAKE m \in from .. (from + n - 1)
    <3>1. m \in 0 .. (k - 1)
      BY <1>1
    <3>2. PICK r \in rows : at[r] = m
      BY <1>5, <3>1
    <3>3. r \in P /\ seen[r] = m
      BY <2>1, <3>2
    <3> QED BY <3>3
  <2>4. \A r, q \in P : seen[r] = seen[q] => r = q
    BY <1>3, <2>1
  <2> QED BY <2>2, <2>3, <2>4 DEF Bijection, Injection, Surjection, IsInjective
<1>7. IsFiniteSet(from .. (from + n - 1)) /\ Cardinality(from .. (from + n - 1)) = n
  <2>1. PICK j \in Int : j = from + n - 1
    OBVIOUS
  <2>2. IsFiniteSet(from .. j) /\ Cardinality(from .. j) = IF from > j THEN 0 ELSE j - from + 1
    BY <2>1, FS_Interval
  <2> QED BY <2>1, <2>2
<1>8. IsFiniteSet(P)
  BY SomeRows DEF Cut, Present
<1>9. ExistsBijection(P, from .. (from + n - 1))
  BY <1>6 DEF ExistsBijection
<1> HIDE DEF P, seen, at
<1>10. Cardinality(from .. (from + n - 1)) = Cardinality(P)
  BY <1>8, <1>9, FS_Bijection
<1> QED BY <1>7, <1>10 DEF P

\* The first rows come before the others; if they are not more, they are all.
LEMMA CutBegins ==
  ASSUME ListTypes, NEW rows, rows \subseteq Present, NEW n \in Nat \ {0}
  PROVE  /\ Cut(rows, 0, n) \subseteq rows
         /\ rows # {} => Cut(rows, 0, n) # {}
         /\ \A r \in rows \ Cut(rows, 0, n) : \A q \in Cut(rows, 0, n) :
              PlaceInList(q) < PlaceInList(r)
         /\ ~(Cardinality(rows) > n) => Cut(rows, 0, n) = rows
<1> DEFINE P == Cut(rows, 0, n)
<1>1. P = {r \in rows : Cardinality(Prior(r, rows)) < n}
  BY PriorRows DEF Cut
<1>2. \A r \in rows : PlaceInList(r) \in 0 .. LastRow
  BY PlacesDiffer
<1>3. ASSUME rows # {}
      PROVE  P # {}
  <2> DEFINE N == {PlaceInList(r) : r \in rows}
  <2>1. N \subseteq 0 .. LastRow /\ N # {}
    BY <1>2, <1>3
  <2>2. PICK m \in N : \A x \in N : m <= x
    <3> HIDE DEF N
    <3> QED BY <2>1, BoundsOfLists, SmallestIdIsThere
  <2>3. PICK r \in rows : m = PlaceInList(r)
    BY <2>2
  <2>4. ASSUME NEW q \in rows
        PROVE  ~(PlaceInList(q) < PlaceInList(r))
    <3>1. PlaceInList(q) \in N
      OBVIOUS
    <3>2. PlaceInList(r) <= PlaceInList(q)
      BY <2>2, <2>3, <3>1
    <3>3. PlaceInList(q) \in Int /\ PlaceInList(r) \in Int
      BY <1>2
    <3> QED BY <3>2, <3>3
  <2>5. Prior(r, rows) = {}
    BY <2>4 DEF Prior
  <2>6. Cardinality(Prior(r, rows)) = 0
    BY <2>5, FS_EmptySet
  <2> QED BY <1>1, <2>6
<1>4. ASSUME NEW r \in rows \ P, NEW q \in P
      PROVE  PlaceInList(q) < PlaceInList(r)
  <2>1. r \in rows /\ q \in rows /\ r # q /\ Cardinality(Prior(q, rows)) < n
        /\ ~(Cardinality(Prior(r, rows)) < n)
    BY <1>1
  <2>2. PlaceInList(r) \in Int /\ PlaceInList(q) \in Int /\ PlaceInList(r) # PlaceInList(q)
    BY <2>1, PlacesDiffer
  <2>3. PlaceInList(r) < PlaceInList(q)
          => Cardinality(Prior(r, rows)) < Cardinality(Prior(q, rows))
    BY <2>1, PriorGrows
  <2>4. Cardinality(Prior(r, rows)) \in Nat /\ Cardinality(Prior(q, rows)) \in Nat
    BY <2>1, PriorRows
  <2> QED BY <2>1, <2>2, <2>3, <2>4
<1>5. ASSUME ~(Cardinality(rows) > n), NEW r \in rows
      PROVE  r \in P
  <2>1. Cardinality(Prior(r, rows)) < Cardinality(rows)
        /\ Cardinality(Prior(r, rows)) \in Nat /\ Cardinality(rows) \in Nat
    BY PriorRows
  <2>2. Cardinality(Prior(r, rows)) < n
    BY <1>5, <2>1
  <2> QED BY <1>1, <2>2
<1> QED BY <1>1, <1>3, <1>4, <1>5

\* A page that is not full is the last one.
LEMMA CutEnds ==
  ASSUME ListTypes, NEW rows, rows \subseteq Present, NEW from \in Nat, NEW n \in Nat
  PROVE  /\ Cut(rows, from, n) \subseteq rows
         /\ Cardinality(Cut(rows, from, n)) # n =>
              \A r \in rows : Cardinality(Prior(r, rows)) >= from => r \in Cut(rows, from, n)
<1>1. Cut(rows, from, n) \subseteq rows
  BY DEF Cut
<1>2. ASSUME Cardinality(Cut(rows, from, n)) # n, NEW r \in rows,
             Cardinality(Prior(r, rows)) >= from, r \notin Cut(rows, from, n)
      PROVE  FALSE
  <2>1. ~(Cardinality(Prior(r, rows)) < from + n)
    BY <1>2 DEF Cut
  <2>2. Cardinality(Prior(r, rows)) < Cardinality(rows)
        /\ Cardinality(Prior(r, rows)) \in Nat /\ Cardinality(rows) \in Nat
    BY PriorRows
  <2>3. from + n <= Cardinality(rows)
    BY <2>1, <2>2
  <2> QED BY <1>2, <2>3, PageIsFull
<1> QED BY <1>1, <1>2

-----------------------------------------------------------------------------
(* The lists: every step keeps the types.                                  *)

LEMMA MeanwhileGives ==
  ASSUME ListTypes, NEW what, what \subseteq Met, Meanwhile(what)
  PROVE  /\ met' \subseteq Met /\ listTurns' \in 0 .. ListTurns
         /\ met \subseteq met' /\ (Begun => met' = met \cup what) /\ (~Begun => met' = met)
BY BoundsOfLists DEF Meanwhile, ListTypes, ListsTypeOK

LEMMA ArrivalGives ==
  ASSUME ListTypes, NEW r \in RowId, NEW s \in {"held", "open"}, NEW i \in RowId,
         Arrives(r, s, i)
  PROVE  /\ r \notin Present /\ Present' = Present \cup {r}
         /\ Cardinality(Present') = Cardinality(Present) + 1
         /\ i \in 1 .. (Cardinality(Present) + 1)
         /\ place' \in [RowId -> Nat] /\ place'[r] = i
         /\ \A q \in Present :
              place'[q] = IF place[q] >= i THEN place[q] + 1 ELSE place[q]
         /\ \A q \in RowId : q < r => q \in Present
         /\ \A q \in Present : q < r
         /\ row' \in [RowId -> {"none", "held", "open", "gone"}] /\ row'[r] = s
         /\ \A q \in RowId : q # r => row'[q] = row[q]
<1>1. row[r] = "none" /\ r \notin Present /\ \A q \in RowId : q < r => q \in Present
  BY DEF Arrives, Upcoming, Present
<1>2. /\ row' \in [RowId -> {"none", "held", "open", "gone"}] /\ row'[r] = s
      /\ \A q \in RowId : q # r => row'[q] = row[q]
  BY DEF Arrives, ListTypes, ListsTypeOK
<1>3. Present' = Present \cup {r}
  BY <1>2 DEF Present
<1>4. IsFiniteSet(Present) /\ Cardinality(Present) \in Nat
  BY SomeRows DEF Present
<1>5. Cardinality(Present') = Cardinality(Present) + 1
  BY <1>1, <1>3, <1>4, FS_AddElement
<1>6. i \in 1 .. (Cardinality(Present) + 1)
  BY <1>4 DEF Arrives, PlaceOf
<1>7. place' = [q \in RowId |-> IF q = r THEN i
                                ELSE IF place[q] >= i THEN place[q] + 1 ELSE place[q]]
  BY DEF Arrives, Inserted
<1>8. place' \in [RowId -> Nat] /\ place'[r] = i
      /\ \A q \in Present : place'[q] = IF place[q] >= i THEN place[q] + 1 ELSE place[q]
  <2>1. place \in [RowId -> Nat] /\ i \in Nat /\ Present \subseteq RowId
    BY BoundsOfLists DEF ListTypes, ListsTypeOK, Present
  <2> QED BY <1>1, <1>7, <2>1
<1>9. \A q \in Present : q < r
  <2> SUFFICES ASSUME NEW q \in Present, ~(q < r) PROVE FALSE
    OBVIOUS
  <2>1. q \in Nat /\ r \in Nat /\ q # r /\ q \in RowId
    BY <1>1, BoundsOfLists DEF Present
  <2>2. r < q
    BY <2>1
  <2> QED BY <1>1, <2>2 DEF ListTypes
<1> QED BY <1>1, <1>2, <1>3, <1>5, <1>6, <1>8, <1>9

LEMMA ArrivalTypes ==
  ASSUME ListTypes, NEW r \in RowId, NEW s \in {"held", "open"}, NEW i \in RowId,
         Arrives(r, s, i)
  PROVE  ListTypes'
<1>1. UNCHANGED <<list, top, orphaned, reader, answer>>
      /\ met' \subseteq Met /\ listTurns' \in 0 .. ListTurns
  BY MeanwhileGives DEF Arrives, Met
<1>2. PICK n \in Nat : n = Cardinality(Present)
  BY SomeRows DEF Present
<1>3. /\ Present' = Present \cup {r} /\ Cardinality(Present') = n + 1 /\ i \in 1 .. (n + 1)
      /\ place' \in [RowId -> Nat] /\ place'[r] = i
      /\ \A q \in Present : place'[q] = IF place[q] >= i THEN place[q] + 1 ELSE place[q]
      /\ r \notin Present /\ row' \in [RowId -> {"none", "held", "open", "gone"}]
      /\ \A q \in RowId : q < r => q \in Present
  BY <1>2, ArrivalGives
<1>4. /\ \A q \in Present : place[q] \in 1 .. n
      /\ \A q, x \in Present : place[q] = place[x] => q = x
  BY <1>2 DEF ListTypes, ListsTypeOK
<1>5. \A q \in Present' : place'[q] \in 1 .. Cardinality(Present')
  BY <1>3, <1>4
<1>6. ASSUME NEW q \in Present', NEW x \in Present', place'[q] = place'[x]
      PROVE  q = x
  <2>1. CASE q = r /\ x \in Present
    BY <1>3, <1>4, <1>6, <2>1
  <2>2. CASE x = r /\ q \in Present
    BY <1>3, <1>4, <1>6, <2>2
  <2>3. CASE q \in Present /\ x \in Present
    BY <1>3, <1>4, <1>6, <2>3
  <2>4. CASE q = r /\ x = r
    BY <2>4
  <2> QED BY <1>3, <2>1, <2>2, <2>3, <2>4
<1>7. \A q \in Present', x \in RowId : x < q => x \in Present'
  BY <1>3 DEF ListTypes
<1> QED BY <1>1, <1>3, <1>5, <1>6, <1>7 DEF ListTypes, ListsTypeOK, ListReader

\* What is decided upon or leaves stays in its place.
LEMMA LeavingTypes ==
  ASSUME ListTypes, NEW r \in RowId,
         Decided(r, "open") \/ Decided(r, "gone") \/ RowLeaves(r) \/ TargetGoes(r)
  PROVE  /\ ListTypes' /\ Present' = Present
         /\ UNCHANGED <<list, place, top, reader, answer>>
         /\ met \subseteq met' /\ (Begun => "left" \in met') /\ (~Begun => met' = met)
         /\ Open' \subseteq Open \cup {r} /\ Held' \subseteq Held
         /\ \A q \in RowId : row[q] \in {"open", "gone"} => row'[q] \in {"open", "gone"}
<1>1. /\ row' \in [RowId -> {"none", "held", "open", "gone"}] /\ orphaned' \subseteq RowId
      /\ UNCHANGED <<list, place, top, reader, answer>>
      /\ \A q \in RowId : row'[q] = "none" <=> row[q] = "none"
      /\ Open' \subseteq Open \cup {r} /\ Held' \subseteq Held
      /\ \A q \in RowId : row[q] \in {"open", "gone"} => row'[q] \in {"open", "gone"}
  BY DEF Decided, RowLeaves, TargetGoes, Open, Held, ListTypes, ListsTypeOK
<1>2. /\ met' \subseteq Met /\ listTurns' \in 0 .. ListTurns
      /\ met \subseteq met' /\ (Begun => "left" \in met') /\ (~Begun => met' = met)
  BY MeanwhileGives DEF Decided, RowLeaves, TargetGoes, Met
<1>3. Present' = Present
  BY <1>1 DEF Present
<1>4. ListTypes'
  BY <1>1, <1>2, <1>3 DEF ListTypes, ListsTypeOK, ListReader
<1> QED BY <1>1, <1>2, <1>3, <1>4

LEMMA MovingTypes ==
  ASSUME ListTypes, NEW r \in RowId, NEW i \in RowId, Moves(r, i)
  PROVE  /\ ListTypes' /\ UNCHANGED <<list, row, top, reader, answer>>
         /\ met \subseteq met' /\ (Begun => "moved" \in met') /\ (~Begun => met' = met)
<1>1. /\ UNCHANGED <<list, row, top, orphaned, reader, answer>> /\ Present' = Present
      /\ met' \subseteq Met /\ listTurns' \in 0 .. ListTurns /\ r \in Present
      /\ met \subseteq met' /\ (Begun => "moved" \in met') /\ (~Begun => met' = met)
  BY MeanwhileGives DEF Moves, Met, Present
<1>2. PICK n \in Nat : n = Cardinality(Present)
  BY SomeRows DEF Present
<1>3. /\ place \in [RowId -> Nat] /\ \A q \in Present : q \in RowId /\ place[q] \in 1 .. n
      /\ \A q, x \in Present : place[q] = place[x] => q = x
  BY <1>2 DEF ListTypes, ListsTypeOK, Present
<1>4. n \in Nat \ {0} /\ i \in 1 .. n
  <2>1. n # 0
    BY <1>1, <1>3
  <2>2. i \in PlaceOf(n - 1)
    BY <1>2 DEF Moves
  <2>3. n - 1 + 1 = n /\ n \in Nat
    OBVIOUS
  <2>4. CASE list = "hot"
    <3>1. i \in 1 .. n - 1 + 1
      BY <2>2, <2>4 DEF PlaceOf
    <3> QED BY <2>1, <2>3, <3>1
  <2>5. CASE list # "hot"
    <3>1. i = 1
      BY <2>2, <2>5 DEF PlaceOf
    <3> QED BY <2>1, <2>3, <3>1
  <2> QED BY <2>4, <2>5
<1> DEFINE rest == OthersPlaces(r)
<1>5. /\ rest \in [RowId -> Nat]
      /\ \A q \in Present \ {r} : /\ rest[q] \in 1 .. (n - 1)
                                  /\ rest[q] = IF place[q] > place[r] THEN place[q] - 1 ELSE place[q]
  <2>1. rest = [q \in RowId |-> IF q = r THEN 0
                                ELSE IF place[q] > place[r] THEN place[q] - 1 ELSE place[q]]
    BY DEF OthersPlaces
  <2>2. place[r] \in 1 .. n
    BY <1>1, <1>3
  <2>3. rest \in [RowId -> Nat]
    BY <1>3, <2>1, <2>2
  <2>4. ASSUME NEW q \in Present \ {r}
        PROVE  /\ rest[q] \in 1 .. (n - 1)
               /\ rest[q] = IF place[q] > place[r] THEN place[q] - 1 ELSE place[q]
    <3>1. place[q] # place[r] /\ place[q] \in 1 .. n
      BY <1>1, <1>3
    <3>2. rest[q] = IF place[q] > place[r] THEN place[q] - 1 ELSE place[q]
      BY <1>3, <2>1
    <3> QED BY <2>2, <3>1, <3>2
  <2> QED BY <2>3, <2>4
<1>6. \A q, x \in Present \ {r} : rest[q] = rest[x] => q = x
  <2> SUFFICES ASSUME NEW q \in Present \ {r}, NEW x \in Present \ {r}, rest[q] = rest[x]
               PROVE  place[q] = place[x]
    BY <1>3
  <2>1. place[q] # place[r] /\ place[x] # place[r]
        /\ place[q] \in Nat /\ place[x] \in Nat /\ place[r] \in Nat
    BY <1>1, <1>3
  <2>2. /\ rest[q] = IF place[q] > place[r] THEN place[q] - 1 ELSE place[q]
        /\ rest[x] = IF place[x] > place[r] THEN place[x] - 1 ELSE place[x]
    BY <1>5
  <2> HIDE DEF rest
  <2>3. PICK a \in Nat, b \in Nat, c \in Nat :
          a = place[q] /\ b = place[x] /\ c = place[r]
    BY <2>1
  <2>4. /\ a # c /\ b # c
        /\ (IF a > c THEN a - 1 ELSE a) = (IF b > c THEN b - 1 ELSE b)
    BY <2>1, <2>2, <2>3
  <2>5. a = b
    BY <2>4
  <2> QED BY <2>3, <2>5
<1>7. place' = [q \in RowId |-> IF q = r THEN i
                                ELSE IF rest[q] >= i THEN rest[q] + 1 ELSE rest[q]]
  BY DEF Moves, Inserted
<1> HIDE DEF rest
<1>8. place' \in [RowId -> Nat] /\ place'[r] = i
      /\ \A q \in Present \ {r} : place'[q] = IF rest[q] >= i THEN rest[q] + 1 ELSE rest[q]
  BY <1>1, <1>3, <1>4, <1>5, <1>7
<1>9. \A q \in Present : place'[q] \in 1 .. n
  BY <1>4, <1>5, <1>8
<1>10. ASSUME NEW q \in Present, NEW x \in Present, place'[q] = place'[x]
       PROVE  q = x
  <2>1. CASE q = r /\ x # r
    BY <1>4, <1>5, <1>8, <1>10, <2>1
  <2>2. CASE x = r /\ q # r
    BY <1>4, <1>5, <1>8, <1>10, <2>2
  <2>3. CASE q # r /\ x # r
    <3>1. rest[q] = rest[x]
      BY <1>4, <1>5, <1>8, <1>10, <2>3
    <3> QED BY <1>6, <2>3, <3>1
  <2> QED BY <2>1, <2>2, <2>3
<1> QED BY <1>1, <1>2, <1>8, <1>9, <1>10 DEF ListTypes, ListsTypeOK, ListReader

LEMMA PinningTypes ==
  ASSUME ListTypes, NEW r \in {0} \cup RowId, PinsRow(r)
  PROVE  /\ ListTypes' /\ UNCHANGED <<list, row, place, reader, answer>>
         /\ met \subseteq met' /\ (Begun => "moved" \in met') /\ (~Begun => met' = met)
<1>1. UNCHANGED <<list, row, place, orphaned, reader, answer>> /\ top' \in {0} \cup RowId
  BY DEF PinsRow
<1>2. /\ met' \subseteq Met /\ listTurns' \in 0 .. ListTurns
      /\ met \subseteq met' /\ (Begun => "moved" \in met') /\ (~Begun => met' = met)
  BY MeanwhileGives DEF PinsRow, Met
<1>3. Present' = Present
  BY <1>1 DEF Present
<1>4. ListTypes'
  BY <1>1, <1>2, <1>3 DEF ListTypes, ListsTypeOK, ListReader
<1> QED BY <1>1, <1>2, <1>4

\* What a page is cut from, and the page.
Found(f) == ListRows(f, reader.cursor)
Page(f) == IF BeyondWindow(reader.page) THEN {} ELSE PageRows(Found(f), reader.page)

LEMMA ReadingGives ==
  ASSUME ListTypes, ReaderInv, NEW f \in {0} \cup RowId, ReadsRows(f)
  PROVE  /\ ListTypes' /\ UNCHANGED <<list, row, place, top, orphaned, answer>>
         /\ f = 0 \/ (list \in Areas /\ reader.page = 0 /\ f \in Open \ {top})
         /\ Page(f) \subseteq Found(f) /\ Found(f) \subseteq Present
         /\ reader.at = "idle" /\ reader.ended = FALSE /\ reader'.at = "read"
         /\ reader'.page = reader.page /\ reader'.cursor = reader.cursor
         /\ reader'.from = reader.from /\ reader'.focus = f
         /\ reader'.top = (IF list \in Areas THEN top ELSE 0)
         /\ reader'.rows = Page(f) /\ reader'.got = reader.got
         /\ reader'.more = (IF list \in Numbered THEN Cardinality(Page(f)) = RowsPerPage
                            ELSE list = "messages" /\ Cardinality(Found(f)) > RowsPerPage)
         /\ reader'.again = reader.again /\ reader'.missed = reader.missed
         /\ reader'.due = (IF reader.page = 0 THEN Listed ELSE reader.due)
         /\ reader'.ended = FALSE
         /\ met' = met \cup (IF f # 0 THEN {"focus"} ELSE {})
                       \cup (IF BeyondWindow(reader.page) THEN {"window"} ELSE {})
<1>1. /\ reader' = [reader EXCEPT
            !.at = "read", !.focus = f, !.top = IF list \in Areas THEN top ELSE 0,
            !.rows = Page(f),
            !.more = IF list \in Numbered THEN Cardinality(Page(f)) = RowsPerPage
                     ELSE list = "messages" /\ Cardinality(Found(f)) > RowsPerPage,
            !.due = IF reader.page = 0 THEN Listed ELSE reader.due]
      /\ UNCHANGED <<list, row, place, top, orphaned, answer, listTurns>>
      /\ f = 0 \/ (list \in Areas /\ reader.page = 0 /\ f \in Open \ {top})
      /\ reader.at = "idle" /\ ~reader.ended
      /\ met' = met \cup (IF f # 0 THEN {"focus"} ELSE {})
                    \cup (IF BeyondWindow(reader.page) THEN {"window"} ELSE {})
  BY DEF ReadsRows, Page, Found
<1>2. /\ Found(f) \subseteq Present /\ Present \subseteq RowId
      /\ Listed \subseteq Present
  BY RowsOfLists DEF Found, Listed
<1>3. Page(f) \subseteq Found(f)
  BY DEF Page, PageRows, Cut
<1>4. reader \in ListReader /\ reader.ended = FALSE
  BY <1>1 DEF ListTypes, ListReader
<1> DEFINE more == IF list \in Numbered THEN Cardinality(Page(f)) = RowsPerPage
                   ELSE list = "messages" /\ Cardinality(Found(f)) > RowsPerPage
           due == IF reader.page = 0 THEN Listed ELSE reader.due
           above == IF list \in Areas THEN top ELSE 0
           cut == Page(f)
<1>5. more \in BOOLEAN
  OBVIOUS
<1>6. due \in SUBSET RowId
  BY <1>2, <1>4 DEF ListReader
<1>7. above \in {0} \cup RowId
  BY DEF ListTypes, ListsTypeOK
<1>8. cut \in SUBSET RowId
  BY <1>2, <1>3
<1>9. reader' = [reader EXCEPT !.at = "read", !.focus = f, !.top = above, !.rows = cut,
                               !.more = more, !.due = due]
  BY <1>1
<1> HIDE DEF more, due, above, cut
<1>10. /\ reader' \in ListReader
       /\ reader'.at = "read"
       /\ reader'.page = reader.page /\ reader'.cursor = reader.cursor
       /\ reader'.from = reader.from /\ reader'.focus = f
       /\ reader'.top = above /\ reader'.rows = cut /\ reader'.got = reader.got
       /\ reader'.more = more /\ reader'.again = reader.again
       /\ reader'.missed = reader.missed /\ reader'.due = due
       /\ reader'.ended = FALSE
  BY <1>4, <1>5, <1>6, <1>7, <1>8, <1>9 DEF ListReader
<1>11. reader'.missed \subseteq reader'.due
  <2>1. CASE reader.page = 0
    <3>1. reader.missed = {}
      BY <1>1, <1>4, <2>1 DEF ReaderInv, Begun, NoReader, ListReader
    <3> QED BY <1>10, <3>1
  <2>2. CASE reader.page # 0
    BY <1>10, <2>2 DEF ListTypes, ListsTypeOK, due
  <2> QED BY <2>1, <2>2
<1>12. Present' = Present /\ met' \subseteq Met
  BY <1>1 DEF Present, ListTypes, ListsTypeOK, Met
<1>13. ListTypes'
  <2>1. reader'.at \in {"idle", "read"} /\ reader'.got \subseteq RowId
        /\ reader'.again \subseteq reader'.got
    BY <1>10 DEF ListTypes, ListsTypeOK
  <2> QED BY <1>1, <1>10, <1>11, <1>12, <2>1 DEF ListTypes, ListsTypeOK
<1> QED BY <1>1, <1>2, <1>3, <1>4, <1>10, <1>13 DEF more, due, above, cut

\* What an answer shows, the pinned row too, and where the reader stands then.
Items == ShownFocus \cup ShownRows
Shown == Items \cup ({ShownTop} \ {0})
LastItem ==
  IF Items = {} \/ list \notin {"messages", "polling"} THEN reader.cursor
  ELSE IF list = "messages" THEN Smallest(Items) ELSE Largest(Items)
FromItem == IF list = "polling" /\ reader.from = 0 THEN LastItem ELSE reader.from
Polled == {r \in Messages : FromItem < r /\ r <= LastItem}
StillDue == reader.due \cap Listed

LEMMA ItemsShown ==
  ASSUME ListTypes, ReaderInv
  PROVE  /\ ShownRows \subseteq reader.rows /\ ShownFocus = {reader.focus} \cap Open
         /\ (list # "latest" => ShownRows = reader.rows)
         /\ Items \subseteq Present /\ Shown \subseteq Present /\ Present \subseteq RowId
         /\ ShownTop \in {0} \cup Open
         /\ Items # {} => /\ Smallest(Items) \in Items /\ Largest(Items) \in Items
                          /\ \A x \in Items : Smallest(Items) <= x /\ x <= Largest(Items)
<1>1. ShownRows \subseteq reader.rows
  BY DEF ShownRows, Alive, Cut
<1>2. ShownFocus = {reader.focus} \cap Open
  BY DEF ShownFocus
<1>3. Open \subseteq Present /\ Present \subseteq RowId
  BY RowsOfLists
<1>4. ShownTop \in {0} \cup Open
  BY DEF ShownTop
<1>5. Items \subseteq Present
  BY <1>1, <1>2, <1>3 DEF Items, ReaderInv
<1>6. Shown \subseteq Present
  BY <1>3, <1>4, <1>5 DEF Shown
<1>7. ASSUME Items # {}
      PROVE  /\ Smallest(Items) \in Items /\ Largest(Items) \in Items
             /\ \A x \in Items : Smallest(Items) <= x /\ x <= Largest(Items)
  <2>1. Items \subseteq 0 .. LastRow
    BY <1>3, <1>5, BoundsOfLists DEF RowId
  <2>2. \E m \in Items : \A x \in Items : m <= x
    BY <1>7, <2>1, BoundsOfLists, SmallestIdIsThere
  <2>3. \E m \in Items : \A x \in Items : x <= m
    <3>1. IsFiniteSet(Items) /\ Items \in SUBSET Nat
      <4>1. IsFiniteSet(Items)
        BY <1>3, <1>5, SomeRows
      <4>2. \A x \in Items : x \in Nat
        BY <1>3, <1>5, BoundsOfLists
      <4> QED BY <4>1, <4>2
    <3> HIDE DEF Items
    <3>2. LargestId(Items) \in Items /\ \A x \in Items : x <= LargestId(Items)
      BY <1>7, <3>1, LargestIsThere
    <3> QED BY <3>2
  <2>4. \A x \in Items : x \in Int
    BY <2>1
  <2>5. \E m \in Items : \A x \in Items : x >= m
    BY <2>2, <2>4
  <2> HIDE DEF Items
  <2>6. Smallest(Items) \in Items /\ \A x \in Items : x >= Smallest(Items)
    BY <2>5 DEF Smallest
  <2>7. Largest(Items) \in Items /\ \A x \in Items : x <= Largest(Items)
    BY <2>3 DEF Largest
  <2> QED BY <2>4, <2>6, <2>7
<1>8. list # "latest" => ShownRows = reader.rows
  BY DEF ShownRows
<1> QED BY <1>1, <1>2, <1>3, <1>4, <1>5, <1>6, <1>7, <1>8

LEMMA AnswerGives ==
  ASSUME ListTypes, ReaderInv, Answers
  PROVE  /\ ListTypes' /\ UNCHANGED <<list, row, place, top, orphaned, met>>
         /\ LastItem \in {0} \cup RowId /\ FromItem \in {0} \cup RowId
         /\ Present' = Present
         /\ answer' = [rows |-> ShownRows, focus |-> ShownFocus, top |-> ShownTop,
                       own |-> OwnHeld, ahead |-> OwnPlace(Items)]
         /\ reader.at = "read" /\ reader'.at = "idle"
         /\ reader'.rows = {} /\ reader'.focus = 0 /\ reader'.top = 0
         /\ reader'.page = reader.page + 1
         /\ reader'.cursor = LastItem /\ reader'.from = FromItem
         /\ reader'.got = reader.got \cup Shown
         /\ reader'.again = reader.again \cup (reader.got \cap Shown)
         /\ reader'.due = (IF list = "polling" THEN Polled ELSE StillDue)
         /\ reader'.missed = (IF list = "polling" THEN Polled \ (reader.got \cup Shown)
                              ELSE IF reader.more THEN {} ELSE StillDue \ (reader.got \cup Shown))
         /\ reader'.ended = (~reader.more /\ list # "polling")
<1>1. /\ reader.at = "read"
      /\ answer' = [rows |-> ShownRows, focus |-> ShownFocus, top |-> ShownTop,
                    own |-> OwnHeld, ahead |-> OwnPlace(Items)]
      /\ reader' = [reader EXCEPT
           !.at = "idle", !.rows = {}, !.focus = 0, !.top = 0, !.page = reader.page + 1,
           !.cursor = LastItem, !.from = FromItem,
           !.got = reader.got \cup Shown, !.again = reader.again \cup (reader.got \cap Shown),
           !.due = IF list = "polling" THEN Polled ELSE StillDue,
           !.missed = IF list = "polling" THEN Polled \ (reader.got \cup Shown)
                      ELSE IF reader.more THEN {} ELSE StillDue \ (reader.got \cup Shown),
           !.ended = ~reader.more /\ list # "polling"]
      /\ UNCHANGED <<list, row, place, top, orphaned, met, listTurns>>
  BY DEF Answers, Items, Shown, LastItem, FromItem, Polled, StillDue
<1>2. /\ reader \in ListReader /\ Items \subseteq RowId /\ Shown \subseteq RowId
      /\ Polled \subseteq RowId /\ StillDue \subseteq reader.due
  BY ItemsShown DEF ListTypes, Polled, StillDue, Messages, Open, Held
<1>3. LastItem \in {0} \cup RowId
  BY <1>2, ItemsShown DEF LastItem, ListReader
<1>4. FromItem \in {0} \cup RowId
  BY <1>2, <1>3 DEF FromItem, ListReader
<1> DEFINE due == IF list = "polling" THEN Polled ELSE StillDue
           missed == IF list = "polling" THEN Polled \ (reader.got \cup Shown)
                     ELSE IF reader.more THEN {} ELSE StillDue \ (reader.got \cup Shown)
           again == reader.again \cup (reader.got \cap Shown)
           got == reader.got \cup Shown
           over == ~reader.more /\ list # "polling"
<1>5. /\ due \subseteq RowId /\ missed \subseteq due /\ got \subseteq RowId
      /\ again \subseteq got /\ over \in BOOLEAN /\ reader.page + 1 \in Nat
  BY <1>2 DEF ListReader, ListTypes, ListsTypeOK
<1>6. reader' = [reader EXCEPT
           !.at = "idle", !.rows = {}, !.focus = 0, !.top = 0, !.page = reader.page + 1,
           !.cursor = LastItem, !.from = FromItem, !.got = got, !.again = again,
           !.due = due, !.missed = missed, !.ended = over]
  BY <1>1
<1>7. Present' = Present
  BY <1>1 DEF Present
<1> HIDE DEF due, missed, again, got, over, LastItem, FromItem
<1>8. /\ reader' \in ListReader
      /\ reader'.at = "idle" /\ reader'.rows = {} /\ reader'.focus = 0 /\ reader'.top = 0
      /\ reader'.page = reader.page + 1 /\ reader'.cursor = LastItem /\ reader'.from = FromItem
      /\ reader'.got = got /\ reader'.again = again /\ reader'.due = due
      /\ reader'.missed = missed /\ reader'.ended = over
  BY <1>2, <1>3, <1>4, <1>5, <1>6 DEF ListReader
<1>9. ListTypes'
  BY <1>1, <1>5, <1>7, <1>8 DEF ListTypes, ListsTypeOK
<1> QED BY <1>1, <1>3, <1>4, <1>7, <1>8, <1>9 DEF due, missed, again, got, over

-----------------------------------------------------------------------------
(* The lists: what changes while nobody reads, and what changes then.      *)

LEMMA ListsStart == ListsInit => ListInv
<1> SUFFICES ASSUME ListsInit PROVE ListInv
  OBVIOUS
<1>1. /\ list \in List /\ row = [r \in RowId |-> "none"] /\ place = [r \in RowId |-> 0]
      /\ top = 0 /\ orphaned = {} /\ reader = NoReader /\ answer = NoAnswer
      /\ met = {} /\ listTurns = 0 /\ Present = {}
  BY DEF ListsInit, Present
<1>2. /\ reader.at = "idle" /\ reader.page = 0 /\ reader.cursor = 0 /\ reader.from = 0
      /\ reader.focus = 0 /\ reader.top = 0 /\ reader.rows = {} /\ reader.more = FALSE
      /\ reader.got = {} /\ reader.again = {} /\ reader.missed = {} /\ reader.due = {}
      /\ reader.ended = FALSE /\ reader \in ListReader
  BY <1>1 DEF NoReader, ListReader
<1>3. /\ answer.rows = {} /\ answer.focus = {} /\ answer.top = 0 /\ answer.own = {}
      /\ answer.ahead = 0
  BY <1>1 DEF NoAnswer
<1>4. ListTypes
  BY <1>1, <1>2, BoundsOfLists DEF ListTypes, ListsTypeOK
<1>5. ReaderInv
  BY <1>1, <1>2 DEF ReaderInv
<1>6. PageIsSound /\ OwnComeFirst
  BY <1>3 DEF PageIsSound, OwnComeFirst
<1>7. OnceInv /\ MessagesInv /\ PollingInv
  <2>1. OnceInv
    BY <1>1, <1>2 DEF OnceInv
  <2>2. MessagesInv
    BY <1>1, <1>2 DEF MessagesInv
  <2>3. PollingInv
    BY <1>1, <1>2, BoundsOfLists DEF PollingInv, Messages, Open, Held
  <2> QED BY <2>1, <2>2, <2>3
<1>8. AllInv
  BY <1>1, <1>2 DEF AllInv
<1>9. LatestInv
  BY <1>1, <1>2 DEF LatestInv, LatestFills
<1> QED BY <1>4, <1>5, <1>6, <1>7, <1>8, <1>9 DEF ListInv

\* Before the reader begins there is nothing to lose.
LEMMA NobodyReads ==
  ASSUME reader' = NoReader, met' = {}
  PROVE  ReaderInv' /\ OnceInv' /\ AllInv' /\ MessagesInv' /\ PollingInv' /\ LatestInv'
<1>1. /\ reader'.at = "idle" /\ reader'.page = 0 /\ reader'.cursor = 0 /\ reader'.from = 0
      /\ reader'.focus = 0 /\ reader'.top = 0 /\ reader'.rows = {} /\ reader'.more = FALSE
      /\ reader'.got = {} /\ reader'.again = {} /\ reader'.missed = {} /\ reader'.due = {}
      /\ reader'.ended = FALSE /\ met' = {}
  BY DEF NoReader
<1>2. ReaderInv'
  BY <1>1 DEF ReaderInv
<1>3. OnceInv' /\ MessagesInv' /\ PollingInv'
  <2>1. OnceInv'
    BY <1>1 DEF OnceInv
  <2>2. MessagesInv'
    BY <1>1 DEF MessagesInv
  <2>3. PollingInv'
    BY <1>1, BoundsOfLists DEF PollingInv, Messages, Open, Held
  <2> QED BY <2>1, <2>2, <2>3
<1>4. AllInv'
  BY <1>1 DEF AllInv
<1>5. LatestInv'
  BY <1>1 DEF LatestInv, LatestFills
<1> QED BY <1>2, <1>3, <1>4, <1>5

LEMMA AnswersKept ==
  ASSUME PageIsSound, OwnComeFirst, UNCHANGED <<list, answer>>
  PROVE  PageIsSound' /\ OwnComeFirst'
BY DEF PageIsSound, OwnComeFirst

\* Rows that change their place, or a row that is pinned.
LEMMA MovedKept ==
  ASSUME ListInv, Begun, "moved" \in met', UNCHANGED <<list, row, reader>>,
         met \subseteq met', list \in Areas \cup {"sessions"}
  PROVE  ReaderInv' /\ OnceInv' /\ AllInv' /\ MessagesInv' /\ PollingInv' /\ LatestInv'
<1>1. Present' = Present
  BY DEF Present
<1>2. Begun'
  BY DEF Begun
<1>3. ReaderInv'
  BY <1>1, <1>2 DEF ListInv, ReaderInv
<1>4. OnceInv' /\ AllInv' /\ MessagesInv' /\ PollingInv' /\ LatestInv'
  BY DEF OnceInv, AllInv, MessagesInv, PollingInv, LatestInv, Areas
<1> QED BY <1>3, <1>4

LEMMA MoveStep ==
  ASSUME ListInv, \/ \E r, i \in RowId : Moves(r, i)
                  \/ \E r \in {0} \cup RowId : PinsRow(r)
  PROVE  ListInv'
<1>1. /\ ListTypes' /\ UNCHANGED <<list, row, reader, answer>>
      /\ met \subseteq met' /\ (Begun => "moved" \in met') /\ (~Begun => met' = met)
      /\ list \in Areas \cup {"sessions"}
  BY MovingTypes, PinningTypes DEF ListInv, Moves, PinsRow, Areas
<1>2. PageIsSound' /\ OwnComeFirst'
  BY <1>1, AnswersKept DEF ListInv
<1>3. CASE Begun
  BY <1>1, <1>2, <1>3, MovedKept DEF ListInv
<1>4. CASE ~Begun
  <2>1. reader' = NoReader /\ met' = {}
    BY <1>1, <1>4 DEF ListInv, ReaderInv
  <2> QED BY <1>1, <1>2, <2>1, NobodyReads DEF ListInv
<1> QED BY <1>3, <1>4

\* The rows of a list that is cut by number.
LEMMA StandingIs ==
  ASSUME ListTypes, list \in Numbered
  PROVE  /\ Standing = IF list \in Areas THEN Open \ {top}
                       ELSE IF list = "queue" THEN Held ELSE Open
         /\ Standing \subseteq Present
         /\ \A c : ListRows(0, c) = Standing
         /\ \A r \in Standing : PlaceOfRow(r) \in Nat
<1>1. 0 \notin Open
  BY BoundsOfLists DEF Open
<1>2. \A c : ListRows(0, c) = IF list \in Areas THEN Open \ {top}
                              ELSE IF list = "queue" THEN Held ELSE Open
  BY <1>1 DEF ListRows, AreaRows, Numbered, Areas
<1>3. Standing \subseteq Present
  BY RowsOfLists DEF Standing
<1>4. \A r \in Standing : PlaceOfRow(r) \in Nat
  BY <1>3, PriorRows DEF PlaceOfRow
<1> QED BY <1>2, <1>3, <1>4 DEF Standing

\* What comes is put in front of rows or behind them, and they stay in order.
LEMMA ArrivalKeepsOrder ==
  ASSUME ListTypes, list \in Numbered, NEW r \in RowId, NEW s \in {"held", "open"},
         NEW i \in RowId, Arrives(r, s, i), ListTypes'
  PROVE  /\ Standing' \cap Present = Standing
         /\ \A x \in Standing : PlaceOfRow(x) <= PlaceOfRow(x)'
<1>1. /\ r \notin Present /\ Present' = Present \cup {r}
      /\ \A q \in Present :
           place'[q] = IF place[q] >= i THEN place[q] + 1 ELSE place[q]
      /\ \A q \in RowId : q # r => row'[q] = row[q]
      /\ UNCHANGED <<list, top>> /\ i \in Nat
  <2>1. UNCHANGED <<list, top>> /\ i \in Nat
    BY BoundsOfLists DEF Arrives
  <2> QED BY <2>1, ArrivalGives
<1>2. Open' \cap Present = Open /\ Held' \cap Present = Held
  BY <1>1 DEF Open, Held, Present
<1>3. Standing = IF list \in Areas THEN Open \ {top}
                 ELSE IF list = "queue" THEN Held ELSE Open
  BY StandingIs
<1>4. Standing' = IF list \in Areas THEN Open' \ {top}
                  ELSE IF list = "queue" THEN Held' ELSE Open'
  <2>1. 0 \notin Open'
    BY BoundsOfLists DEF Open
  <2> QED BY <1>1, <2>1 DEF Standing, ListRows, AreaRows, Numbered, Areas
<1>5. Standing' \cap Present = Standing
  BY <1>2, <1>3, <1>4
<1>6. ASSUME NEW x \in Standing
      PROVE  PlaceOfRow(x) <= PlaceOfRow(x)'
  <2>1. x \in Present /\ Standing \subseteq Present /\ Standing' \subseteq RowId
    BY <1>4, StandingIs DEF Open, Held
  <2>2. ASSUME NEW q \in Present, PlaceInList(q) < PlaceInList(x)
        PROVE  PlaceInList(q)' < PlaceInList(x)'
    <3>1. place[q] \in Nat /\ place[x] \in Nat /\ LastRow \in Nat /\ q \in Nat /\ x \in Nat
          /\ place[x] # 0
      <4>1. q \in RowId /\ x \in RowId /\ place \in [RowId -> Nat]
        BY <2>1 DEF ListTypes, ListsTypeOK, Present
      <4>2. place[x] \in 1 .. Cardinality(Present)
        BY <2>1 DEF ListTypes, ListsTypeOK
      <4> QED BY <4>1, <4>2, BoundsOfLists
    <3>2. /\ place'[q] = IF place[q] >= i THEN place[q] + 1 ELSE place[q]
          /\ place'[x] = IF place[x] >= i THEN place[x] + 1 ELSE place[x]
      BY <1>1, <2>1
    <3>3. place[q] < place[x] => place'[q] < place'[x]
      <4> PICK a \in Nat, b \in Nat : a = place[q] /\ b = place[x]
        BY <3>1
      <4> QED BY <1>1, <3>2
    <3>4. place'[x] # 0 /\ place'[x] \in Nat
      BY <1>1, <3>1, <3>2
    <3>5. CASE list \in {"hot", "following", "fans"}
      BY <1>1, <2>2, <3>3, <3>5 DEF PlaceInList
    <3>6. CASE list = "sessions"
      <4>1. x # top
        BY <2>2, <3>1, <3>6 DEF PlaceInList
      <4>2. CASE q = top
        BY <1>1, <3>4, <3>6, <4>1, <4>2 DEF PlaceInList
      <4>3. CASE q # top
        BY <1>1, <2>2, <3>3, <3>6, <4>1, <4>3 DEF PlaceInList
      <4> QED BY <4>2, <4>3
    <3>7. CASE list \in {"time", "replies", "queue"}
      BY <1>1, <2>2, <3>7 DEF PlaceInList
    <3> QED BY <3>5, <3>6, <3>7 DEF Numbered, Areas
  <2>3. Prior(x, Standing) \in SUBSET (Prior(x, Standing)')
    BY <1>5, <2>1, <2>2 DEF Prior
  <2>4. IsFiniteSet(Prior(x, Standing)')
    BY <2>1, SomeRows DEF Prior
  <2>5. Cardinality(Prior(x, Standing)) <= Cardinality(Prior(x, Standing)')
    BY <2>3, <2>4, FS_Subset
  <2> QED BY <2>5 DEF PlaceOfRow
<1> QED BY <1>5, <1>6

LEMMA ArrivalKeepsAll ==
  ASSUME ListInv, Begun, NEW r \in RowId, NEW s \in {"held", "open"}, NEW i \in RowId,
         Arrives(r, s, i), ListTypes'
  PROVE  AllInv'
<1>1. /\ UNCHANGED <<list, top, reader>> /\ met \subseteq met' /\ r \notin Present
      /\ \A q \in RowId : q # r => row'[q] = row[q]
  <2>1. ListTypes
    BY DEF ListInv
  <2>2. UNCHANGED <<list, top, reader, answer>> /\ Meanwhile({"came"})
    BY DEF Arrives
  <2>3. met \subseteq met' /\ (Begun => "came" \in met') /\ (~Begun => met' = met)
    BY <2>1, <2>2, MeanwhileGives DEF Met
  <2> QED BY <2>1, <2>2, <2>3, ArrivalGives
<1> SUFFICES ASSUME list \in Numbered, met' \cap {"left", "moved"} = {},
                    ~(list = "fans" /\ "window" \in met')
             PROVE  AllInv'
  BY <1>1 DEF AllInv
<1>2. AllInv!2
  BY <1>1 DEF ListInv, AllInv
<1>3. /\ Standing' \cap Present = Standing
      /\ \A x \in Standing : PlaceOfRow(x) <= PlaceOfRow(x)'
      /\ \A x \in Standing : PlaceOfRow(x) \in Nat
  BY ArrivalKeepsOrder, StandingIs DEF ListInv
<1>4. \A x \in Standing' : PlaceOfRow(x)' \in Nat
  <2>1. Standing' \subseteq RowId
    BY <1>1 DEF Standing, ListRows, AreaRows, Open, Held, Numbered, Areas
  <2>2. ASSUME NEW x \in Standing'
        PROVE  PlaceOfRow(x)' \in Nat
    <3>1. IsFiniteSet(Prior(x, Standing)')
      BY <2>1, SomeRows DEF Prior
    <3> QED BY <3>1, FS_CardinalityType DEF PlaceOfRow
  <2> QED BY <2>2
<1>5. reader.due \subseteq Present /\ reader.page * RowsPerPage \in Nat /\ RowsPerPage \in Nat
  BY BoundsOfLists, ReaderFields DEF ListInv, ReaderInv
<1>6. reader.due \cap Standing' = reader.due \cap Standing
  BY <1>3, <1>5
<1>7. reader.due \cap Open' = reader.due \cap Open
  BY <1>1, <1>5 DEF Open, Present
<1>8. \A x \in reader.due \cap Standing' :
        PlaceOfRow(x)' < reader.page * RowsPerPage => x \in reader.got
  BY <1>2, <1>3, <1>4, <1>5, <1>6
<1>9. ASSUME reader.at = "read", NEW x \in reader.due \cap Standing',
             PlaceOfRow(x)' < reader.page * RowsPerPage + RowsPerPage \/ ~reader.more
      PROVE  x \in reader.got \cup reader.rows \cup {reader.focus}
  <2>1. x \in reader.due \cap Standing /\ PlaceOfRow(x) <= PlaceOfRow(x)'
        /\ PlaceOfRow(x) \in Nat /\ PlaceOfRow(x)' \in Nat
    BY <1>3, <1>4, <1>6, <1>9
  <2>2. PlaceOfRow(x) < reader.page * RowsPerPage + RowsPerPage \/ ~reader.more
    BY <1>5, <1>9, <2>1
  <2> QED BY <1>2, <1>9, <2>1, <2>2
<1>10. list \in Areas => /\ reader.at = "read" => reader.top = top
                         /\ reader.page > 0 => (top \in reader.due \cap Open' => top \in reader.got)
  BY <1>2, <1>7
<1> QED BY <1>1, <1>2, <1>8, <1>9, <1>10 DEF AllInv

LEMMA ArrivalStep ==
  ASSUME ListInv, NEW r \in RowId, NEW s \in {"held", "open"}, NEW i \in RowId,
         Arrives(r, s, i)
  PROVE  ListInv'
<1>1. ListTypes'
  BY ArrivalTypes DEF ListInv
<1>2. /\ UNCHANGED <<list, top, reader, answer>> /\ met \subseteq met' /\ r \notin Present
      /\ Present' = Present \cup {r} /\ \A q \in Present : q < r
      /\ \A q \in RowId : q # r => row'[q] = row[q]
      /\ (Begun => "came" \in met') /\ (~Begun => met' = met)
  <2>1. ListTypes
    BY DEF ListInv
  <2>2. UNCHANGED <<list, top, reader, answer>> /\ Meanwhile({"came"})
    BY DEF Arrives
  <2>3. met \subseteq met' /\ (Begun => "came" \in met') /\ (~Begun => met' = met)
    BY <2>1, <2>2, MeanwhileGives DEF Met
  <2> QED BY <2>1, <2>2, <2>3, ArrivalGives
<1>3. PageIsSound' /\ OwnComeFirst'
  BY <1>2, AnswersKept DEF ListInv
<1>4. CASE ~Begun
  <2>1. reader' = NoReader /\ met' = {}
    BY <1>2, <1>4 DEF ListInv, ReaderInv
  <2> QED BY <1>1, <1>3, <2>1, NobodyReads DEF ListInv
<1>5. CASE Begun
  <2>1. ReaderInv /\ Begun' /\ Present \subseteq RowId
    BY <1>2, <1>5 DEF ListInv, Begun, Present
  <2>2. \A q \in Present : row'[q] = row[q] /\ q # r
    BY <1>2, <2>1
  <2>3. ReaderInv'
    BY <1>2, <2>1, <2>2 DEF ReaderInv
  <2>4. OnceInv'
    BY <1>2, <1>5 DEF OnceInv
  <2>5. AllInv'
    BY <1>1, <1>5, ArrivalKeepsAll
  <2>6. /\ Messages' \subseteq Messages \cup {r} /\ Messages' \subseteq RowId
        /\ Messages' \cap Present = Messages \cap Present
        /\ Held' \cap Present = Held \cap Present
    BY <1>2, <2>1, <2>2 DEF Messages, Open, Held
  <2>7. reader.due \subseteq Present /\ reader.rows \subseteq Present /\ reader.got \subseteq Present
    BY <2>1 DEF ReaderInv
  <2>8. MessagesInv'
    <3>1. /\ reader.due \cap Messages' = reader.due \cap Messages
          /\ reader.due \cap (Held' \ OwnRows) = reader.due \cap (Held \ OwnRows)
      BY <2>6, <2>7
    <3> SUFFICES ASSUME list = "messages" PROVE MessagesInv'
      BY <1>2 DEF MessagesInv
    <3>2. MessagesInv!2
      BY DEF ListInv, MessagesInv
    <3> QED BY <1>2, <3>1, <3>2 DEF MessagesInv
  <2>9. PollingInv'
    <3> SUFFICES ASSUME list = "polling" PROVE PollingInv'
      BY <1>2 DEF PollingInv
    <3>1. PollingInv!2
      BY DEF ListInv, PollingInv
    <3>2. /\ reader.cursor \in {0} \cup RowId /\ reader.from \in {0} \cup RowId
          /\ \A q \in RowId : q \in Nat /\ q # 0
      BY ReaderFields DEF ListInv
    <3>3. reader.cursor < r
      BY <1>2, <2>7, <3>1, <3>2
    <3>4. ASSUME NEW q \in Messages', reader.from < q, q <= reader.cursor
          PROVE  q \in Messages
      <4>1. q # r
        BY <3>2, <3>3, <3>4
      <4> QED BY <2>6, <4>1
    <3>5. ASSUME NEW q \in Messages', NEW x \in reader.rows, q <= x
          PROVE  q \in Messages
      <4>1. x < r /\ x \in Nat /\ r \in Nat
        BY <1>2, <2>1, <2>7, <3>2
      <4>2. q # r
        BY <3>5, <4>1
      <4> QED BY <2>6, <4>2
    <3> QED BY <1>2, <3>1, <3>4, <3>5 DEF PollingInv
  <2>10. LatestInv'
    BY <1>2, <1>5 DEF ListInv, LatestInv, LatestFills
  <2> QED BY <1>1, <1>3, <2>3, <2>4, <2>5, <2>8, <2>9, <2>10 DEF ListInv
<1> QED BY <1>4, <1>5

\* What is decided upon or goes lets the rows behind it move up.
LEMMA LeavingKeepsOnce ==
  ASSUME ListInv, Begun, NEW r \in RowId,
         Decided(r, "open") \/ Decided(r, "gone") \/ RowLeaves(r) \/ TargetGoes(r)
  PROVE  OnceInv'
<1>1. /\ UNCHANGED <<list, place, top, reader>> /\ met \subseteq met' /\ Held' \subseteq Held
  BY LeavingTypes DEF ListInv
<1> SUFFICES ASSUME list \in Numbered, met' \cap {"came", "moved"} = {},
                    ~(list \in Areas /\ "focus" \in met')
             PROVE  OnceInv'
  BY <1>1 DEF OnceInv
<1>2. OnceInv!2
  BY <1>1 DEF ListInv, OnceInv
<1>3. Open' \subseteq Open
  <2>1. ~Decided(r, "open")
    <3>1. Decided(r, "open") => "came" \in met'
      BY DEF Decided, Meanwhile
    <3> QED BY <3>1
  <2> QED BY <2>1 DEF Decided, RowLeaves, TargetGoes, Open, ListInv, ListTypes, ListsTypeOK
<1>4. Standing' \subseteq Standing
  BY <1>1, <1>3 DEF Standing, ListRows, AreaRows, Numbered, Areas
<1>5. \A x : PlaceInList(x)' = PlaceInList(x)
  BY <1>1 DEF PlaceInList
<1>6. ASSUME NEW x \in Standing'
      PROVE  PlaceOfRow(x)' <= PlaceOfRow(x) /\ PlaceOfRow(x)' \in Nat /\ PlaceOfRow(x) \in Nat
  <2>1. Standing \subseteq RowId
    BY StandingIs, RowsOfLists DEF ListInv
  <2>2. Prior(x, Standing)' \in SUBSET Prior(x, Standing)
    BY <1>4, <1>5 DEF Prior
  <2>3. IsFiniteSet(Prior(x, Standing)) /\ IsFiniteSet(Prior(x, Standing)')
    <3>1. Prior(x, Standing) \subseteq RowId
      BY <2>1 DEF Prior
    <3> QED BY <2>2, <3>1, SomeRows
  <2> QED BY <2>2, <2>3, FS_Subset, FS_CardinalityType DEF PlaceOfRow
<1>7. reader.page * RowsPerPage \in Nat /\ RowsPerPage \in Nat
  BY BoundsOfLists, ReaderFields DEF ListInv
<1>8. \A x \in reader.got \cap Standing' : PlaceOfRow(x)' < reader.page * RowsPerPage
  BY <1>2, <1>4, <1>6, <1>7
<1>9. \A x \in reader.rows \cap Standing' :
        PlaceOfRow(x)' < reader.page * RowsPerPage + RowsPerPage
  BY <1>2, <1>4, <1>6, <1>7
<1> QED BY <1>1, <1>2, <1>8, <1>9 DEF OnceInv

LEMMA LeavingStep ==
  ASSUME ListInv, NEW r \in RowId,
         Decided(r, "open") \/ Decided(r, "gone") \/ RowLeaves(r) \/ TargetGoes(r)
  PROVE  ListInv'
<1>1. /\ ListTypes' /\ Present' = Present
      /\ UNCHANGED <<list, place, top, reader, answer>>
      /\ met \subseteq met' /\ (Begun => "left" \in met') /\ (~Begun => met' = met)
      /\ Open' \subseteq Open \cup {r} /\ Held' \subseteq Held
      /\ \A q \in RowId : row[q] \in {"open", "gone"} => row'[q] \in {"open", "gone"}
  BY LeavingTypes DEF ListInv
<1>2. PageIsSound' /\ OwnComeFirst'
  BY <1>1, AnswersKept DEF ListInv
<1>3. CASE ~Begun
  <2>1. reader' = NoReader /\ met' = {}
    BY <1>1, <1>3 DEF ListInv, ReaderInv
  <2> QED BY <1>1, <1>2, <2>1, NobodyReads DEF ListInv
<1>4. CASE Begun
  <2>1. ReaderInv /\ Begun' /\ Present \subseteq RowId
    BY <1>1, <1>4 DEF ListInv, Begun, Present
  <2>2. ReaderInv'
    BY <1>1, <2>1 DEF ReaderInv
  <2>3. OnceInv'
    BY <1>4, LeavingKeepsOnce
  <2>4. AllInv'
    BY <1>1, <1>4 DEF AllInv
  <2>5. /\ Messages' \subseteq Messages \cup {r} /\ Messages' \subseteq RowId
        /\ r \in Messages' \ Messages => /\ r \in Held \ OwnRows /\ Decided(r, "open")
    <3>1. Open' \subseteq RowId /\ Held' \subseteq RowId
      BY DEF Open, Held
    <3>2. Messages' \subseteq Messages \cup {r}
      BY <1>1 DEF Messages
    <3>3. ASSUME r \in Messages' \ Messages
          PROVE  r \in Held \ OwnRows /\ Decided(r, "open")
      <4>1. r \in Open' /\ r \notin Open
        BY <1>1, <3>3 DEF Messages
      <4>2. row'[r] = "open" /\ row[r] # "open" /\ row \in [RowId -> {"none", "held", "open", "gone"}]
        BY <4>1 DEF Open, ListInv, ListTypes, ListsTypeOK
      <4>3. Decided(r, "open")
        BY <4>2 DEF Decided, RowLeaves, TargetGoes
      <4>4. r \in Held
        BY <4>3 DEF Decided, Held
      <4> QED BY <3>3, <4>3, <4>4 DEF Messages
    <3> QED BY <3>1, <3>2, <3>3 DEF Messages
  <2>6. MessagesInv'
    <3> SUFFICES ASSUME list = "messages" PROVE MessagesInv'
      BY <1>1 DEF MessagesInv
    <3>1. MessagesInv!2
      BY DEF ListInv, MessagesInv
    <3>2. /\ reader.due \cap Messages' \subseteq reader.due \cap Messages
          /\ reader.due \cap (Held' \ OwnRows) = {}
      BY <1>1, <2>5, <3>1
    <3> QED BY <1>1, <3>1, <3>2 DEF MessagesInv
  <2>7. PollingInv'
    <3> SUFFICES ASSUME list = "polling" PROVE PollingInv'
      BY <1>1 DEF PollingInv
    <3>1. PollingInv!2
      BY DEF ListInv, PollingInv
    <3>2. /\ reader.cursor \in {0} \cup RowId /\ reader.from \in {0} \cup RowId
          /\ reader.rows \subseteq RowId /\ \A q \in RowId : q \in Nat /\ q # 0
      BY ReaderFields DEF ListInv
    <3>3. ASSUME "late" \notin met', Decided(r, "open")
          PROVE  ~(r < reader.cursor) /\ \A q \in reader.rows : ~(r < q)
      BY <1>4, <3>3 DEF Decided, Meanwhile
    <3>4. ASSUME "late" \notin met', NEW q \in Messages', reader.from < q, q <= reader.cursor
          PROVE  q \in reader.got
      <4>1. CASE q \in Messages
        BY <1>1, <3>1, <3>4, <4>1
      <4>2. CASE q \notin Messages
        <5>1. q = r /\ Decided(r, "open")
          BY <2>5, <4>2
        <5>2. q = reader.cursor /\ reader.cursor # 0
          BY <3>2, <3>3, <3>4, <5>1
        <5> QED BY <3>1, <5>2
      <4> QED BY <4>1, <4>2
    <3>5. ASSUME "late" \notin met', reader.cursor # 0, NEW q \in Messages', NEW x \in reader.rows,
                 q > reader.cursor, q <= x
          PROVE  q \in reader.rows
      <4>1. CASE q \in Messages
        BY <1>1, <3>1, <3>5, <4>1
      <4>2. CASE q \notin Messages
        <5>1. q = r /\ Decided(r, "open")
          BY <2>5, <4>2
        <5>2. q = x
          BY <3>2, <3>3, <3>5, <5>1
        <5> QED BY <5>2
      <4> QED BY <4>1, <4>2
    <3> QED BY <1>1, <3>1, <3>4, <3>5 DEF PollingInv
  <2>8. LatestInv'
    BY <1>1, <1>4 DEF ListInv, LatestInv, LatestFills
  <2> QED BY <1>1, <1>2, <2>2, <2>3, <2>4, <2>6, <2>7, <2>8 DEF ListInv
<1> QED BY <1>3, <1>4

-----------------------------------------------------------------------------
(* The lists: a page is read.                                              *)

LEMMA SameStanding ==
  ASSUME ListTypes, list \in Numbered, UNCHANGED <<list, row, place, top>>
  PROVE  Standing' = Standing /\ \A r : PlaceOfRow(r)' = PlaceOfRow(r)
<1>1. Open' = Open /\ Held' = Held
  BY DEF Open, Held
<1>2. Standing' = Standing
  BY <1>1 DEF Standing, ListRows, AreaRows, Numbered, Areas
<1>3. \A x : PlaceInList(x)' = PlaceInList(x)
  BY DEF PlaceInList, Numbered, Areas
<1> QED BY <1>2, <1>3 DEF PlaceOfRow, Prior

LEMMA ReadsKeepReader ==
  ASSUME ListInv, NEW f \in {0} \cup RowId, ReadsRows(f)
  PROVE  ReaderInv'
<1>1. ListTypes /\ ReaderInv
  BY DEF ListInv
<1>2. /\ UNCHANGED <<list, row, place, top, orphaned, answer>>
      /\ f = 0 \/ (list \in Areas /\ reader.page = 0 /\ f \in Open \ {top})
      /\ Page(f) \subseteq Found(f) /\ Found(f) \subseteq Present
      /\ reader'.at = "read" /\ reader'.page = reader.page /\ reader'.focus = f
      /\ reader'.top = (IF list \in Areas THEN top ELSE 0)
      /\ reader'.rows = Page(f) /\ reader'.got = reader.got
      /\ reader'.due = (IF reader.page = 0 THEN Listed ELSE reader.due)
      /\ met' = met \cup (IF f # 0 THEN {"focus"} ELSE {})
                    \cup (IF BeyondWindow(reader.page) THEN {"window"} ELSE {})
  BY <1>1, ReadingGives
<1>3. Listed \subseteq Present /\ Present' = Present /\ 0 \notin Present
  BY <1>1, <1>2, RowsOfLists, BoundsOfLists DEF Listed, Present
<1>4. Begun'
  BY <1>2 DEF Begun
<1>5. reader.page = 0 => reader.got = {}
  BY <1>1 DEF ReaderInv
<1>6. reader.due \subseteq Present /\ reader.got \subseteq Present
  BY <1>1 DEF ReaderInv
<1>7. Page(f) \cap {f, IF list \in Areas THEN top ELSE 0} = {}
  <2>1. CASE list \in Areas
    <3>1. Found(f) = Open \ {top, f}
      BY <2>1 DEF Found, ListRows, AreaRows, Areas
    <3> QED BY <1>2, <2>1, <3>1
  <2>2. CASE list \notin Areas
    BY <1>2, <1>3, <2>2
  <2> QED BY <2>1, <2>2
<1>8. list \in Areas \cup {"replies"} => \A r \in Page(f) : row[r] = "open"
  <2>1. list \in Areas \cup {"replies"} => Found(f) \subseteq Open
    BY DEF Found, ListRows, AreaRows, Areas
  <2> QED BY <1>2, <2>1 DEF Open
<1>9. f # 0 => f # (IF list \in Areas THEN top ELSE 0) /\ reader.page = 0 /\ "focus" \in met'
  BY <1>2
<1> HIDE DEF Page, Found, Listed
<1> QED BY <1>2, <1>3, <1>4, <1>5, <1>6, <1>7, <1>8, <1>9 DEF ReaderInv

\* A page without a comment to begin with is cut where the one before it ended.
LEMMA ReadsKeepOnce ==
  ASSUME ListInv, NEW f \in {0} \cup RowId, ReadsRows(f)
  PROVE  OnceInv'
<1>1. ListTypes /\ ReaderInv /\ OnceInv
  BY DEF ListInv
<1>2. /\ UNCHANGED <<list, row, place, top, orphaned, answer>>
      /\ f = 0 \/ (list \in Areas /\ reader.page = 0 /\ f \in Open \ {top})
      /\ Page(f) \subseteq Found(f) /\ Found(f) \subseteq Present
      /\ reader'.at = "read" /\ reader'.page = reader.page
      /\ reader'.top = (IF list \in Areas THEN top ELSE 0)
      /\ reader'.rows = Page(f) /\ reader'.got = reader.got
      /\ reader'.again = reader.again
      /\ met' = met \cup (IF f # 0 THEN {"focus"} ELSE {})
                    \cup (IF BeyondWindow(reader.page) THEN {"window"} ELSE {})
  BY <1>1, ReadingGives
<1> SUFFICES ASSUME list \in Numbered, met' \cap {"came", "moved"} = {},
                    ~(list \in Areas /\ "focus" \in met')
             PROVE  OnceInv'
  BY <1>2 DEF OnceInv
<1>3. f = 0
  BY <1>2
<1>4. OnceInv!2
  BY <1>1, <1>2 DEF OnceInv
<1>5. Found(f) = Standing /\ \A r \in Standing : PlaceOfRow(r) \in Nat
  BY <1>1, <1>3, StandingIs DEF Found
<1>6. reader.page * RowsPerPage \in Nat /\ RowsPerPage \in Nat
  BY <1>1, BoundsOfLists, ReaderFields
<1>7. \A r \in Page(f) : /\ r \in Standing /\ PlaceOfRow(r) >= reader.page * RowsPerPage
                         /\ PlaceOfRow(r) < reader.page * RowsPerPage + RowsPerPage
  BY <1>5 DEF Page, PageRows, Cut, PlaceOfRow, Numbered, Areas
<1>8. Page(f) \cap reader.got = {}
  BY <1>4, <1>5, <1>6, <1>7
<1>9. Standing' = Standing /\ \A r : PlaceOfRow(r)' = PlaceOfRow(r)
  BY <1>1, <1>2, SameStanding
<1> HIDE DEF Page, Found, Standing, PlaceOfRow
<1> QED BY <1>2, <1>4, <1>7, <1>8, <1>9 DEF OnceInv

LEMMA ReadsKeepAll ==
  ASSUME ListInv, NEW f \in {0} \cup RowId, ReadsRows(f)
  PROVE  AllInv'
<1>1. ListTypes /\ ReaderInv /\ AllInv
  BY DEF ListInv
<1>2. /\ UNCHANGED <<list, row, place, top, orphaned, answer>>
      /\ f = 0 \/ (list \in Areas /\ reader.page = 0 /\ f \in Open \ {top})
      /\ Page(f) \subseteq Found(f) /\ Found(f) \subseteq Present
      /\ reader'.at = "read" /\ reader'.page = reader.page /\ reader'.focus = f
      /\ reader'.top = (IF list \in Areas THEN top ELSE 0)
      /\ reader'.rows = Page(f) /\ reader'.got = reader.got
      /\ reader'.more = (IF list \in Numbered THEN Cardinality(Page(f)) = RowsPerPage
                         ELSE list = "messages" /\ Cardinality(Found(f)) > RowsPerPage)
      /\ reader'.missed = reader.missed
      /\ reader'.due = (IF reader.page = 0 THEN Listed ELSE reader.due)
      /\ met' = met \cup (IF f # 0 THEN {"focus"} ELSE {})
                    \cup (IF BeyondWindow(reader.page) THEN {"window"} ELSE {})
  BY <1>1, ReadingGives
<1> SUFFICES ASSUME list \in Numbered, met' \cap {"left", "moved"} = {},
                    ~(list = "fans" /\ "window" \in met')
             PROVE  AllInv'
  BY <1>2 DEF AllInv
<1>3. AllInv!2 /\ Page(f) = PageRows(Found(f), reader.page)
  <2>1. AllInv!2
    BY <1>1, <1>2 DEF AllInv
  <2>2. ~BeyondWindow(reader.page)
    BY <1>2 DEF BeyondWindow
  <2> QED BY <2>1, <2>2 DEF Page
<1>4. reader.page \in Nat /\ reader.page * RowsPerPage \in Nat /\ RowsPerPage \in Nat \ {0}
  BY <1>1, BoundsOfLists, ReaderFields
<1>5. /\ Standing' = Standing /\ \A r : PlaceOfRow(r)' = PlaceOfRow(r)
      /\ Standing \subseteq Present /\ \A r \in Standing : PlaceOfRow(r) \in Nat
      /\ Open' = Open
  BY <1>1, <1>2, SameStanding, StandingIs DEF Open
<1>6. Found(f) = Standing \ (IF f = 0 THEN {} ELSE {f})
  <2>1. CASE f = 0
    BY <1>1, <2>1, StandingIs DEF Found
  <2>2. CASE f # 0
    <3>1. Standing = Open \ {top} /\ list \in Areas
      BY <1>1, <1>2, <2>2, StandingIs
    <3> QED BY <2>2, <3>1 DEF Found, ListRows, AreaRows, Areas
  <2> QED BY <2>1, <2>2
<1>7. ASSUME NEW x \in reader'.due \cap Standing, x # f,
             ~(PlaceOfRow(x) < reader.page * RowsPerPage),
             PlaceOfRow(x) < reader.page * RowsPerPage + RowsPerPage \/ ~reader'.more
      PROVE  x \in Page(f)
  <2>1. x \in Found(f)
    BY <1>6, <1>7
  <2>2. Cardinality(Prior(x, Found(f))) \in Nat
    BY <1>1, <1>2, <2>1, PriorRows
  <2>3. PlaceOfRow(x) \in Nat /\ Cardinality(Prior(x, Found(f))) <= PlaceOfRow(x)
        /\ (f = 0 => Cardinality(Prior(x, Found(f))) = PlaceOfRow(x))
    <3>1. x \in Standing /\ PlaceOfRow(x) = Cardinality(Prior(x, Standing))
      BY <1>7 DEF PlaceOfRow
    <3>2. Prior(x, Found(f)) \in SUBSET Prior(x, Standing)
      BY <1>6 DEF Prior
    <3>3. IsFiniteSet(Prior(x, Standing))
      BY <1>1, <1>5, <3>1, PriorRows
    <3>4. f = 0 => Found(f) = Standing
      BY <1>6
    <3> QED BY <1>5, <3>1, <3>2, <3>3, <3>4, FS_Subset
  <2>4. Cardinality(Prior(x, Found(f))) >= reader.page * RowsPerPage
    <3>1. CASE f = 0
      BY <1>4, <1>7, <2>2, <2>3, <3>1
    <3>2. CASE f # 0
      <4>1. reader.page * RowsPerPage = 0
        BY <1>2, <1>4, <3>2
      <4> QED BY <2>2, <4>1
    <3> QED BY <3>1, <3>2
  <2>5. Page(f) = Cut(Found(f), reader.page * RowsPerPage, RowsPerPage)
    BY <1>3 DEF PageRows, Numbered, Areas
  <2>6. CASE PlaceOfRow(x) < reader.page * RowsPerPage + RowsPerPage
    BY <1>4, <2>1, <2>2, <2>3, <2>4, <2>5, <2>6 DEF Cut
  <2>7. CASE ~reader'.more
    <3>1. Cardinality(Page(f)) # RowsPerPage
      BY <1>2, <2>7
    <3> HIDE DEF Page, Found
    <3> QED BY <1>1, <1>2, <1>4, <2>1, <2>4, <2>5, <3>1, CutEnds
  <2> QED BY <1>7, <2>6, <2>7
<1>8. ASSUME NEW x \in reader'.due \cap Standing, PlaceOfRow(x) < reader.page * RowsPerPage
      PROVE  x \in reader.got
  <2>1. PlaceOfRow(x) \in Nat
    BY <1>5
  <2>2. reader.page # 0
    <3>1. reader.page = 0 => reader.page * RowsPerPage = 0
      BY <1>4
    <3> QED BY <1>8, <2>1, <3>1
  <2>3. x \in reader.due
    BY <1>2, <2>2
  <2> QED BY <1>3, <1>8, <2>3
<1>9. list \in Areas =>
        /\ reader'.top = top
        /\ reader'.page > 0 => (top \in reader'.due \cap Open => top \in reader'.got)
  <2> SUFFICES ASSUME list \in Areas, reader.page > 0, top \in reader'.due \cap Open
               PROVE  top \in reader.got
    BY <1>2
  <2>1. reader'.due = reader.due
    BY <1>2, <1>4
  <2> QED BY <1>3, <2>1
<1>10. \A x \in reader'.due \cap Standing' :
         PlaceOfRow(x)' < reader'.page * RowsPerPage => x \in reader'.got
  BY <1>2, <1>5, <1>8
<1>11. ASSUME NEW x \in reader'.due \cap Standing',
              PlaceOfRow(x)' < reader'.page * RowsPerPage + RowsPerPage \/ ~reader'.more
       PROVE  x \in reader'.got \cup reader'.rows \cup {reader'.focus}
  <2>1. x \in reader'.due \cap Standing
        /\ (PlaceOfRow(x) < reader.page * RowsPerPage + RowsPerPage \/ ~reader'.more)
    BY <1>2, <1>5, <1>11
  <2>2. x \in reader.got \/ x \in Page(f) \/ x = f
    BY <1>7, <1>8, <2>1
  <2> QED BY <1>2, <2>2
<1> HIDE DEF Page, Found, Standing, PlaceOfRow
<1>12. reader'.missed = {}
  BY <1>2, <1>3
<1>13. list \in Areas =>
         /\ reader'.at = "read" => reader'.top = top'
         /\ reader'.page > 0 => (top' \in reader'.due \cap Open' => top' \in reader'.got)
  BY <1>2, <1>5, <1>9
<1>14. list' = list
  BY <1>2
<1> QED BY <1>10, <1>11, <1>12, <1>13, <1>14 DEF AllInv

LEMMA ReadsKeepMessages ==
  ASSUME ListInv, NEW f \in {0} \cup RowId, ReadsRows(f)
  PROVE  MessagesInv'
<1>1. ListTypes /\ ReaderInv /\ MessagesInv
  BY DEF ListInv
<1>2. /\ UNCHANGED <<list, row, place, top, orphaned, answer>>
      /\ f = 0 \/ (list \in Areas /\ reader.page = 0 /\ f \in Open \ {top})
      /\ Page(f) \subseteq Found(f) /\ Found(f) \subseteq Present
      /\ reader.at = "idle" /\ reader'.at = "read"
      /\ reader'.page = reader.page /\ reader'.cursor = reader.cursor
      /\ reader'.rows = Page(f) /\ reader'.got = reader.got
      /\ reader'.more = (IF list \in Numbered THEN Cardinality(Page(f)) = RowsPerPage
                         ELSE list = "messages" /\ Cardinality(Found(f)) > RowsPerPage)
      /\ reader'.again = reader.again /\ reader'.missed = reader.missed
      /\ reader'.due = (IF reader.page = 0 THEN Listed ELSE reader.due)
  BY <1>1, ReadingGives
<1> SUFFICES ASSUME list = "messages" PROVE MessagesInv'
  BY <1>2 DEF MessagesInv
<1>3. MessagesInv!2
  BY <1>1 DEF MessagesInv
<1>4. /\ f = 0 /\ Found(f) = MessageRows(reader.cursor) /\ Listed = Messages
      /\ Page(f) = Cut(Found(f), 0, RowsPerPage)
      /\ reader'.more = (Cardinality(Found(f)) > RowsPerPage)
  BY <1>2 DEF Found, ListRows, Listed, MessageRows, Areas, Page, PageRows, BeyondWindow, Numbered
<1>5. /\ reader.cursor \in {0} \cup RowId /\ \A r \in RowId : r \in Nat /\ r # 0
      /\ Messages \subseteq RowId /\ LastRow \in Nat
  BY <1>1, ReaderFields, BoundsOfLists DEF Messages, Open, Held
<1>6. /\ Page(f) # {} \/ Found(f) = {}
      /\ \A r \in Found(f) \ Page(f), q \in Page(f) : PlaceInList(q) < PlaceInList(r)
      /\ ~reader'.more => Page(f) = Found(f)
  <2>1. Found(f) \subseteq Present /\ RowsPerPage \in Nat \ {0}
    BY <1>2, BoundsOfLists
  <2> HIDE DEF Page, Found
  <2>2. /\ Found(f) # {} => Cut(Found(f), 0, RowsPerPage) # {}
        /\ \A r \in Found(f) \ Cut(Found(f), 0, RowsPerPage) :
             \A q \in Cut(Found(f), 0, RowsPerPage) : PlaceInList(q) < PlaceInList(r)
        /\ ~(Cardinality(Found(f)) > RowsPerPage) => Cut(Found(f), 0, RowsPerPage) = Found(f)
    BY <1>1, <2>1, CutBegins
  <2> QED BY <1>4, <2>2
<1>7. ASSUME NEW r \in Found(f) \ Page(f), NEW q \in Page(f)
      PROVE  r < q
  <2>1. LastRow - q < LastRow - r
    BY <1>6, <1>7 DEF PlaceInList
  <2>2. q \in RowId /\ r \in RowId
    BY <1>2, <1>7 DEF Present
  <2> QED BY <1>5, <2>1, <2>2
<1>8. \A r \in Page(f) : reader.cursor = 0 \/ r < reader.cursor
  BY <1>2, <1>4 DEF MessageRows
<1>9. reader.page = 0 => reader.cursor = 0
  BY <1>1, <1>2 DEF ReaderInv, Begun, NoReader
<1>10. Messages' = Messages /\ Held' = Held
  BY <1>2 DEF Messages, Open, Held
<1>11. reader'.due \cap (Held' \ OwnRows) = {}
  <2>1. Messages \cap (Held \ OwnRows) = {}
    BY DEF Messages, Open, Held
  <2> QED BY <1>2, <1>3, <1>4, <1>10, <2>1
<1>12. reader'.cursor # 0 =>
         \A r \in reader'.due \cap Messages' : r >= reader'.cursor => r \in reader'.got
  BY <1>2, <1>3, <1>9, <1>10
<1>13. ASSUME NEW r \in reader'.due \cap Messages'
       PROVE  \/ r \in reader'.got \cup reader'.rows
              \/ reader'.more /\ reader'.rows # {} /\ \A q \in reader'.rows : r < q
  <2>1. r \in Messages /\ r \in Nat
    BY <1>5, <1>10, <1>13
  <2>2. CASE r \in Found(f)
    BY <1>2, <1>6, <1>7, <2>2
  <2>3. CASE r \notin Found(f)
    <3>1. reader.cursor # 0 /\ r >= reader.cursor
      <4>1. ~(reader.cursor = 0 \/ r < reader.cursor)
        BY <1>4, <2>1, <2>3, Zenon DEF MessageRows
      <4>2. reader.cursor \in Nat
        BY <1>5
      <4> QED BY <2>1, <4>1, <4>2
    <3> QED BY <1>2, <1>12, <1>13, <3>1
  <2> QED BY <2>2, <2>3
<1>14. /\ reader'.again = {} /\ reader'.missed = {}
       /\ \A r \in reader'.got : reader'.cursor # 0 /\ r >= reader'.cursor
       /\ \A r \in reader'.rows : reader'.cursor = 0 \/ r < reader'.cursor
  BY <1>2, <1>3, <1>8
<1> QED BY <1>11, <1>12, <1>13, <1>14 DEF MessagesInv

LEMMA ReadsKeepPolling ==
  ASSUME ListInv, NEW f \in {0} \cup RowId, ReadsRows(f)
  PROVE  PollingInv'
<1>1. ListTypes /\ ReaderInv /\ PollingInv
  BY DEF ListInv
<1>2. /\ UNCHANGED <<list, row, place, top, orphaned, answer>>
      /\ f = 0 \/ (list \in Areas /\ reader.page = 0 /\ f \in Open \ {top})
      /\ Page(f) \subseteq Found(f) /\ Found(f) \subseteq Present
      /\ reader'.cursor = reader.cursor /\ reader'.from = reader.from
      /\ reader'.rows = Page(f) /\ reader'.got = reader.got
      /\ reader'.again = reader.again /\ reader'.missed = reader.missed
      /\ reader'.ended = FALSE
      /\ met' = met \cup (IF f # 0 THEN {"focus"} ELSE {})
                    \cup (IF BeyondWindow(reader.page) THEN {"window"} ELSE {})
  BY <1>1, ReadingGives
<1> SUFFICES ASSUME list = "polling" PROVE PollingInv'
  BY <1>2 DEF PollingInv
<1>3. PollingInv!2
  BY <1>1 DEF PollingInv
<1>4. /\ f = 0 /\ Found(f) = NewMessages(reader.cursor)
      /\ Page(f) = Cut(Found(f), 0, RowsPerPage)
      /\ "late" \in met' <=> "late" \in met
  BY <1>2 DEF Found, ListRows, Areas, Page, PageRows, BeyondWindow, Numbered
<1>5. /\ reader.cursor \in {0} \cup RowId /\ \A r \in RowId : r \in Nat /\ r # 0
      /\ Messages \subseteq RowId
  BY <1>1, ReaderFields DEF Messages, Open, Held
<1>6. \A r \in Found(f) \ Page(f), q \in Page(f) : PlaceInList(q) < PlaceInList(r)
  <2>1. Found(f) \subseteq Present /\ RowsPerPage \in Nat \ {0}
    BY <1>2, BoundsOfLists
  <2> HIDE DEF Page, Found
  <2>2. \A r \in Found(f) \ Cut(Found(f), 0, RowsPerPage) :
          \A q \in Cut(Found(f), 0, RowsPerPage) : PlaceInList(q) < PlaceInList(r)
    BY <1>1, <2>1, CutBegins
  <2> QED BY <1>4, <2>2
<1>7. \A r \in Page(f) : r > reader.cursor
  BY <1>2, <1>4 DEF NewMessages
<1>8. Messages' = Messages
  BY <1>2 DEF Messages, Open, Held
<1>9. ASSUME reader.cursor # 0, NEW r \in Messages, NEW q \in Page(f), r > reader.cursor, r <= q
      PROVE  r \in Page(f)
  <2> SUFFICES ASSUME r \notin Page(f) PROVE FALSE
    OBVIOUS
  <2>1. r \in Found(f) \ Page(f)
    BY <1>4, <1>9 DEF NewMessages
  <2>2. q < r
    BY <1>6, <1>9, <2>1 DEF PlaceInList
  <2>3. q \in Nat /\ r \in Nat
    BY <1>2, <1>5, <1>9 DEF Present
  <2> QED BY <1>9, <2>2, <2>3
<1> HIDE DEF Page
<1> QED BY <1>2, <1>3, <1>4, <1>7, <1>8, <1>9 DEF PollingInv

LEMMA ReadsKeepLatest ==
  ASSUME ListInv, NEW f \in {0} \cup RowId, ReadsRows(f)
  PROVE  LatestInv'
<1>1. ListTypes /\ LatestInv
  BY DEF ListInv
<1>2. /\ UNCHANGED <<list, row, place, top, orphaned, answer>>
      /\ f = 0 \/ (list \in Areas /\ reader.page = 0 /\ f \in Open \ {top})
      /\ reader'.page = reader.page /\ reader.ended = FALSE /\ reader'.ended = FALSE
      /\ reader'.rows = Page(f) /\ reader'.again = reader.again
      /\ reader'.more = (IF list \in Numbered THEN Cardinality(Page(f)) = RowsPerPage
                         ELSE list = "messages" /\ Cardinality(Found(f)) > RowsPerPage)
  BY <1>1, ReadingGives DEF ListInv
<1> SUFFICES ASSUME list = "latest" PROVE LatestInv'
  BY <1>2 DEF LatestInv
<1>3. reader.page \in Nat
  BY <1>1, ReaderFields
<1>4. reader.page = 0 /\ reader.again = {}
  BY <1>1, <1>2, <1>3 DEF LatestInv
<1>5. reader'.more = FALSE
  BY <1>2 DEF Numbered, Areas
<1>6. Page(f) = Cut(Open, 0, ScanRows)
  BY <1>2 DEF Page, Found, ListRows, PageRows, BeyondWindow, Numbered, Areas
<1>7. Cut(Open, 0, ScanRows)' = Cut(Open, 0, ScanRows)
  <2>1. Open' = Open /\ \A r : PlaceInList(r)' = PlaceInList(r)
    BY <1>2 DEF Open, PlaceInList
  <2> QED BY <2>1 DEF Cut, Prior
<1>8. reader'.rows = Cut(Open, 0, ScanRows)'
  BY <1>2, <1>6, <1>7
<1> HIDE DEF Page
<1> QED BY <1>2, <1>4, <1>5, <1>8 DEF LatestInv, LatestFills

LEMMA ReadingStep ==
  ASSUME ListInv, NEW f \in {0} \cup RowId, ReadsRows(f)
  PROVE  ListInv'
<1>1. ListTypes' /\ UNCHANGED <<list, answer>>
  BY ReadingGives DEF ListInv
<1>2. PageIsSound' /\ OwnComeFirst'
  BY <1>1, AnswersKept DEF ListInv
<1> QED BY <1>1, <1>2, ReadsKeepReader, ReadsKeepOnce, ReadsKeepAll, ReadsKeepMessages,
           ReadsKeepPolling, ReadsKeepLatest DEF ListInv

-----------------------------------------------------------------------------
(* The lists: the answer.                                                  *)

LEMMA AnswerIsSound ==
  ASSUME ListInv, Answers
  PROVE  PageIsSound' /\ OwnComeFirst'
<1>1. ListTypes /\ ReaderInv
  BY DEF ListInv
<1>2. /\ UNCHANGED list
      /\ answer' = [rows |-> ShownRows, focus |-> ShownFocus, top |-> ShownTop,
                    own |-> OwnHeld, ahead |-> OwnPlace(Items)]
  BY <1>1, AnswerGives
<1>3. /\ answer'.rows = ShownRows /\ answer'.focus = ShownFocus /\ answer'.top = ShownTop
      /\ answer'.own = OwnHeld /\ answer'.ahead = OwnPlace(Items)
  BY <1>2
<1>4. /\ ShownRows \subseteq reader.rows /\ ShownFocus = {reader.focus} \cap Open
      /\ Items = ShownFocus \cup ShownRows /\ Items \subseteq RowId
      /\ ShownTop = 0 \/ (ShownTop = reader.top /\ reader.top \in Open)
  BY <1>1, ItemsShown DEF Items, ShownTop
<1>5. /\ reader.rows \cap {reader.focus, reader.top} = {}
      /\ reader.focus # 0 => reader.focus # reader.top
      /\ Open \cap Held = {} /\ 0 \notin RowId /\ Held \subseteq RowId
      /\ OwnHeld \subseteq Held \cap OwnRows
      /\ list \in Areas \cup {"replies"} => reader.rows \cap Held = {}
      /\ list \notin Areas \cup {"replies"} => OwnHeld = {}
  BY <1>1, BoundsOfLists DEF ReaderInv, Open, Held, OwnHeld
<1>6. ShownRows \cap ShownFocus = {}
  BY <1>4, <1>5
<1>7. OwnHeld \cap (ShownRows \cup ShownFocus) = {}
  BY <1>4, <1>5
<1>8. ShownTop \notin ShownRows \cup ShownFocus \cup OwnHeld
  <2>1. CASE ShownTop = 0
    BY <1>4, <1>5, <2>1
  <2>2. CASE ShownTop = reader.top /\ reader.top \in Open /\ ShownTop # 0
    <3>1. reader.top \notin reader.rows /\ reader.top \notin Held
      BY <1>5, <2>2
    <3>2. reader.top \notin ShownFocus
      BY <1>4, <1>5, <2>2
    <3> QED BY <1>4, <1>5, <2>2, <3>1, <3>2
  <2> QED BY <1>4, <2>1, <2>2
<1>9. PageIsSound'
  BY <1>2, <1>3, <1>5, <1>6, <1>7, <1>8 DEF PageIsSound
<1>10. ASSUME list \in Areas, ShownTop = 0
       PROVE  OwnPlace(Items) <= Cardinality(ShownFocus)
  <2>1. Cardinality(ShownFocus) \in Nat /\ Cardinality(Items) \in Nat
    BY <1>4, SomeRows
  <2>2. list # "replies"
    BY <1>10 DEF Areas
  <2>3. OwnPlace(Items) = IF 0 + Cardinality(ShownFocus) > Cardinality(Items)
                          THEN Cardinality(Items) ELSE 0 + Cardinality(ShownFocus)
    BY <1>10, <2>2 DEF OwnPlace
  <2> QED BY <2>1, <2>3
<1>11. OwnComeFirst'
  BY <1>2, <1>3, <1>10 DEF OwnComeFirst
<1> QED BY <1>9, <1>11

LEMMA AnswerKeepsReader ==
  ASSUME ListInv, Answers
  PROVE  ReaderInv'
<1>1. ListTypes /\ ReaderInv
  BY DEF ListInv
<1>2. /\ UNCHANGED <<list, row, met>> /\ Present' = Present
      /\ reader'.at = "idle" /\ reader'.rows = {} /\ reader'.focus = 0 /\ reader'.top = 0
      /\ reader'.page = reader.page + 1 /\ reader'.got = reader.got \cup Shown
      /\ reader'.due = (IF list = "polling" THEN Polled ELSE StillDue)
      /\ reader.page \in Nat
  BY <1>1, AnswerGives, ReaderFields
<1>3. Shown \subseteq Present /\ Polled \subseteq Present /\ StillDue \subseteq reader.due
  BY <1>1, ItemsShown, RowsOfLists DEF Polled, StillDue
<1>4. Begun' /\ reader'.page # 0
  BY <1>2 DEF Begun
<1>5. reader.due \subseteq Present /\ reader.got \subseteq Present
  BY <1>1 DEF ReaderInv
<1> HIDE DEF Shown, Polled, StillDue
<1> QED BY <1>2, <1>3, <1>4, <1>5 DEF ReaderInv

LEMMA AnswerKeepsOnce ==
  ASSUME ListInv, Answers
  PROVE  OnceInv'
<1>1. ListTypes /\ ReaderInv /\ OnceInv
  BY DEF ListInv
<1>2. /\ UNCHANGED <<list, row, place, top, orphaned, met>>
      /\ reader.at = "read" /\ reader'.at = "idle" /\ reader'.rows = {}
      /\ reader'.page = reader.page + 1 /\ reader'.got = reader.got \cup Shown
      /\ reader'.again = reader.again \cup (reader.got \cap Shown)
  BY <1>1, AnswerGives
<1> SUFFICES ASSUME list \in Numbered, met \cap {"came", "moved"} = {},
                    ~(list \in Areas /\ "focus" \in met)
             PROVE  OnceInv'
  BY <1>2 DEF OnceInv
<1>3. OnceInv!2
  BY <1>1 DEF OnceInv
<1>4. reader.focus = 0 /\ (list \notin Areas => reader.top = 0) /\ 0 \notin RowId
      /\ (reader.page = 0 => reader.got = {})
  BY <1>1, BoundsOfLists DEF ReaderInv
<1>5. ShownRows = reader.rows /\ ShownFocus = {}
  BY <1>4 DEF ShownRows, ShownFocus, Open, Numbered, Areas
<1>6. Shown = reader.rows \cup ({ShownTop} \ {0})
      /\ (ShownTop = 0 \/ (ShownTop = reader.top /\ reader.page = 0))
  BY <1>5 DEF Shown, Items, ShownTop
<1>7. reader.got \cap Shown = {}
  BY <1>3, <1>4, <1>6
<1>8. Standing' = Standing /\ \A r : PlaceOfRow(r)' = PlaceOfRow(r)
  BY <1>1, <1>2, SameStanding
<1>9. \A r \in Standing : PlaceOfRow(r) \in Nat
  BY <1>1, StandingIs
<1>10. (reader.page + 1) * RowsPerPage = reader.page * RowsPerPage + RowsPerPage
       /\ reader.page * RowsPerPage \in Nat /\ RowsPerPage \in Nat
  BY <1>1, BoundsOfLists, ReaderFields
<1>11. ShownTop \notin Standing \/ ShownTop = 0
  <2>1. CASE list \in Areas
    <3>1. Standing = Open \ {top} /\ reader.top = top
      BY <1>1, <1>2, <1>3, <2>1, StandingIs
    <3> QED BY <1>6, <3>1
  <2>2. CASE list \notin Areas
    BY <1>4, <1>6, <2>2
  <2> QED BY <2>1, <2>2
<1>12. ASSUME NEW r \in reader'.got \cap Standing
       PROVE  PlaceOfRow(r) < reader'.page * RowsPerPage
  <2>1. CASE r \in reader.got
    BY <1>2, <1>3, <1>9, <1>10, <1>12, <2>1
  <2>2. CASE r \in reader.rows
    BY <1>2, <1>3, <1>9, <1>10, <1>12, <2>2
  <2> QED BY <1>2, <1>6, <1>11, <1>12, <2>1, <2>2
<1> HIDE DEF Standing, PlaceOfRow, Shown
<1>13. reader'.again = {} /\ reader'.rows \cap reader'.got = {}
  BY <1>2, <1>3, <1>7
<1> QED BY <1>2, <1>8, <1>12, <1>13 DEF OnceInv

LEMMA AnswerKeepsAll ==
  ASSUME ListInv, Answers
  PROVE  AllInv'
<1>1. ListTypes /\ ReaderInv /\ AllInv
  BY DEF ListInv
<1>2. /\ UNCHANGED <<list, row, place, top, orphaned, met>>
      /\ reader.at = "read" /\ reader'.at = "idle"
      /\ reader'.page = reader.page + 1 /\ reader'.got = reader.got \cup Shown
      /\ reader'.due = (IF list = "polling" THEN Polled ELSE StillDue)
      /\ reader'.missed = (IF list = "polling" THEN Polled \ (reader.got \cup Shown)
                           ELSE IF reader.more THEN {} ELSE StillDue \ (reader.got \cup Shown))
  BY <1>1, AnswerGives
<1> SUFFICES ASSUME list \in Numbered, met \cap {"left", "moved"} = {},
                    ~(list = "fans" /\ "window" \in met)
             PROVE  AllInv'
  BY <1>2 DEF AllInv
<1>3. AllInv!2
  BY <1>1 DEF AllInv
<1>4. /\ reader'.due = StillDue
      /\ reader'.missed = (IF reader.more THEN {} ELSE StillDue \ (reader.got \cup Shown))
      /\ ShownRows = reader.rows
  BY <1>2 DEF Numbered, Areas, ShownRows
<1>5. /\ Standing' = Standing /\ \A r : PlaceOfRow(r)' = PlaceOfRow(r) /\ Open' = Open
      /\ \A r \in Standing : PlaceOfRow(r) \in Nat
  BY <1>1, <1>2, SameStanding, StandingIs DEF Open
<1>6. (reader.page + 1) * RowsPerPage = reader.page * RowsPerPage + RowsPerPage
      /\ reader.page * RowsPerPage \in Nat /\ RowsPerPage \in Nat /\ reader.page \in Nat
  BY <1>1, BoundsOfLists, ReaderFields
<1>7. StillDue \subseteq reader.due
  BY DEF StillDue
<1>8. ASSUME NEW x \in StillDue \cap Standing,
             PlaceOfRow(x) < reader'.page * RowsPerPage \/ ~reader.more
      PROVE  x \in reader.got \cup Shown
  <2>1. x \in reader.got \cup reader.rows \cup {reader.focus}
    BY <1>2, <1>3, <1>5, <1>6, <1>7, <1>8
  <2>2. CASE x = reader.focus
    <3>1. x \in RowId /\ x # 0
      BY <1>1, <1>8, StandingIs, RowsOfLists, BoundsOfLists
    <3>2. list \in Areas
      BY <1>1, <2>2, <3>1 DEF ReaderInv
    <3>3. x \in Open
      BY <1>1, <1>8, <3>2, StandingIs
    <3>4. x \in ShownFocus
      BY <2>2, <3>3 DEF ShownFocus
    <3> QED BY <3>4 DEF Shown, Items
  <2>3. CASE x # reader.focus
    BY <1>4, <2>1, <2>3 DEF Shown, Items
  <2> QED BY <2>2, <2>3
<1>9. ASSUME list \in Areas, top \in reader.due \cap Open
      PROVE  top \in reader.got \cup Shown
  <2>1. CASE reader.page > 0
    BY <1>3, <1>9, <2>1
  <2>2. CASE ~(reader.page > 0)
    <3>1. reader.page = 0 /\ reader.top = top
      BY <1>2, <1>3, <1>6, <1>9, <2>2
    <3>2. ShownTop = top /\ top # 0
      BY <1>9, <3>1, BoundsOfLists DEF ShownTop, Open
    <3> QED BY <3>2 DEF Shown
  <2> QED BY <2>1, <2>2
<1>10. ~reader.more => StillDue \subseteq reader.got \cup Shown
  <2> SUFFICES ASSUME ~reader.more, NEW x \in StillDue PROVE x \in reader.got \cup Shown
    OBVIOUS
  <2>1. CASE x \in Standing
    BY <1>8, <2>1
  <2>2. CASE x \notin Standing
    <3>1. list \in Areas
      <4>1. list \notin Areas => Listed = Standing
        BY DEF Listed, Standing, Numbered, Areas
      <4> QED BY <2>2, <4>1 DEF StillDue
    <3>2. x \in Open /\ x = top
      BY <1>1, <2>2, <3>1, StandingIs DEF StillDue, Listed
    <3> QED BY <1>7, <1>9, <3>1, <3>2
  <2> QED BY <2>1, <2>2
<1>11. reader'.missed = {}
  BY <1>4, <1>10
<1>12. list \in Areas =>
         (top' \in reader'.due \cap Open' => top' \in reader'.got)
  BY <1>2, <1>4, <1>5, <1>7, <1>9
<1>13. \A x \in reader'.due \cap Standing' :
         PlaceOfRow(x)' < reader'.page * RowsPerPage => x \in reader'.got
  BY <1>2, <1>4, <1>5, <1>8
<1>14. list' = list
  BY <1>2
<1> HIDE DEF Standing, PlaceOfRow
<1> QED BY <1>2, <1>11, <1>12, <1>13, <1>14 DEF AllInv

\* A conversation is read in one direction, whatever comes meanwhile.
LEMMA MessagesShown ==
  ASSUME ListTypes, ReaderInv, list \in {"messages", "polling"}
  PROVE  /\ Items = reader.rows /\ Shown = reader.rows
         /\ reader.rows = {} => LastItem = reader.cursor
         /\ reader.rows # {} =>
              /\ LastItem \in reader.rows
              /\ LastItem = IF list = "messages" THEN Smallest(reader.rows)
                            ELSE Largest(reader.rows)
              /\ \A r \in reader.rows : IF list = "messages" THEN LastItem <= r
                                        ELSE r <= LastItem
<1>1. reader.focus = 0 /\ reader.top = 0 /\ 0 \notin RowId /\ list # "latest"
  BY BoundsOfLists DEF ReaderInv, Areas
<1>2. ShownRows = reader.rows /\ ShownFocus = {} /\ ShownTop = 0
  BY <1>1 DEF ShownRows, ShownFocus, ShownTop, Open
<1>3. Items = reader.rows /\ Shown = reader.rows
  BY <1>2 DEF Items, Shown
<1>4. reader.rows = {} => LastItem = reader.cursor
  BY <1>3 DEF LastItem
<1>5. ASSUME reader.rows # {}
      PROVE  LastItem = IF list = "messages" THEN Smallest(reader.rows) ELSE Largest(reader.rows)
  BY <1>3, <1>5 DEF LastItem
<1>6. reader.rows # {} =>
        /\ Smallest(reader.rows) \in reader.rows /\ Largest(reader.rows) \in reader.rows
        /\ \A x \in reader.rows : Smallest(reader.rows) <= x /\ x <= Largest(reader.rows)
  BY <1>3, ItemsShown
<1> HIDE DEF Items, Shown, LastItem
<1> QED BY <1>3, <1>4, <1>5, <1>6

LEMMA AnswerKeepsMessages ==
  ASSUME ListInv, Answers
  PROVE  MessagesInv'
<1>1. ListTypes /\ ReaderInv /\ MessagesInv
  BY DEF ListInv
<1>2. /\ UNCHANGED <<list, row, place, top, orphaned, met>>
      /\ reader.at = "read" /\ reader'.at = "idle" /\ reader'.rows = {}
      /\ reader'.cursor = LastItem /\ reader'.got = reader.got \cup Shown
      /\ reader'.again = reader.again \cup (reader.got \cap Shown)
      /\ reader'.due = (IF list = "polling" THEN Polled ELSE StillDue)
      /\ reader'.missed = (IF list = "polling" THEN Polled \ (reader.got \cup Shown)
                           ELSE IF reader.more THEN {} ELSE StillDue \ (reader.got \cup Shown))
  BY <1>1, AnswerGives
<1> SUFFICES ASSUME list = "messages" PROVE MessagesInv'
  BY <1>2 DEF MessagesInv
<1>3. MessagesInv!2
  BY <1>1 DEF MessagesInv
<1>4. /\ Shown = reader.rows
      /\ reader.rows = {} => LastItem = reader.cursor
      /\ reader.rows # {} => LastItem \in reader.rows
      /\ \A r \in reader.rows : LastItem <= r
  BY <1>1, MessagesShown
<1>5. /\ reader.cursor \in {0} \cup RowId /\ \A r \in RowId : r \in Nat /\ r # 0
      /\ reader.rows \subseteq RowId /\ reader.got \subseteq RowId
      /\ reader.due \subseteq RowId /\ LastItem \in {0} \cup RowId
  BY <1>1, ReaderFields, AnswerGives
<1>6. Messages' = Messages /\ Held' = Held /\ StillDue = reader.due \cap Messages
  <2>1. Listed = Messages
    BY DEF Listed, ListRows, MessageRows, Areas
  <2> QED BY <1>2, <2>1 DEF Messages, Open, Held, StillDue
<1>7. reader.got \cap reader.rows = {}
  <2> SUFFICES ASSUME NEW r \in reader.got, r \in reader.rows PROVE FALSE
    OBVIOUS
  <2>1. reader.cursor # 0 /\ r >= reader.cursor /\ r < reader.cursor
    BY <1>3
  <2>2. r \in Nat /\ reader.cursor \in Nat
    BY <1>5
  <2> QED BY <2>1, <2>2
<1>8. ~reader.more => \A r \in StillDue : r \in reader.got \cup reader.rows
  BY <1>2, <1>3, <1>6
<1>9. ASSUME NEW r \in reader.got \cup reader.rows
      PROVE  LastItem # 0 /\ r >= LastItem
  <2>1. r \in Nat /\ LastItem \in Nat /\ reader.cursor \in Nat
    BY <1>5, <1>9
  <2>2. CASE r \in reader.rows
    BY <1>4, <1>5, <2>1, <2>2
  <2>3. CASE r \in reader.got /\ reader.rows = {}
    BY <1>3, <1>4, <2>3
  <2>4. CASE r \in reader.got /\ reader.rows # {}
    <3>1. reader.cursor # 0 /\ r >= reader.cursor /\ LastItem \in reader.rows
      BY <1>3, <1>4, <2>4
    <3>2. LastItem < reader.cursor
      BY <1>3, <3>1
    <3> QED BY <1>5, <2>1, <3>1, <3>2
  <2> QED BY <1>9, <2>2, <2>3, <2>4
<1>10. ASSUME NEW r \in StillDue, r >= LastItem
       PROVE  r \in reader.got \cup reader.rows
  <2> SUFFICES ASSUME r \notin reader.got \cup reader.rows PROVE FALSE
    OBVIOUS
  <2>1. reader.rows # {} /\ \A q \in reader.rows : r < q
    BY <1>2, <1>3, <1>6
  <2>2. r < LastItem /\ r \in Nat /\ LastItem \in Nat
    BY <1>4, <1>5, <1>6, <2>1
  <2> QED BY <1>10, <2>2
<1>11. reader'.due = StillDue /\ StillDue \subseteq reader.due
       /\ reader'.missed = (IF reader.more THEN {} ELSE StillDue \ (reader.got \cup reader.rows))
       /\ reader'.got = reader.got \cup reader.rows
       /\ reader'.again = reader.again \cup (reader.got \cap reader.rows)
  BY <1>2, <1>4, <1>6
<1>12. reader'.again = {} /\ reader'.missed = {}
  BY <1>3, <1>7, <1>8, <1>11
<1>13. reader'.due \cap (Held' \ OwnRows) = {}
  BY <1>3, <1>6, <1>11
<1> HIDE DEF StillDue, LastItem, Shown
<1> QED BY <1>2, <1>9, <1>10, <1>11, <1>12, <1>13 DEF MessagesInv

LEMMA AnswerKeepsPolling ==
  ASSUME ListInv, Answers
  PROVE  PollingInv'
<1>1. ListTypes /\ ReaderInv /\ PollingInv
  BY DEF ListInv
<1>2. /\ UNCHANGED <<list, row, place, top, orphaned, met>>
      /\ reader'.rows = {} /\ reader'.cursor = LastItem /\ reader'.from = FromItem
      /\ reader'.got = reader.got \cup Shown
      /\ reader'.again = reader.again \cup (reader.got \cap Shown)
      /\ reader'.missed = (IF list = "polling" THEN Polled \ (reader.got \cup Shown)
                           ELSE IF reader.more THEN {} ELSE StillDue \ (reader.got \cup Shown))
      /\ reader'.ended = (~reader.more /\ list # "polling")
  BY <1>1, AnswerGives
<1> SUFFICES ASSUME list = "polling" PROVE PollingInv'
  BY <1>2 DEF PollingInv
<1>3. PollingInv!2
  BY <1>1 DEF PollingInv
<1>4. /\ Shown = reader.rows
      /\ reader.rows = {} => LastItem = reader.cursor
      /\ reader.rows # {} => LastItem \in reader.rows
      /\ \A r \in reader.rows : r <= LastItem
  BY <1>1, MessagesShown
<1>5. /\ reader.cursor \in {0} \cup RowId /\ \A r \in RowId : r \in Nat /\ r # 0
      /\ reader.from \in {0} \cup RowId /\ reader.rows \subseteq RowId
      /\ reader.got \subseteq RowId /\ LastItem \in {0} \cup RowId
      /\ Messages \subseteq RowId
  BY <1>1, ReaderFields, AnswerGives DEF Messages, Open, Held
<1>6. Messages' = Messages
  BY <1>2 DEF Messages, Open, Held
<1>7. FromItem = IF reader.from = 0 THEN LastItem ELSE reader.from
  BY DEF FromItem
<1>8. reader.got \cap reader.rows = {}
  <2> SUFFICES ASSUME NEW r \in reader.got, r \in reader.rows PROVE FALSE
    OBVIOUS
  <2>1. r <= reader.cursor /\ r > reader.cursor
    BY <1>3
  <2>2. r \in Nat /\ reader.cursor \in Nat
    BY <1>5
  <2> QED BY <2>1, <2>2
<1>9. reader.cursor <= LastItem
  <2>1. CASE reader.rows = {}
    BY <1>4, <1>5, <2>1
  <2>2. CASE reader.rows # {}
    BY <1>3, <1>4, <1>5, <2>2
  <2> QED BY <2>1, <2>2
<1>10. ASSUME NEW r \in reader.got \cup reader.rows
       PROVE  r <= LastItem
  <2>1. r \in Nat /\ LastItem \in Nat /\ reader.cursor \in Nat
    BY <1>5, <1>10
  <2> QED BY <1>3, <1>4, <1>9, <1>10, <2>1
<1>11. LastItem # 0 => LastItem \in reader.got \cup reader.rows
  BY <1>3, <1>4
<1>12. FromItem = 0 <=> LastItem = 0
  <2>1. reader.from # 0 => LastItem # 0
    BY <1>3, <1>5, <1>9
  <2> QED BY <1>7, <2>1
<1>13. ASSUME "late" \notin met, NEW r \in Messages, FromItem < r, r <= LastItem
       PROVE  r \in reader.got \cup reader.rows
  <2>1. r \in Nat /\ LastItem \in Nat /\ reader.cursor \in Nat /\ reader.from \in Nat
    BY <1>5, <1>13
  <2>2. reader.from # 0 /\ reader.cursor # 0 /\ reader.from < r
    BY <1>3, <1>7, <1>13, <2>1
  <2>3. CASE r <= reader.cursor
    BY <1>3, <1>13, <2>2, <2>3
  <2>4. CASE ~(r <= reader.cursor)
    <3>1. r > reader.cursor /\ LastItem \in reader.rows
      BY <1>4, <1>13, <2>1, <2>4
    <3> QED BY <1>3, <1>13, <2>2, <3>1
  <2> QED BY <2>3, <2>4
<1>14. /\ reader'.got = reader.got \cup reader.rows
       /\ reader'.again = {} /\ reader'.ended = FALSE
       /\ reader'.missed = Polled \ (reader.got \cup reader.rows)
  BY <1>2, <1>3, <1>4, <1>8
<1>15. "late" \notin met => reader'.missed = {}
  BY <1>13, <1>14 DEF Polled
<1> HIDE DEF LastItem, FromItem, Polled, Shown
<1> QED BY <1>2, <1>6, <1>10, <1>11, <1>12, <1>13, <1>14, <1>15 DEF PollingInv

\* The latest comments are filled up from all that were read.
LEMMA AnswerKeepsLatest ==
  ASSUME ListInv, Answers
  PROVE  LatestInv'
<1>1. ListTypes /\ ReaderInv /\ LatestInv
  BY DEF ListInv
<1>2. /\ UNCHANGED <<list, row, place, top, orphaned, met>>
      /\ answer' = [rows |-> ShownRows, focus |-> ShownFocus, top |-> ShownTop,
                    own |-> OwnHeld, ahead |-> OwnPlace(Items)]
      /\ reader.at = "read" /\ reader'.at = "idle"
      /\ reader'.again = reader.again \cup (reader.got \cap Shown)
      /\ reader'.ended = (~reader.more /\ list # "polling")
  BY <1>1, AnswerGives
<1> SUFFICES ASSUME list = "latest" PROVE LatestInv'
  BY <1>2 DEF LatestInv
<1>3. /\ reader.again = {} /\ reader.page = 0 /\ reader.more = FALSE
      /\ met = {} => reader.rows = Cut(Open, 0, ScanRows)
  BY <1>1, <1>2 DEF LatestInv
<1>4. reader.got = {} /\ reader'.again = {} /\ reader'.ended = TRUE
  BY <1>1, <1>2, <1>3 DEF ReaderInv
<1>5. answer'.rows = Cut(reader.rows \ orphaned, 0, RowsPerPage)
  BY <1>2 DEF ShownRows, Alive
<1>6. Open' = Open
  BY <1>2 DEF Open
<1>7. ASSUME met = {}, Cardinality(Open) <= ScanRows
      PROVE  Cardinality(answer'.rows) = IF Cardinality(Open \ orphaned) < RowsPerPage
                                         THEN Cardinality(Open \ orphaned) ELSE RowsPerPage
  <2>1. Open \subseteq Present /\ Open \subseteq RowId
    BY <1>1, RowsOfLists DEF Open
  <2>2. Cardinality(Open) \in Nat /\ Cardinality(Open \ orphaned) \in Nat
        /\ ScanRows \in Nat \ {0} /\ RowsPerPage \in Nat \ {0}
    <3>1. Open \ orphaned \subseteq RowId
      BY <2>1
    <3>2. Cardinality(Open) \in 0 .. LastRow /\ Cardinality(Open \ orphaned) \in 0 .. LastRow
      BY <2>1, <3>1, SomeRows
    <3> QED BY <3>2, BoundsOfLists
  <2>3. reader.rows = Open
    <3>1. ~(Cardinality(Open) > ScanRows)
      BY <1>7, <2>2
    <3> QED BY <1>1, <1>3, <1>7, <2>1, <2>2, <3>1, CutBegins
  <2> DEFINE there == Open \ orphaned
  <2>4. there \subseteq Present /\ Cardinality(there) \in Nat /\ answer'.rows = Cut(there, 0, RowsPerPage)
    BY <1>5, <2>1, <2>2, <2>3
  <2> HIDE DEF there
  <2>5. CASE Cardinality(there) < RowsPerPage
    <3>1. ~(Cardinality(there) > RowsPerPage)
      BY <2>2, <2>4, <2>5
    <3>2. Cut(there, 0, RowsPerPage) = there
      BY <1>1, <2>2, <2>4, <3>1, CutBegins
    <3> QED BY <2>4, <2>5, <3>2 DEF there
  <2>6. CASE ~(Cardinality(there) < RowsPerPage)
    <3>1. 0 + RowsPerPage <= Cardinality(there)
      BY <2>2, <2>4, <2>6
    <3>2. Cardinality(Cut(there, 0, RowsPerPage)) = RowsPerPage
      BY <1>1, <2>2, <2>4, <3>1, PageIsFull
    <3> QED BY <2>4, <2>6, <3>2 DEF there
  <2> QED BY <2>5, <2>6
<1>8. LatestFills'
  BY <1>2, <1>6, <1>7 DEF LatestFills
<1> QED BY <1>2, <1>4, <1>8 DEF LatestInv

LEMMA AnswerStep ==
  ASSUME ListInv, Answers
  PROVE  ListInv'
<1>1. ListTypes'
  BY AnswerGives DEF ListInv
<1> QED BY <1>1, AnswerIsSound, AnswerKeepsReader, AnswerKeepsOnce, AnswerKeepsAll,
           AnswerKeepsMessages, AnswerKeepsPolling, AnswerKeepsLatest DEF ListInv

LEMMA ListsStep == ListInv /\ [ListsNext]_listVars => ListInv'
<1> SUFFICES ASSUME ListInv, [ListsNext]_listVars PROVE ListInv'
  OBVIOUS
<1>1. ASSUME NEW r \in RowId, NEW s \in {"held", "open"}, NEW i \in RowId, Arrives(r, s, i)
      PROVE  ListInv'
  BY <1>1, ArrivalStep
<1>2. ASSUME NEW r \in RowId,
             Decided(r, "open") \/ Decided(r, "gone") \/ RowLeaves(r) \/ TargetGoes(r)
      PROVE  ListInv'
  BY <1>2, LeavingStep
<1>3. ASSUME NEW r \in RowId, NEW i \in RowId, Moves(r, i)
      PROVE  ListInv'
  BY <1>3, MoveStep
<1>4. ASSUME NEW r \in {0} \cup RowId, PinsRow(r)
      PROVE  ListInv'
  BY <1>4, MoveStep
<1>5. ASSUME NEW r \in {0} \cup RowId, ReadsRows(r)
      PROVE  ListInv'
  BY <1>5, ReadingStep
<1>6. CASE UNCHANGED listVars
  BY <1>6 DEF listVars, ListInv, ListTypes, ListsTypeOK, ReaderInv, PageIsSound, OwnComeFirst,
     OnceInv, AllInv, MessagesInv, PollingInv, LatestInv, LatestFills, Standing, PlaceOfRow,
     ListRows, AreaRows, MessageRows, NewMessages, Messages, Present, Begun, Open, Held,
     Prior, PlaceInList, Cut
<1> QED BY <1>1, <1>2, <1>3, <1>4, <1>5, <1>6, AnswerStep DEF ListsNext

\* A page holds a row once and the reader's own come first; a row is shown again
\* or left out only if the list changed in the one way that does it
\* (comment_read.py, follow.py, dm.py).
THEOREM ListsAreShown == ListsSpec => []ListsHold
<1>1. ListInv => ListsHold
  <2> SUFFICES ASSUME ListInv PROVE ListsHold
    OBVIOUS
  <2>1. PageIsSound /\ OwnComeFirst
    BY DEF ListInv
  <2>2. list \in List
    BY DEF ListInv, ListTypes, ListsTypeOK
  <2>3. RowShownOnce
    BY <2>2 DEF ListInv, RowShownOnce, OnceInv, MessagesInv, PollingInv, LatestInv, List
  <2>4. RowsAllShown
    BY <2>2 DEF ListInv, RowsAllShown, AllInv, MessagesInv, PollingInv, List
  <2>5. LatestFills
    BY DEF ListInv, LatestInv, LatestFills
  <2> QED BY <2>1, <2>3, <2>4, <2>5 DEF ListsHold
<1> QED BY <1>1, ListsStart, ListsStep, PTL DEF ListsSpec

-----------------------------------------------------------------------------
(* Words in texts.                                                         *)

Char == Nat

LEMMA PartOf ==
  ASSUME NEW s \in Seq(Char), NEW i \in Nat \ {0}, NEW j \in Nat, i - 1 <= j, j <= Len(s)
  PROVE  /\ SubSeq(s, i, j) \in Seq(Char) /\ Len(SubSeq(s, i, j)) = j - i + 1
         /\ \A k \in 1 .. (j - i + 1) : SubSeq(s, i, j)[k] = s[i + k - 1]
<1>1. \A k \in i .. j : s[k] \in Char
  BY ElementOfSeq
<1>2. /\ SubSeq(s, i, j) \in Seq(Char)
      /\ Len(SubSeq(s, i, j)) = IF i <= j THEN j - i + 1 ELSE 0
      /\ \A k \in 1 .. j - i + 1 : SubSeq(s, i, j)[k] = s[i + k - 1]
  BY <1>1, SubSeqProperties
<1> QED BY <1>2

\* A word occurs where every character of it is.
LEMMA OccursAt ==
  ASSUME NEW w \in Seq(Char), NEW s \in Seq(Char), NEW i
  PROVE  i \in Occurrences(w, s) <=>
           /\ i \in Nat \ {0} /\ i + Len(w) - 1 <= Len(s)
           /\ \A k \in 1 .. Len(w) : s[i + k - 1] = w[k]
<1>1. Len(w) \in Nat /\ Len(s) \in Nat
  BY LenProperties
<1>2. i \in 1 .. (Len(s) - Len(w) + 1) <=> i \in Nat \ {0} /\ i + Len(w) - 1 <= Len(s)
  BY <1>1
<1>3. ASSUME i \in Nat \ {0}, i + Len(w) - 1 <= Len(s)
      PROVE  SubSeq(s, i, i + Len(w) - 1) = w <=> \A k \in 1 .. Len(w) : s[i + k - 1] = w[k]
  <2> DEFINE j == i + Len(w) - 1
             t == SubSeq(s, i, j)
  <2>1. j \in Nat /\ i - 1 <= j /\ j <= Len(s) /\ j - i + 1 = Len(w)
    BY <1>1, <1>3
  <2>2. t \in Seq(Char) /\ Len(t) = Len(w) /\ \A k \in 1 .. Len(w) : t[k] = s[i + k - 1]
    <3> HIDE DEF j
    <3> QED BY <1>3, <2>1, PartOf
  <2>3. (\A k \in 1 .. Len(w) : s[i + k - 1] = w[k]) => t = w
    <3> SUFFICES ASSUME \A k \in 1 .. Len(w) : s[i + k - 1] = w[k] PROVE t = w
      OBVIOUS
    <3>1. \A k \in 1 .. Len(t) : t[k] = w[k]
      BY <2>2
    <3> HIDE DEF t
    <3> QED BY <2>2, <3>1, SeqEqual
  <2>4. t = w => \A k \in 1 .. Len(w) : s[i + k - 1] = w[k]
    <3> HIDE DEF t
    <3> QED BY <2>2
  <2> QED BY <2>3, <2>4
<1>4. i \in Occurrences(w, s) <=>
        i \in 1 .. (Len(s) - Len(w) + 1) /\ SubSeq(s, i, i + Len(w) - 1) = w
  BY DEF Occurrences
<1> QED BY <1>2, <1>3, <1>4

LEMMA OccursWithin ==
  ASSUME NEW u \in Seq(Char), NEW w \in Seq(Char), NEW s \in Seq(Char),
         Occurrences(u, w) # {}, Occurrences(w, s) # {}
  PROVE  Occurrences(u, s) # {}
<1>1. Len(u) \in Nat /\ Len(w) \in Nat /\ Len(s) \in Nat
  BY LenProperties
<1>2. PICK i \in Nat \ {0} : /\ i + Len(u) - 1 <= Len(w)
                             /\ \A k \in 1 .. Len(u) : w[i + k - 1] = u[k]
  <2>1. PICK i : i \in Occurrences(u, w)
    OBVIOUS
  <2>2. /\ i \in Nat \ {0} /\ i + Len(u) - 1 <= Len(w)
        /\ \A k \in 1 .. Len(u) : w[i + k - 1] = u[k]
    BY <2>1, OccursAt
  <2> QED BY <2>2
<1>3. PICK j \in Nat \ {0} : /\ j + Len(w) - 1 <= Len(s)
                             /\ \A k \in 1 .. Len(w) : s[j + k - 1] = w[k]
  <2>1. PICK j : j \in Occurrences(w, s)
    OBVIOUS
  <2>2. /\ j \in Nat \ {0} /\ j + Len(w) - 1 <= Len(s)
        /\ \A k \in 1 .. Len(w) : s[j + k - 1] = w[k]
    BY <2>1, OccursAt
  <2> QED BY <2>2
<1>4. ASSUME NEW k \in 1 .. Len(u)
      PROVE  s[(j + i - 1) + k - 1] = u[k]
  <2>1. i + k - 1 \in 1 .. Len(w)
    BY <1>1, <1>2
  <2>2. s[j + (i + k - 1) - 1] = w[i + k - 1]
    BY <1>3, <2>1
  <2>3. j + (i + k - 1) - 1 = (j + i - 1) + k - 1
    BY <1>2, <1>3
  <2> QED BY <1>2, <2>2, <2>3
<1>5. (j + i - 1) \in Nat \ {0} /\ (j + i - 1) + Len(u) - 1 <= Len(s)
  BY <1>1, <1>2, <1>3
<1>6. (j + i - 1) \in Occurrences(u, s)
  <2> DEFINE n == j + i - 1
  <2>1. n \in Nat \ {0} /\ n + Len(u) - 1 <= Len(s) /\ \A k \in 1 .. Len(u) : s[n + k - 1] = u[k]
    BY <1>4, <1>5
  <2> HIDE DEF n
  <2>2. n \in Occurrences(u, s)
    BY <2>1, OccursAt
  <2> QED BY <2>2 DEF n
<1> QED BY <1>6

\* A part of a text occurs in it.
LEMMA PartOccurs ==
  ASSUME NEW s \in Seq(Char), NEW i \in Nat \ {0}, NEW j \in Nat, i - 1 <= j, j <= Len(s)
  PROVE  i \in Occurrences(SubSeq(s, i, j), s)
<1>1. Len(SubSeq(s, i, j)) = j - i + 1 /\ Len(s) \in Nat
  BY PartOf, LenProperties
<1>2. i \in 1 .. (Len(s) - Len(SubSeq(s, i, j)) + 1) /\ i + Len(SubSeq(s, i, j)) - 1 = j
  BY <1>1
<1> QED BY <1>2 DEF Occurrences

\* The walks find the words that occur anywhere.
LEMMA WalksFind ==
  ASSUME NEW words, words \subseteq Seq(Char), \A w \in words : Len(w) >= 1,
         NEW text \in Seq(Char)
  PROVE  MatchAll(Trie(words), text) = {w \in words : Occurrences(w, text) # {}}
<1>1. Len(text) \in Nat /\ \A w \in words : Len(w) \in Nat
  BY LenProperties
<1>2. ASSUME NEW w \in MatchAll(Trie(words), text)
      PROVE  w \in words /\ Occurrences(w, text) # {}
  <2>1. PICK i \in 1 .. Len(text) : w \in Walk(Trie(words), text, i)
    BY <1>2 DEF MatchAll
  <2>2. w \in words
    BY <2>1 DEF Walk, Trie
  <2>3. PICK j \in i .. Len(text) : w = SubSeq(text, i, j)
    BY <2>1 DEF Walk
  <2>4. i \in Nat \ {0} /\ j \in Nat /\ i - 1 <= j /\ j <= Len(text)
    BY <1>1, <2>1, <2>3
  <2>5. i \in Occurrences(w, text)
    BY <2>3, <2>4, PartOccurs
  <2> QED BY <2>2, <2>5
<1>3. ASSUME NEW w \in words, Occurrences(w, text) # {}
      PROVE  w \in MatchAll(Trie(words), text)
  <2>1. PICK i \in 1 .. (Len(text) - Len(w) + 1) : SubSeq(text, i, i + Len(w) - 1) = w
    BY <1>3 DEF Occurrences
  <2>2. PICK j \in Nat : j = i + Len(w) - 1
    <3>1. Len(w) \in Nat /\ i \in Nat \ {0}
      BY <1>1, <2>1
    <3>2. i + Len(w) - 1 \in Nat
      BY <3>1
    <3> QED BY <3>2
  <2>3. /\ i \in 1 .. Len(text) /\ j \in i .. Len(text) /\ j \in 1 .. Len(text)
        /\ w = SubSeq(text, i, j) /\ Len(w) = j - i + 1
    BY <1>1, <2>1, <2>2
  <2>4. ASSUME NEW k \in i .. j
        PROVE  SubSeq(text, i, k) \in Trie(words).nodes
    <3>1. k - i + 1 \in 1 .. (j - i + 1) /\ 1 \in 1 .. (j - i + 1) /\ k - i + 1 \in 0 .. Len(w)
      BY <2>3
    <3>2. SubSeq(w, 1, k - i + 1) = SubSeq(text, i + 1 - 1, i + (k - i + 1) - 1)
      BY <2>3, <3>1, SubSeqOfSubSeq
    <3>3. i + 1 - 1 = i /\ i + (k - i + 1) - 1 = k
      BY <2>3
    <3>4. SubSeq(w, 1, k - i + 1) = SubSeq(text, i, k)
      BY <3>2, <3>3
    <3> QED BY <3>1, <3>4 DEF Trie
  <2>5. w \in Walk(Trie(words), text, i)
    BY <2>3, <2>4 DEF Walk, Trie
  <2> QED BY <2>3, <2>5 DEF MatchAll
<1> QED BY <1>2, <1>3

-----------------------------------------------------------------------------
(* The words of a library, and the hits.                                   *)

WordSet(words) == words \subseteq Seq(Char) /\ \A w \in words : Len(w) >= 2

\* A library that was read: its trees are made of words of two characters and
\* more.
LibraryOK(library) ==
  library # Unread =>
    /\ DOMAIN library = Levels
    /\ \A l \in Levels : \E words : WordSet(words) /\ library[l] = Trie(words)

LEMMA LettersAreChars == Seq(Letter) \subseteq Seq(Char)
<1> SUFFICES ASSUME NEW s \in Seq(Letter) PROVE s \in Seq(Char)
  OBVIOUS
<1>1. Len(s) \in Nat /\ s \in [1 .. Len(s) -> Letter]
  BY LenProperties
<1>2. s \in [1 .. Len(s) -> Char]
  BY <1>1 DEF Letter, Char
<1> QED BY <1>1, <1>2, SeqDef

LEMMA LibraryIsOK ==
  ASSUME NEW files \in Libraries
  PROVE  /\ LibraryOK(ReadLibrary(files)) /\ ReadLibrary(files) # Unread
         /\ \A l \in Levels : WordsAt(ReadLibrary(files), l)
                                = {w \in files.flat[l] : Usable(w, files.exempt)}
<1> DEFINE UsableAt(l) == {w \in files.flat[l] : Usable(w, files.exempt)}
<1>1. ReadLibrary(files) = [l \in Levels |-> Trie(UsableAt(l))]
  BY DEF ReadLibrary
<1>2. ASSUME NEW l \in Levels
      PROVE  WordSet(UsableAt(l))
  <2>1. files \in Library
    BY WordAssumption
  <2>2. files.flat[l] \in SUBSET Seq(Letter)
    BY <2>1 DEF Library
  <2>3. \A w \in UsableAt(l) : w \in Seq(Char) /\ Len(w) >= 2
    BY <2>2, LettersAreChars DEF Usable
  <2> HIDE DEF UsableAt
  <2> QED BY <2>3 DEF WordSet
<1> HIDE DEF UsableAt
<1>3. DOMAIN ReadLibrary(files) = Levels /\ \A l \in Levels : ReadLibrary(files)[l] = Trie(UsableAt(l))
  BY <1>1
<1>4. ReadLibrary(files) # Unread
  <2>1. DOMAIN Unread = {"state"} /\ "state" \notin Levels
    BY DEF Unread, Levels
  <2> QED BY <1>3, <2>1
<1>5. \A l \in Levels : WordsAt(ReadLibrary(files), l) = UsableAt(l)
  BY <1>3, <1>4 DEF WordsAt, Trie
<1>6. LibraryOK(ReadLibrary(files))
  BY <1>2, <1>3 DEF LibraryOK
<1> QED BY <1>4, <1>5, <1>6 DEF UsableAt

\* The hits of a level are the words of it that occur in the text.
LEMMA HitsOf ==
  ASSUME NEW library, LibraryOK(library), NEW text \in Seq(Char), NEW l \in Levels
  PROVE  /\ Match(library, text)[l] = {w \in WordsAt(library, l) : Occurrences(w, text) # {}}
         /\ WordSet(WordsAt(library, l))
<1>1. CASE library = Unread
  BY <1>1 DEF Match, WordsAt, WordSet
<1>2. CASE library # Unread
  <2>1. PICK words : WordSet(words) /\ library[l] = Trie(words)
    BY <1>2 DEF LibraryOK
  <2>2. WordsAt(library, l) = words
    BY <1>2, <2>1 DEF WordsAt, Trie
  <2>3. \A w \in words : Len(w) >= 1
    <3>1. \A w \in words : Len(w) \in Nat /\ Len(w) >= 2
      BY <2>1, LenProperties DEF WordSet
    <3> QED BY <3>1
  <2>4. MatchAll(Trie(words), text) = {w \in words : Occurrences(w, text) # {}}
    BY <2>1, <2>3, WalksFind DEF WordSet
  <2>5. Match(library, text)[l] = MatchAll(library[l], text)
    BY <1>2, Zenon DEF Match
  <2> QED BY <2>1, <2>2, <2>4, <2>5
<1> QED BY <1>1, <1>2

-----------------------------------------------------------------------------
(* Verdicts and what follows from them.                                    *)

LEMMA LinksGrow ==
  ASSUME NEW lists, NEW more, NEW less, less \subseteq more
  PROVE  /\ CheckLinks(less, lists).blocked \subseteq CheckLinks(more, lists).blocked
         /\ CheckLinks(less, lists).unknown \subseteq CheckLinks(more, lists).unknown
<1> DEFINE On(sites, domains) == {s \in sites : \E d \in domains : DomainMatches(s, d)}
<1>1. \A sites : /\ CheckLinks(sites, lists).blocked = On(sites, lists.black)
                 /\ CheckLinks(sites, lists).unknown =
                      IF lists.white = {} THEN {}
                      ELSE sites \ (On(sites, lists.black) \cup On(sites, lists.white))
  BY Zenon DEF CheckLinks
<1>2. \A s \in less : \A domains : s \in On(less, domains) <=> s \in On(more, domains)
  OBVIOUS
<1>3. \A domains : On(less, domains) \subseteq On(more, domains) /\ On(less, domains) \subseteq less
  OBVIOUS
<1> HIDE DEF On
<1>4. CheckLinks(less, lists).blocked \subseteq CheckLinks(more, lists).blocked
  BY <1>1, <1>3
<1>5. CheckLinks(less, lists).unknown \subseteq CheckLinks(more, lists).unknown
  BY <1>1, <1>2
<1> QED BY <1>4, <1>5

LEMMA VerdictGrows ==
  ASSUME NEW less, NEW more, NEW few, NEW many,
         \A l \in Levels : less[l] # {} => more[l] # {},
         few.blocked # {} => many.blocked # {}, few.unknown # {} => many.unknown # {}
  PROVE  Severity(AuditText(less, few, FALSE)) <= Severity(AuditText(more, many, FALSE))
<1>1. /\ less["high"] # {} => more["high"] # {}
      /\ less["medium"] # {} => more["medium"] # {}
  BY DEF Levels
<1>2. \A hits, links :
        AuditText(hits, links, FALSE) =
          IF links.blocked # {} \/ hits["high"] # {} THEN "reject"
          ELSE IF hits["medium"] # {} \/ links.unknown # {} THEN "audit" ELSE "pass"
  BY DEF AuditText
<1>3. Severity("pass") = 1 /\ Severity("audit") = 2 /\ Severity("reject") = 3
  BY DEF Severity
<1>4. \A hits, links : AuditText(hits, links, FALSE) \in {"pass", "audit", "reject"}
  BY <1>2
<1> DEFINE soft == AuditText(less, few, FALSE)
           hard == AuditText(more, many, FALSE)
<1>5. soft \in {"pass", "audit", "reject"} /\ hard \in {"pass", "audit", "reject"}
  BY <1>4
<1>6. soft = "reject" => hard = "reject"
  BY <1>1, <1>2
<1>7. soft = "audit" => hard # "pass"
  BY <1>1, <1>2
<1> HIDE DEF soft, hard
<1>8. Severity(soft) <= Severity(hard)
  <2>1. CASE soft = "pass"
    BY <1>3, <1>5, <2>1
  <2>2. CASE soft = "audit"
    BY <1>3, <1>5, <1>7, <2>2
  <2>3. CASE soft = "reject"
    BY <1>3, <1>6, <2>3
  <2> QED BY <1>5, <2>1, <2>2, <2>3
<1> QED BY <1>8 DEF soft, hard

LEMMA RiskIsStricter ==
  ASSUME NEW hits, NEW links
  PROVE  Severity(AuditText(hits, links, TRUE)) >= Severity(AuditText(hits, links, FALSE))
BY DEF AuditText, Severity

LEMMA TextsAreTexts ==
  \A t \in Texts : t \in Seq(Char) /\ \A i \in 1 .. Len(t) : t[i] # 0
<1> SUFFICES ASSUME NEW t \in Texts PROVE t \in Seq(Char) /\ \A i \in 1 .. Len(t) : t[i] # 0
  OBVIOUS
<1>1. t \in Seq(Letter)
  BY WordAssumption
<1>2. \A i \in 1 .. Len(t) : t[i] \in Letter
  BY <1>1, ElementOfSeq
<1> QED BY <1>1, <1>2, LettersAreChars DEF Letter

\* The audit that was made last.
MadeOf(lists, surface, text, sites) ==
  /\ audited = AuditOf(loaded, lists, surface, text, sites)
  /\ LibraryOK(loaded) /\ surface \in Surfaces
  /\ text \in Seq(Char) /\ \A i \in 1 .. Len(text) : text[i] # 0

LEMMA AuditFields ==
  ASSUME NEW lists, NEW surface, NEW text, NEW sites, MadeOf(lists, surface, text, sites)
  PROVE  /\ audited.surface = surface /\ audited.text = text /\ audited.sites = sites
         /\ audited.lists = lists /\ audited.hits = Match(loaded, text)
         /\ audited.verdict = VerdictOn(loaded, lists, surface, text, sites, FALSE)
         /\ audited.outcome = Consequence(surface, audited.verdict)
         /\ audited.blamed = "words" =>
              audited.named = UNION {CompactHits(audited.hits[l]) : l \in Levels}
         /\ audited.excerpt = (IF surface = "moment" /\ audited.verdict = "reject"
                               THEN MaskText(text, AllHits(audited.hits)) ELSE <<>>)
         /\ audited # NoAudit
<1> DEFINE hits == Match(loaded, text)
           verdict == VerdictOn(loaded, lists, surface, text, sites, FALSE)
           outcome == Consequence(surface, verdict)
           blamed == Blamed(hits, LinksOf(lists, surface, sites))
           named == IF blamed = "links" THEN {} ELSE UNION {CompactHits(hits[l]) : l \in Levels}
           excerpt == IF surface = "moment" /\ verdict = "reject"
                      THEN MaskText(text, AllHits(hits)) ELSE <<>>
<1>1. audited = [surface |-> surface, text |-> text, sites |-> sites, hits |-> hits,
                 verdict |-> verdict, lists |-> lists, blamed |-> blamed, outcome |-> outcome,
                 named |-> named, excerpt |-> excerpt]
  BY Zenon DEF MadeOf, AuditOf
<1>2. surface # "none"
  BY DEF MadeOf, Surfaces
<1>5. blamed = "words" => named = UNION {CompactHits(hits[l]) : l \in Levels}
  <2> HIDE DEF hits, blamed
  <2> QED OBVIOUS
<1> HIDE DEF hits, verdict, blamed, outcome, named, excerpt
<1>3. /\ audited.surface = surface /\ audited.text = text /\ audited.sites = sites
      /\ audited.lists = lists /\ audited.hits = hits /\ audited.verdict = verdict
      /\ audited.outcome = outcome /\ audited.named = named /\ audited.excerpt = excerpt
      /\ audited.blamed = blamed
  BY <1>1
<1>4. audited # NoAudit
  BY <1>2, <1>3 DEF NoAudit
<1>6. audited.blamed = "words" =>
        audited.named = UNION {CompactHits(audited.hits[l]) : l \in Levels}
  BY <1>3, <1>5
<1> QED BY <1>3, <1>4, <1>6 DEF hits, verdict, outcome, excerpt

LEMMA EveryWordFound ==
  ASSUME NEW lists, NEW surface, NEW text, NEW sites, MadeOf(lists, surface, text, sites),
         loaded = Unread => wordFiles.categories # {},
         loaded # Unread /\ edits = 0 => loaded = ReadLibrary(wordFiles),
         wordFiles \in Libraries
  PROVE  FindsEveryWord
<1>1. audited.text = text /\ audited.hits = Match(loaded, text)
  BY AuditFields
<1>2. LibraryOK(loaded) /\ text \in Seq(Char)
  BY DEF MadeOf
<1>3. \A l \in Levels :
        Match(loaded, text)[l] = {w \in WordsAt(loaded, l) : Occurrences(w, text) # {}}
  BY <1>2, HitsOf
<1>4. loaded # Unread /\ edits = 0 =>
        \A l \in Levels :
          WordsAt(loaded, l) = {w \in wordFiles.flat[l] : Usable(w, wordFiles.exempt)}
  BY LibraryIsOK
<1> QED BY <1>1, <1>3, <1>4 DEF FindsEveryWord

\* The hits of a part of a text are hits of the text.
LEMMA HitsGrow ==
  ASSUME NEW library, LibraryOK(library), NEW text \in Seq(Char),
         NEW i \in Nat \ {0}, NEW j \in Nat, i - 1 <= j, j <= Len(text), NEW l \in Levels,
         Match(library, SubSeq(text, i, j))[l] # {}
  PROVE  Match(library, text)[l] # {}
<1> DEFINE cut == SubSeq(text, i, j)
<1>1. cut \in Seq(Char) /\ Occurrences(cut, text) # {}
  BY PartOf, PartOccurs
<1> HIDE DEF cut
<1>2. /\ Match(library, cut)[l] = {w \in WordsAt(library, l) : Occurrences(w, cut) # {}}
      /\ Match(library, text)[l] = {w \in WordsAt(library, l) : Occurrences(w, text) # {}}
      /\ WordsAt(library, l) \subseteq Seq(Char)
  BY <1>1, HitsOf DEF WordSet
<1>3. PICK w \in WordsAt(library, l) : Occurrences(w, cut) # {}
  BY <1>2 DEF cut
<1>4. Occurrences(w, text) # {}
  BY <1>1, <1>2, <1>3, OccursWithin
<1> QED BY <1>2, <1>3, <1>4

LEMMA VerdictIsKept ==
  ASSUME NEW lists, NEW surface, NEW text, NEW sites, MadeOf(lists, surface, text, sites)
  PROVE  NeverMilder
<1> DEFINE Verdict(t, s, strict) ==
             Severity(VerdictOn(loaded, lists, surface, t, s, strict))
           Links(s) == LinksOf(lists, surface, s)
<1>1. /\ audited.surface = surface /\ audited.text = text /\ audited.sites = sites
      /\ audited.lists = lists /\ Severity(audited.verdict) = Verdict(text, sites, FALSE)
  BY AuditFields
<1>2. LibraryOK(loaded) /\ text \in Seq(Char) /\ Len(text) \in Nat
  BY LenProperties DEF MadeOf
<1>3. \A t, s, strict : Verdict(t, s, strict) = Severity(AuditText(Match(loaded, t), Links(s), strict))
  BY DEF VerdictOn
<1>4. ASSUME NEW i \in Nat \ {0}, NEW j \in Nat, i - 1 <= j, j <= Len(text)
      PROVE  Verdict(SubSeq(text, i, j), sites, FALSE) <= Verdict(text, sites, FALSE)
  <2>1. \A l \in Levels : Match(loaded, SubSeq(text, i, j))[l] # {} => Match(loaded, text)[l] # {}
    BY <1>2, <1>4, HitsGrow
  <2>2. Severity(AuditText(Match(loaded, SubSeq(text, i, j)), Links(sites), FALSE))
          <= Severity(AuditText(Match(loaded, text), Links(sites), FALSE))
    <3> HIDE DEF Links
    <3> QED BY <2>1, VerdictGrows
  <2> HIDE DEF Verdict, Links
  <2> QED BY <1>3, <2>2
<1>5. ASSUME NEW s \in SUBSET sites
      PROVE  Verdict(text, s, FALSE) <= Verdict(text, sites, FALSE)
  <2>1. /\ Links(s).blocked \subseteq Links(sites).blocked
        /\ Links(s).unknown \subseteq Links(sites).unknown
    <3>1. (IF surface = "name" THEN {} ELSE s) \subseteq (IF surface = "name" THEN {} ELSE sites)
      OBVIOUS
    <3> QED BY <3>1, LinksGrow DEF LinksOf
  <2>2. Severity(AuditText(Match(loaded, text), Links(s), FALSE))
          <= Severity(AuditText(Match(loaded, text), Links(sites), FALSE))
    <3> HIDE DEF Links
    <3>1. /\ Links(s).blocked # {} => Links(sites).blocked # {}
          /\ Links(s).unknown # {} => Links(sites).unknown # {}
      BY <2>1
    <3> QED BY <3>1, VerdictGrows
  <2> HIDE DEF Verdict, Links
  <2> QED BY <1>3, <2>2
<1>6. Verdict(text, sites, TRUE) >= Verdict(text, sites, FALSE)
  <2>1. Severity(AuditText(Match(loaded, text), Links(sites), TRUE))
          >= Severity(AuditText(Match(loaded, text), Links(sites), FALSE))
    BY RiskIsStricter
  <2> HIDE DEF Verdict, Links
  <2> QED BY <1>3, <2>1
<1>7. \A i \in 1 .. Len(text) : Verdict(SubSeq(text, 1, i), sites, FALSE) <= Verdict(text, sites, FALSE)
  <2> HIDE DEF Verdict
  <2> TAKE i \in 1 .. Len(text)
  <2>1. 1 \in Nat \ {0} /\ i \in Nat /\ 1 - 1 <= i /\ i <= Len(text)
    BY <1>2
  <2> QED BY <1>4, <2>1
<1>8. \A i \in 2 .. Len(text) :
        Verdict(SubSeq(text, i, Len(text)), sites, FALSE) <= Verdict(text, sites, FALSE)
  <2> HIDE DEF Verdict
  <2> TAKE i \in 2 .. Len(text)
  <2>1. i \in Nat \ {0} /\ Len(text) \in Nat /\ i - 1 <= Len(text) /\ Len(text) <= Len(text)
    BY <1>2
  <2> QED BY <1>4, <2>1
<1> HIDE DEF Verdict
<1>9. /\ \A i \in 1 .. Len(audited.text) :
           Verdict(SubSeq(audited.text, 1, i), audited.sites, FALSE) <= Severity(audited.verdict)
      /\ \A i \in 2 .. Len(audited.text) :
           Verdict(SubSeq(audited.text, i, Len(audited.text)), audited.sites, FALSE)
             <= Severity(audited.verdict)
      /\ \A s \in SUBSET audited.sites : Verdict(audited.text, s, FALSE) <= Severity(audited.verdict)
      /\ Verdict(audited.text, audited.sites, TRUE) >= Severity(audited.verdict)
  BY <1>1, <1>5, <1>6, <1>7, <1>8
<1> USE DEF Verdict
<1> QED BY <1>1, <1>9, Zenon DEF NeverMilder

LEMMA NothingIsShown ==
  ASSUME NEW lists, NEW surface, NEW text, NEW sites, MadeOf(lists, surface, text, sites)
  PROVE  NothingShown
<1> DEFINE links == LinksOf(lists, surface, sites)
<1>1. /\ audited.surface = surface /\ audited.sites = sites /\ audited.lists = lists
      /\ audited.outcome = Consequence(surface, audited.verdict)
      /\ audited.verdict = AuditText(audited.hits, links, FALSE)
  BY AuditFields DEF VerdictOn
<1>2. surface \in Surfaces
  BY DEF MadeOf
<1>3. audited.verdict # "reject" => audited.hits["high"] = {} /\ links.blocked = {}
  BY <1>1 DEF AuditText
<1>4. audited.verdict = "pass" => audited.hits["medium"] = {}
  BY <1>1 DEF AuditText
<1>5. audited.verdict \in {"pass", "audit", "reject"}
  BY <1>1 DEF AuditText
<1>6. audited.outcome = "normal" =>
        /\ audited.verdict # "reject"
        /\ surface \in {"comment", "moment"} => audited.verdict = "pass"
  BY <1>1, <1>2, <1>5
     DEF Consequence, CommentOutcome, MomentOutcome, NameOutcome, Surfaces
<1>7. ASSUME surface # "name", links.blocked = {}
      PROVE  ~\E s \in sites, d \in lists.black : IsSuffix(d, s)
  <2>1. links.blocked = {s \in sites : \E d \in lists.black : DomainMatches(s, d)}
    BY <1>7 DEF LinksOf, CheckLinks
  <2> HIDE DEF links
  <2> QED BY <1>7, <2>1 DEF DomainMatches
<1> HIDE DEF links
<1> QED BY <1>1, <1>3, <1>4, <1>6, <1>7 DEF NothingShown

-----------------------------------------------------------------------------
(* The mask.                                                               *)

LEMMA LargestLength ==
  ASSUME NEW S, S # {}, NEW f, NEW n \in Nat, \A x \in S : f[x] \in 0 .. n
  PROVE  \E x \in S : \A y \in S : f[y] <= f[x]
<1> DEFINE N == {f[x] : x \in S}
<1>1. N \subseteq 0 .. n /\ N # {} /\ N \in SUBSET Nat
  OBVIOUS
<1>2. IsFiniteSet(0 .. n)
  BY FS_Interval
<1>3. IsFiniteSet(N)
  <2> HIDE DEF N
  <2> QED BY <1>1, <1>2, FS_Subset
<1>4. LargestId(N) \in N /\ \A k \in N : k <= LargestId(N)
  <2> HIDE DEF N
  <2> QED BY <1>1, <1>3, LargestIsThere
<1> QED BY <1>4

\* Of what is counted by numbers there is a first.
LEMMA FirstIsThere ==
  ASSUME NEW S, S # {}, NEW f, \A x \in S : f[x] \in Nat
  PROVE  \E x \in S : \A y \in S : f[x] <= f[y]
<1>1. PICK z \in S : TRUE
  OBVIOUS
<1>2. PICK n \in Nat : n = f[z]
  OBVIOUS
<1> DEFINE T == {x \in S : f[x] <= n}
           g == [x \in T |-> n - f[x]]
<1>3. z \in T /\ \A x \in T : g[x] \in 0 .. n
  BY <1>2
<1>4. PICK x \in T : \A y \in T : g[y] <= g[x]
  <2> HIDE DEF T, g
  <2> QED BY <1>3, LargestLength
<1>5. \A y \in T : f[x] <= f[y]
  <2>1. \A y \in T : f[y] \in Nat /\ g[y] = n - f[y]
    OBVIOUS
  <2> HIDE DEF T, g
  <2> QED BY <1>4, <2>1
<1>6. \A y \in S : y \notin T => f[x] <= f[y]
  OBVIOUS
<1> QED BY <1>5, <1>6

\* What is replaced from left to right: of the places up to which it is not
\* known there is a first, and the one before it says what it is.
LEMMA ReplacedIsThere ==
  ASSUME NEW m \in Nat, NEW found \in SUBSET (1 .. m), NEW n \in Nat
  PROVE  /\ Replaced(found, n) \subseteq found
         /\ \A i \in found : i \in Replaced(found, n) <=> Free(Replaced(found, n), i, n)
<1> DEFINE Upto(k, r) == r \subseteq found /\ \A i \in found : i <= k => (i \in r <=> Free(r, i, n))
           Bad == {k \in 0 .. m : ~\E r : Upto(k, r)}
<1>1. Bad = {}
  <2> SUFFICES ASSUME Bad # {} PROVE FALSE
    OBVIOUS
  <2>1. PICK k \in Bad : \A j \in Bad : k <= j
    <3> DEFINE f == [x \in Bad |-> x]
    <3>1. \A x \in Bad : f[x] \in Nat /\ f[x] = x
      OBVIOUS
    <3>2. PICK x \in Bad : \A y \in Bad : f[x] <= f[y]
      <4> HIDE DEF Bad, f
      <4> QED BY <3>1, FirstIsThere
    <3> HIDE DEF Bad, f
    <3> QED BY <3>1, <3>2
  <2>2. k \in 0 .. m /\ ~\E r : Upto(k, r)
    OBVIOUS
  <2>3. Upto(0, {})
    OBVIOUS
  <2>4. k # 0 /\ k - 1 \in 0 .. m /\ k - 1 \notin Bad
    BY <2>1, <2>2, <2>3
  <2>5. PICK r : Upto(k - 1, r)
    BY <2>4
  <2> DEFINE early == {i \in r : i < k}
             now == IF k \in found /\ Free(early, k, n) THEN early \cup {k} ELSE early
  <2>6. now \subseteq found /\ early \subseteq r
    BY <2>5
  <2>7. ASSUME NEW i \in found, i < k
        PROVE  i \in now <=> Free(now, i, n)
    <3>1. i \in r <=> Free(r, i, n)
      BY <2>2, <2>5, <2>7
    <3>2. \A j : j < i /\ j \in found => (j \in now <=> j \in r)
      BY <2>2, <2>7
    <3>3. Free(r, i, n) <=> Free(now, i, n)
      <4>1. r \subseteq found
        BY <2>5
      <4> HIDE DEF now
      <4> QED BY <2>6, <3>2, <4>1 DEF Free
    <3>4. i \in now <=> i \in r
      BY <2>2, <2>7
    <3> QED BY <3>1, <3>3, <3>4
  <2>8. k \in found => (k \in now <=> Free(now, k, n))
    <3> SUFFICES ASSUME k \in found PROVE k \in now <=> Free(now, k, n)
      OBVIOUS
    <3>1. k \in now <=> Free(early, k, n)
      BY <2>2
    <3>2. Free(now, k, n) <=> Free(early, k, n)
      BY <2>2 DEF Free
    <3> QED BY <3>1, <3>2
  <2>9. Upto(k, now)
    <3> HIDE DEF now
    <3> QED BY <2>2, <2>6, <2>7, <2>8
  <2> QED BY <2>2, <2>9
<1>2. m \notin Bad
  BY <1>1
<1>3. PICK r : Upto(m, r)
  BY <1>2
<1>4. r = {i \in found : Free(r, i, n)} /\ r \in SUBSET found
  <2>1. \A i \in found : i <= m
    OBVIOUS
  <2> HIDE DEF Bad
  <2> QED BY <1>3, <2>1
<1>5. /\ Replaced(found, n) \in SUBSET found
      /\ Replaced(found, n) = {i \in found : Free(Replaced(found, n), i, n)}
  BY <1>4, Zenon DEF Replaced
<1> QED BY <1>5

\* A masked text: every character is an asterisk or what it was.
Masked(m, text) ==
  m \in Seq(Char) /\ Len(m) = Len(text) /\ \A i \in 1 .. Len(text) : m[i] = 0 \/ m[i] = text[i]
Clear(word) == word \in Seq(Char) /\ Len(word) >= 2 /\ \A i \in 1 .. Len(word) : word[i] # 0
EndsAsItBegins(word) == Len(word) > 2 /\ word[1] = word[Len(word)]

\* What does not occur in a text does not occur in it masked.
LEMMA MaskAddsNothing ==
  ASSUME NEW text \in Seq(Char), NEW m, Masked(m, text), NEW w, Clear(w)
  PROVE  Occurrences(w, m) \subseteq Occurrences(w, text)
<1> SUFFICES ASSUME NEW i \in Occurrences(w, m) PROVE i \in Occurrences(w, text)
  OBVIOUS
<1>1. w \in Seq(Char) /\ m \in Seq(Char) /\ Len(m) = Len(text)
      /\ Len(w) \in Nat /\ Len(text) \in Nat
  BY LenProperties DEF Masked, Clear
<1>2. i \in Nat \ {0} /\ i + Len(w) - 1 <= Len(m) /\ \A k \in 1 .. Len(w) : m[i + k - 1] = w[k]
  BY <1>1, OccursAt
<1>3. ASSUME NEW k \in 1 .. Len(w)
      PROVE  text[i + k - 1] = w[k]
  <2>1. i + k - 1 \in 1 .. Len(text)
    BY <1>1, <1>2
  <2>2. m[i + k - 1] = w[k] /\ w[k] # 0
    BY <1>2 DEF Clear
  <2> QED BY <2>1, <2>2 DEF Masked
<1> QED BY <1>1, <1>2, <1>3, OccursAt

LEMMA MaskWordHides ==
  ASSUME NEW text \in Seq(Char), NEW w, Clear(w)
  PROVE  /\ Masked(MaskWord(text, w), text)
         /\ EndsAsItBegins(w) \/ Occurrences(w, MaskWord(text, w)) = {}
<1> DEFINE n == Len(w)
           found == Occurrences(w, text)
           chosen == Replaced(found, n)
           hidden == UNION {HiddenBy(w, i) : i \in chosen}
           m == MaskWord(text, w)
<1>1. w \in Seq(Char) /\ n \in Nat /\ n >= 2 /\ Len(text) \in Nat
  BY LenProperties DEF Clear
<1>2. m = [i \in 1 .. Len(text) |-> IF i \in hidden THEN 0 ELSE text[i]]
  BY DEF MaskWord
<1>3. Masked(m, text)
  <2> HIDE DEF hidden, m
  <2>1. \A i \in 1 .. Len(text) : text[i] \in Char /\ m[i] \in Char
    <3>1. \A i \in 1 .. Len(text) : text[i] \in Char
      BY ElementOfSeq
    <3> QED BY <1>2, <3>1 DEF Char
  <2>2. m \in [1 .. Len(text) -> Char]
    BY <1>2, <2>1
  <2>3. m \in Seq(Char) /\ Len(m) = Len(text)
    BY <1>1, <2>2, SeqDef, LenProperties
  <2> QED BY <1>2, <2>3 DEF Masked
<1>4. /\ chosen \subseteq found
      /\ \A i \in found : i \in chosen <=> Free(chosen, i, n)
  <2>1. found \subseteq 1 .. Len(text)
    <3> SUFFICES ASSUME NEW i \in found PROVE i \in 1 .. Len(text)
      OBVIOUS
    <3>1. i \in Nat \ {0} /\ i + n - 1 <= Len(text)
      BY <1>1, OccursAt
    <3> QED BY <1>1, <3>1
  <2> HIDE DEF found, n
  <2> QED BY <1>1, <2>1, ReplacedIsThere
<1>5. \A i \in chosen : HiddenBy(w, i) =
        IF n = 2 THEN {i + 1} ELSE (i + 1) .. (i + n - 2)
  <2>1. n # 1
    BY <1>1
  <2>2. CASE n = 2
    BY <2>1, <2>2, Zenon DEF HiddenBy
  <2>3. CASE n # 2
    BY <2>1, <2>3, Zenon DEF HiddenBy
  <2> QED BY <2>2, <2>3
<1>6. ASSUME NEW i \in Occurrences(w, m), ~EndsAsItBegins(w)
      PROVE  FALSE
  <2>1. /\ i \in found /\ i \in Nat \ {0} /\ i + n - 1 <= Len(text)
        /\ \A k \in 1 .. n : m[i + k - 1] = w[k] /\ text[i + k - 1] = w[k] /\ w[k] # 0
    <3>1. i \in found
      BY <1>3, <1>6, MaskAddsNothing
    <3>2. /\ i \in Nat \ {0} /\ i + n - 1 <= Len(text)
          /\ \A k \in 1 .. n : text[i + k - 1] = w[k]
      BY <1>1, <3>1, OccursAt
    <3>3. \A k \in 1 .. n : m[i + k - 1] = w[k]
      <4>1. m \in Seq(Char)
        BY <1>3 DEF Masked
      <4> HIDE DEF m
      <4> QED BY <1>1, <1>6, <4>1, OccursAt DEF m
    <3>4. \A k \in 1 .. n : w[k] # 0
      BY DEF Clear
    <3> QED BY <3>1, <3>2, <3>3, <3>4
  <2>2. \A j : j \in hidden /\ j \in 1 .. Len(text) => m[j] = 0
    <3> HIDE DEF hidden, m
    <3> QED BY <1>2
  <2>3. CASE i \in chosen
    <3>1. i + 1 \in HiddenBy(w, i)
      <4>1. HiddenBy(w, i) = IF n = 2 THEN {i + 1} ELSE (i + 1) .. (i + n - 2)
        BY <1>5, <2>3
      <4> HIDE DEF n
      <4> QED BY <1>1, <2>1, <4>1
    <3>2. i + 1 \in hidden
      BY <2>3, <3>1
    <3>3. 2 \in 1 .. n /\ i + 2 - 1 = i + 1 /\ i + 1 \in 1 .. Len(text)
      BY <1>1, <2>1
    <3>4. m[i + 1] = 0
      <4> HIDE DEF hidden, m
      <4> QED BY <2>2, <3>2, <3>3
    <3>5. m[i + 2 - 1] = w[2] /\ w[2] # 0
      <4> HIDE DEF m
      <4> QED BY <2>1, <3>3
    <3> HIDE DEF m
    <3> QED BY <3>3, <3>4, <3>5
  <2>4. CASE i \notin chosen
    <3>1. PICK j \in chosen : j < i /\ ~(j + n <= i)
      <4> HIDE DEF chosen, found, n
      <4> QED BY <1>4, <2>1, <2>4 DEF Free
    <3>2. /\ j \in Nat \ {0} /\ j + n - 1 <= Len(text)
          /\ \A k \in 1 .. n : text[j + k - 1] = w[k]
      <4>1. j \in found
        BY <1>4, <3>1
      <4> QED BY <1>1, <4>1, OccursAt
    <3>3. 1 \in 1 .. n /\ i + 1 - 1 = i /\ i \in 1 .. Len(text)
      BY <1>1, <2>1
    <3>4. m[i] # 0 /\ text[i] = w[1]
      <4> HIDE DEF m
      <4> QED BY <2>1, <3>3
    <3>5. i \notin HiddenBy(w, j)
      <4>1. i \notin hidden
        <5> HIDE DEF hidden, m
        <5> QED BY <2>2, <3>3, <3>4
      <4> QED BY <3>1, <4>1
    <3>6. n > 2 /\ i = j + n - 1
      <4>1. HiddenBy(w, j) = IF n = 2 THEN {j + 1} ELSE (j + 1) .. (j + n - 2)
        BY <1>5, <3>1
      <4>2. j < i /\ ~(j + n <= i) /\ i \in Nat /\ j \in Nat
        BY <2>1, <3>1, <3>2
      <4> HIDE DEF n
      <4> QED BY <1>1, <3>5, <4>1, <4>2
    <3>7. n \in 1 .. n /\ text[j + n - 1] = w[n]
      <4> HIDE DEF n
      <4> QED BY <1>1, <3>2
    <3> QED BY <1>6, <3>4, <3>6, <3>7 DEF EndsAsItBegins
  <2> QED BY <2>3, <2>4
<1> HIDE DEF m
<1> QED BY <1>3, <1>6 DEF m

\* The masks of a set of words, the longest first: a fold that ends with the
\* shortest.  As for the sums, one exists and says the same wherever it is
\* defined, by the smallest counterexample.
Shortest(words) == CHOOSE w \in words : \A v \in words : Len(w) <= Len(v)
MaskBody(text, g, words) ==
  IF words = {} THEN text ELSE MaskWord(g[words \ {Shortest(words)}], Shortest(words))
Masks(text, g, words) == g = [ws \in SUBSET words |-> MaskBody(text, g, ws)]

LEMMA MaskIsFold ==
  ASSUME NEW text, NEW words
  PROVE  MaskText(text, words) = (CHOOSE g : Masks(text, g, words))[words]
BY Zenon DEF MaskText, Masks, MaskBody, Shortest

LEMMA ShortestIsThere ==
  ASSUME NEW words, words # {}, words \subseteq Seq(Char)
  PROVE  Shortest(words) \in words
<1> DEFINE f == [w \in words |-> Len(w)]
<1>1. \A w \in words : f[w] \in Nat /\ f[w] = Len(w)
  BY LenProperties
<1>2. PICK w \in words : \A v \in words : f[w] <= f[v]
  <2> HIDE DEF f
  <2> QED BY <1>1, FirstIsThere
<1>3. \A v \in words : Len(w) <= Len(v)
  <2> HIDE DEF f
  <2> QED BY <1>1, <1>2
<1> QED BY <1>3 DEF Shortest

LEMMA MasksAgree ==
  ASSUME NEW text, NEW g, NEW h, NEW A, NEW B, Masks(text, g, A), Masks(text, h, B),
         NEW U, U \subseteq A, U \subseteq B, IsFiniteSet(U), U \subseteq Seq(Char)
  PROVE  g[U] = h[U]
<1> DEFINE Bad == {s \in SUBSET U : g[s] # h[s]}
<1> SUFFICES ASSUME Bad # {} PROVE FALSE
  OBVIOUS
<1>1. PICK T \in Bad : \A V \in Bad : ~(V \subseteq T /\ V # T)
  <2>1. Bad \subseteq SUBSET U
    OBVIOUS
  <2> HIDE DEF Bad
  <2> QED BY <2>1, SmallestIsThere
<1>2. T \subseteq U /\ g[T] # h[T]
  OBVIOUS
<1>3. g[T] = MaskBody(text, g, T) /\ h[T] = MaskBody(text, h, T)
  BY <1>2 DEF Masks
<1>4. T # {}
  BY <1>2, <1>3 DEF MaskBody
<1>5. Shortest(T) \in T
  BY <1>2, <1>4, ShortestIsThere
<1>6. g[T \ {Shortest(T)}] = h[T \ {Shortest(T)}]
  BY <1>1, <1>2, <1>5
<1> QED BY <1>2, <1>3, <1>4, <1>6 DEF MaskBody

LEMMA MasksExist ==
  ASSUME NEW text, NEW S, IsFiniteSet(S), S \subseteq Seq(Char)
  PROVE  \E g : Masks(text, g, S)
<1> DEFINE Has(T) == \E g : Masks(text, g, T)
           Bad == {T \in SUBSET S : ~Has(T)}
<1> SUFFICES ASSUME Bad # {} PROVE FALSE
  OBVIOUS
<1>1. PICK T \in Bad : \A V \in Bad : ~(V \subseteq T /\ V # T)
  <2>1. Bad \subseteq SUBSET S
    OBVIOUS
  <2> HIDE DEF Bad
  <2> QED BY <2>1, SmallestIsThere
<1>2. T \subseteq S /\ ~Has(T) /\ \A V : V \subseteq T /\ V # T => Has(V)
  BY <1>1
<1>3. \A V : V \subseteq T => IsFiniteSet(V) /\ V \subseteq Seq(Char)
  BY <1>2, FS_Subset
<1> DEFINE G(V) == CHOOSE g : Masks(text, g, V)
           Value(V) == G(V)[V]
           whole == IF T = {} THEN text ELSE MaskWord(Value(T \ {Shortest(T)}), Shortest(T))
           g == [s \in SUBSET T |-> IF s # T THEN Value(s) ELSE whole]
<1>4. \A V : V \subseteq T /\ V # T => Masks(text, G(V), V)
  BY <1>2
<1>5. T # {} => /\ Shortest(T) \in T
                /\ T \ {Shortest(T)} \subseteq T /\ T \ {Shortest(T)} # T
  BY <1>2, <1>3, ShortestIsThere
<1>6. ASSUME NEW s \in SUBSET T
      PROVE  g[s] = MaskBody(text, g, s)
  <2>1. CASE s = T
    <3>1. g[s] = whole
      BY <2>1
    <3>2. T # {} => g[T \ {Shortest(T)}] = Value(T \ {Shortest(T)})
      BY <1>5
    <3> HIDE DEF g, Value
    <3> QED BY <2>1, <3>1, <3>2 DEF MaskBody
  <2>2. CASE s # T
    <3>1. g[s] = Value(s) /\ Masks(text, G(s), s)
      BY <1>4, <2>2
    <3>2. Value(s) = MaskBody(text, G(s), s)
      <4> HIDE DEF G
      <4> QED BY <3>1 DEF Masks
    <3>3. CASE s = {}
      BY <3>1, <3>2, <3>3 DEF MaskBody
    <3>4. CASE s # {}
      <4>1. PICK c, r : c = Shortest(s) /\ r = s \ {c}
        OBVIOUS
      <4>2. c \in s /\ r \subseteq s /\ r \subseteq T /\ r # T /\ IsFiniteSet(r)
            /\ r \subseteq Seq(Char)
        BY <1>3, <3>4, <4>1, ShortestIsThere
      <4>3. Masks(text, G(r), r)
        BY <1>4, <4>2
      <4>4. G(s)[r] = G(r)[r]
        <5> HIDE DEF G
        <5> QED BY <3>1, <4>2, <4>3, MasksAgree
      <4>5. g[r] = Value(r)
        BY <4>2
      <4> HIDE DEF g, G
      <4> QED BY <3>1, <3>2, <3>4, <4>1, <4>4, <4>5 DEF MaskBody
    <3> QED BY <3>3, <3>4
  <2> QED BY <2>1, <2>2
<1>7. g = [s \in SUBSET T |-> MaskBody(text, g, s)]
  <2>1. \A h, d : (\A s \in SUBSET T : d[s] = MaskBody(text, h, s)) /\ d = [s \in SUBSET T |-> d[s]]
                 => d = [s \in SUBSET T |-> MaskBody(text, h, s)]
    BY Zenon
  <2>2. g = [s \in SUBSET T |-> g[s]]
    OBVIOUS
  <2> HIDE DEF g
  <2> QED BY <1>6, <2>1, <2>2
<1>8. Masks(text, g, T)
  BY <1>7, Zenon DEF Masks
<1> QED BY <1>2, <1>8

LEMMA MaskIsMask ==
  ASSUME NEW text \in Seq(Char), NEW words, IsFiniteSet(words), \A w \in words : Clear(w)
  PROVE  LET m == MaskText(text, words)
         IN  \A w \in words : EndsAsItBegins(w) \/ Occurrences(w, m) = {}
<1>1. words \subseteq Seq(Char)
  BY DEF Clear
<1>2. \E g : Masks(text, g, words)
  BY <1>1, MasksExist
<1>3. PICK g : g = CHOOSE x : Masks(text, x, words)
  OBVIOUS
<1>4. Masks(text, g, words) /\ MaskText(text, words) = g[words]
  BY <1>2, <1>3, MaskIsFold
<1> DEFINE Good(ws) ==
             /\ Masked(g[ws], text)
             /\ \A w \in ws : EndsAsItBegins(w) \/ Occurrences(w, g[ws]) = {}
           Bad == {ws \in SUBSET words : ~Good(ws)}
<1>5. Bad = {}
  <2> SUFFICES ASSUME Bad # {} PROVE FALSE
    OBVIOUS
  <2>1. PICK T \in Bad : \A V \in Bad : ~(V \subseteq T /\ V # T)
    <3>1. Bad \subseteq SUBSET words
      OBVIOUS
    <3> HIDE DEF Bad
    <3> QED BY <3>1, SmallestIsThere
  <2>2. T \subseteq words /\ ~Good(T) /\ \A V : V \subseteq T /\ V # T => Good(V)
    BY <2>1
  <2>3. g[T] = MaskBody(text, g, T)
    BY <1>4, <2>2 DEF Masks
  <2>4. CASE T = {}
    <3>1. g[T] = text
      BY <2>3, <2>4 DEF MaskBody
    <3>2. Masked(text, text)
      BY DEF Masked
    <3> QED BY <2>2, <2>4, <3>1, <3>2
  <2>5. CASE T # {}
    <3>1. PICK l, r : l = Shortest(T) /\ r = T \ {l}
      OBVIOUS
    <3>2. l \in T /\ Clear(l)
      BY <1>1, <2>2, <2>5, <3>1, ShortestIsThere
    <3>3. Good(r)
      BY <2>2, <3>1, <3>2
    <3>4. PICK t : t = g[r]
      OBVIOUS
    <3>5. g[T] = MaskWord(t, l)
      BY <2>3, <2>5, <3>1, <3>4 DEF MaskBody
    <3>6. Masked(t, text) /\ \A w \in r : EndsAsItBegins(w) \/ Occurrences(w, t) = {}
      BY <3>3, <3>4
    <3>7. t \in Seq(Char)
      BY <3>6 DEF Masked
    <3>8. /\ Masked(MaskWord(t, l), t)
          /\ EndsAsItBegins(l) \/ Occurrences(l, MaskWord(t, l)) = {}
      BY <3>2, <3>7, MaskWordHides
    <3>9. \A w \in r : EndsAsItBegins(w) \/ Occurrences(w, MaskWord(t, l)) = {}
      <4>1. \A w \in r : Occurrences(w, MaskWord(t, l)) \subseteq Occurrences(w, t)
        BY <2>2, <3>1, <3>7, <3>8, MaskAddsNothing
      <4> QED BY <3>6, <4>1
    <3>10. Masked(MaskWord(t, l), text)
      BY <3>6, <3>8 DEF Masked
    <3>11. Good(T)
      <4>1. \A w \in T : w \in r \/ w = l
        BY <3>1
      <4> QED BY <3>5, <3>8, <3>9, <3>10, <4>1
    <3> QED BY <2>2, <3>11
  <2> QED BY <2>4, <2>5
<1>6. words \notin Bad
  BY <1>5
<1>7. Good(words)
  BY <1>6
<1> QED BY <1>4, <1>7

\* What the hits of an audit are.
LEMMA HitsAreParts ==
  ASSUME NEW library, LibraryOK(library), NEW text \in Seq(Char),
         \A i \in 1 .. Len(text) : text[i] # 0, NEW w \in AllHits(Match(library, text))
  PROVE  /\ Clear(w) /\ Occurrences(w, text) # {} /\ Len(w) \in 1 .. Len(text)
         /\ \E i \in 1 .. Len(text), j \in 1 .. Len(text) : w = SubSeq(text, i, j)
<1>1. PICK l \in Levels : w \in Match(library, text)[l]
  BY DEF AllHits
<1>2. Match(library, text)[l] = {v \in WordsAt(library, l) : Occurrences(v, text) # {}}
      /\ WordSet(WordsAt(library, l))
  BY HitsOf
<1>3. w \in Seq(Char) /\ Len(w) \in Nat /\ Len(w) >= 2 /\ Occurrences(w, text) # {}
      /\ Len(text) \in Nat
  BY <1>1, <1>2, LenProperties DEF WordSet
<1>4. PICK i : i \in Occurrences(w, text)
  BY <1>3
<1>5. /\ i \in Nat \ {0} /\ i + Len(w) - 1 <= Len(text)
      /\ \A k \in 1 .. Len(w) : text[i + k - 1] = w[k]
  BY <1>3, <1>4, OccursAt
<1>6. Clear(w)
  <2> SUFFICES ASSUME NEW k \in 1 .. Len(w) PROVE w[k] # 0
    BY <1>3 DEF Clear
  <2>1. i + k - 1 \in 1 .. Len(text)
    BY <1>3, <1>5
  <2> QED BY <1>5, <2>1
<1>7. i \in 1 .. Len(text) /\ i + Len(w) - 1 \in 1 .. Len(text) /\ Len(w) \in 1 .. Len(text)
  BY <1>3, <1>5
<1>8. w = SubSeq(text, i, i + Len(w) - 1)
  BY <1>4 DEF Occurrences
<1> QED BY <1>3, <1>6, <1>7, <1>8

LEMMA HitsAreFew ==
  ASSUME NEW library, LibraryOK(library), NEW text \in Seq(Char),
         \A i \in 1 .. Len(text) : text[i] # 0
  PROVE  IsFiniteSet(AllHits(Match(library, text)))
<1> DEFINE n == Len(text)
           places == (1 .. n) \X (1 .. n)
           parts == {SubSeq(text, p[1], p[2]) : p \in places}
<1>1. IsFiniteSet(1 .. n)
  <2>1. 1 \in Int /\ n \in Int
    BY LenProperties
  <2> HIDE DEF n
  <2> QED BY <2>1, FS_Interval
<1>2. IsFiniteSet(places)
  <2> HIDE DEF n
  <2> QED BY <1>1, FS_Product
<1>3. IsFiniteSet(parts)
  <2> DEFINE cut == [p \in places |-> SubSeq(text, p[1], p[2])]
  <2>1. cut \in Surjection(places, parts)
    <3> HIDE DEF places
    <3> QED BY DEF Surjection
  <2> HIDE DEF places, parts, cut
  <2> QED BY <1>2, <2>1, FS_Surjection
<1>4. AllHits(Match(library, text)) \subseteq parts
  <2> SUFFICES ASSUME NEW w \in AllHits(Match(library, text)) PROVE w \in parts
    OBVIOUS
  <2>1. PICK i \in 1 .. n, j \in 1 .. n : w = SubSeq(text, i, j)
    BY HitsAreParts
  <2>2. <<i, j>> \in places /\ w = SubSeq(text, <<i, j>>[1], <<i, j>>[2])
    BY <2>1
  <2> HIDE DEF places
  <2> QED BY <2>2
<1> HIDE DEF parts
<1> QED BY <1>3, <1>4, FS_Subset

LEMMA ExcerptIsMasked ==
  ASSUME NEW lists, NEW surface, NEW text, NEW sites, MadeOf(lists, surface, text, sites)
  PROVE  ExcerptHides
<1> DEFINE hits == AllHits(audited.hits)
<1>1. audited.hits = Match(loaded, text)
  BY AuditFields
<1>2. audited.excerpt = MaskText(text, hits) \/ audited.excerpt = <<>>
  BY AuditFields
<1>3. LibraryOK(loaded) /\ text \in Seq(Char) /\ \A i \in 1 .. Len(text) : text[i] # 0
  BY DEF MadeOf
<1>4. IsFiniteSet(hits) /\ \A w \in hits : Clear(w)
  BY <1>1, <1>3, HitsAreFew, HitsAreParts
<1>5. \A w \in hits : EndsAsItBegins(w) \/ Occurrences(w, MaskText(text, hits)) = {}
  <2> HIDE DEF hits
  <2> QED BY <1>3, <1>4, MaskIsMask
<1>6. \A w \in hits : Occurrences(w, <<>>) = {}
  <2> HIDE DEF hits
  <2> SUFFICES ASSUME NEW w \in hits, NEW i \in Occurrences(w, <<>>) PROVE FALSE
    OBVIOUS
  <2>1. w \in Seq(Char) /\ Len(w) >= 2 /\ Len(w) \in Nat
    BY <1>4, LenProperties DEF Clear
  <2>2. <<>> \in Seq(Char) /\ Len(<<>>) = 0
    OBVIOUS
  <2>3. i \in Nat \ {0} /\ i + Len(w) - 1 <= 0
    <3>1. PICK s \in Seq(Char) : s = <<>>
      BY <2>2
    <3>2. Len(s) = 0 /\ i \in Occurrences(w, s)
      BY <2>2, <3>1
    <3> QED BY <2>1, <3>2, OccursAt
  <2> QED BY <2>1, <2>3
<1>7. \A w \in hits : EndsAsItBegins(w) \/ Occurrences(w, audited.excerpt) = {}
  <2> HIDE DEF hits
  <2> QED BY <1>2, <1>5, <1>6
<1> QED BY <1>7 DEF ExcerptHides, EndsAsItBegins

LEMMA SameWord ==
  ASSUME NEW u \in Seq(Char), NEW w \in Seq(Char), Occurrences(u, w) # {}
  PROVE  Len(u) <= Len(w) /\ (Len(u) = Len(w) => u = w)
<1>1. Len(u) \in Nat /\ Len(w) \in Nat
  BY LenProperties
<1>2. PICK i : i \in Occurrences(u, w)
  OBVIOUS
<1>3. /\ i \in Nat \ {0} /\ i + Len(u) - 1 <= Len(w)
      /\ \A k \in 1 .. Len(u) : w[i + k - 1] = u[k]
  BY <1>2, OccursAt
<1>4. ASSUME Len(u) = Len(w)
      PROVE  u = w
  <2>1. \A k \in 1 .. Len(u) : u[k] = w[k]
    <3> TAKE k \in 1 .. Len(u)
    <3>1. i = 1
      BY <1>1, <1>3, <1>4
    <3>2. i + k - 1 = k
      BY <3>1
    <3> QED BY <1>3, <3>2
  <2> QED BY <1>4, <2>1, SeqEqual
<1> QED BY <1>1, <1>3, <1>4

LEMMA EveryHitIsCovered ==
  ASSUME NEW lists, NEW surface, NEW text, NEW sites, MadeOf(lists, surface, text, sites)
  PROVE  ReasonCovers
<1> DEFINE hits == AllHits(audited.hits)
<1>1. audited.hits = Match(loaded, text) /\ Len(text) \in Nat
  BY AuditFields, LenProperties DEF MadeOf
<1>2. audited.blamed = "words" =>
        audited.named = UNION {CompactHits(audited.hits[l]) : l \in Levels}
  BY AuditFields
<1>3. LibraryOK(loaded) /\ text \in Seq(Char) /\ \A i \in 1 .. Len(text) : text[i] # 0
  BY DEF MadeOf
<1>4. \A w \in hits : w \in Seq(Char) /\ Len(w) \in Nat /\ Len(w) \in 0 .. Len(text)
  <2>1. \A w \in hits : Clear(w) /\ Len(w) \in 1 .. Len(text)
    BY <1>1, <1>3, HitsAreParts
  <2> HIDE DEF hits
  <2> QED BY <1>1, <2>1 DEF Clear
<1> SUFFICES ASSUME NEW l \in Levels, NEW w \in audited.hits[l]
             PROVE  \E covers \in CompactHits(audited.hits[l]) : Occurrences(w, covers) # {}
  BY <1>2 DEF ReasonCovers, AllHits
<1>5. \A v \in audited.hits[l] : v \in Seq(Char) /\ Len(v) \in Nat /\ Len(v) \in 0 .. Len(text)
  BY <1>4 DEF AllHits
<1> DEFINE atLevel == audited.hits[l]
           longer == {v \in atLevel : Occurrences(w, v) # {}}
           f == [v \in longer |-> Len(v)]
<1> HIDE DEF hits, atLevel
<1>6. w \in atLevel /\ \A v \in atLevel : v \in Seq(Char) /\ Len(v) \in Nat /\ Len(v) \in 0 .. Len(text)
  BY <1>5 DEF atLevel
<1>7. w \in longer
  <2>1. w \in Seq(Char) /\ Len(w) \in Nat
    BY <1>6
  <2>2. 1 \in Nat \ {0} /\ 1 + Len(w) - 1 <= Len(w) /\ \A k \in 1 .. Len(w) : w[1 + k - 1] = w[k]
    BY <2>1
  <2>3. 1 \in Occurrences(w, w)
    BY <2>1, <2>2, OccursAt
  <2> QED BY <1>6, <2>3
<1>8. PICK v \in longer : \A x \in longer : f[x] <= f[v]
  <2>1. \A x \in longer : f[x] \in 0 .. Len(text)
    BY <1>6
  <2> HIDE DEF longer, f
  <2> QED BY <1>1, <1>7, <2>1, LargestLength
<1>9. \A x \in longer : Len(x) <= Len(v)
  BY <1>8
<1>10. v \in CompactHits(atLevel)
  <2> SUFFICES ASSUME NEW x \in atLevel \ {v}, Occurrences(v, x) # {} PROVE FALSE
    BY DEF CompactHits
  <2>1. v \in atLevel /\ Occurrences(w, v) # {} /\ v \in Seq(Char) /\ x \in Seq(Char) /\ w \in Seq(Char)
    BY <1>6
  <2>2. Occurrences(w, x) # {}
    BY <2>1, OccursWithin
  <2>3. Len(x) <= Len(v)
    BY <1>9, <2>2
  <2>4. Len(v) <= Len(x) /\ (Len(v) = Len(x) => v = x)
    BY <2>1, SameWord
  <2>5. Len(v) \in Nat /\ Len(x) \in Nat
    BY <1>6, <2>1
  <2> HIDE DEF longer
  <2> QED BY <2>3, <2>4, <2>5
<1> QED BY <1>10 DEF atLevel

-----------------------------------------------------------------------------
(* The invariant.                                                          *)

WordInv ==
  /\ WordTypeOK
  /\ LibraryOK(loaded)
  /\ loaded # Unread /\ edits = 0 => loaded = ReadLibrary(wordFiles)
  /\ audited # NoAudit =>
       /\ loaded = Unread => wordFiles.categories # {}
       /\ \E lists, surface, text, sites : MadeOf(lists, surface, text, sites)

LEMMA WordStart == WordInit => WordInv
BY WordAssumption DEF WordInit, WordInv, WordTypeOK, LibraryOK

LEMMA AuditKeepsWords ==
  ASSUME WordInv, NEW surface \in Surfaces, NEW text \in Texts, NEW sites \in Sites,
         Audits(surface, text, sites)
  PROVE  WordInv'
<1>1. wordFiles \in Libraries
  BY DEF WordInv, WordTypeOK
<1>2. /\ loaded' = (IF loaded = Unread /\ Readable(wordFiles)
                    THEN ReadLibrary(wordFiles) ELSE loaded)
      /\ audited' = AuditOf(loaded', siteLists, surface, text, sites)
      /\ UNCHANGED <<wordFiles, siteLists, edits>>
  BY DEF Audits
<1>3. LibraryOK(loaded')
  BY <1>1, <1>2, LibraryIsOK DEF WordInv
<1>4. loaded' = Unread => wordFiles'.categories # {}
  BY <1>1, <1>2, LibraryIsOK DEF Readable
<1>5. loaded' # Unread /\ edits' = 0 => loaded' = ReadLibrary(wordFiles')
  BY <1>2 DEF WordInv
<1>6. text \in Seq(Char) /\ \A i \in 1 .. Len(text) : text[i] # 0
  BY TextsAreTexts
<1>7. MadeOf(siteLists, surface, text, sites)'
  BY <1>2, <1>3, <1>6 DEF MadeOf
<1>8. /\ audited'.surface = surface
      /\ audited'.verdict \in {"pass", "audit", "reject"}
  <2>1. /\ audited'.surface = surface
        /\ audited'.verdict = VerdictOn(loaded', siteLists, surface, text, sites, FALSE)
    BY <1>2, Zenon DEF AuditOf
  <2>2. \A hits, links : AuditText(hits, links, FALSE) \in {"pass", "audit", "reject"}
    BY DEF AuditText
  <2> QED BY <2>1, <2>2 DEF VerdictOn
<1>9. loaded' # Unread => DOMAIN loaded' = Levels
  BY <1>3 DEF LibraryOK
<1>10. WordTypeOK'
  BY <1>2, <1>8, <1>9 DEF WordInv, WordTypeOK
<1> QED BY <1>3, <1>4, <1>5, <1>7, <1>10 DEF WordInv

LEMMA WordStep == WordInv /\ [WordNext]_wordVars => WordInv'
<1> SUFFICES ASSUME WordInv, [WordNext]_wordVars PROVE WordInv'
  OBVIOUS
<1>1. CASE \E surface \in Surfaces, text \in Texts, sites \in Sites :
             audited = NoAudit /\ Audits(surface, text, sites)
  BY <1>1, AuditKeepsWords
<1>2. CASE \E files \in Libraries, lists \in SiteLists : EditsFiles(files, lists)
  BY <1>2, WordAssumption DEF EditsFiles, WordInv, WordTypeOK, LibraryOK
<1>3. CASE Restarts
  BY <1>3 DEF Restarts, WordInv, WordTypeOK, LibraryOK
<1>4. CASE UNCHANGED wordVars
  BY <1>4 DEF wordVars, WordInv, WordTypeOK, MadeOf
<1> QED BY <1>1, <1>2, <1>3, <1>4 DEF WordNext

\* Whatever the texts, the files and the lists of sites: the audit finds the
\* words of the library in use wherever they stand in a text, and is without
\* one only while a category lies among the files; its verdict does not soften
\* when a text or its links grow, and its notice hides what it is about (match,
\* audit_text, mask_text).
THEOREM WordsAreFound == WordSpec => []WordsHold
<1>1. WordInv => WordsHold
  <2> SUFFICES ASSUME WordInv PROVE WordsHold
    OBVIOUS
  <2>1. CASE audited = NoAudit
    BY <2>1 DEF WordsHold, FindsEveryWord, NeverMilder, NothingShown, ExcerptHides, ReasonCovers
  <2>2. CASE audited # NoAudit
    <3>1. PICK lists, surface, text, sites : MadeOf(lists, surface, text, sites)
      BY <2>2 DEF WordInv
    <3>2. FindsEveryWord
      BY <2>2, <3>1, EveryWordFound DEF WordInv, WordTypeOK
    <3> QED BY <3>1, <3>2, VerdictIsKept, NothingIsShown, ExcerptIsMasked,
               EveryHitIsCovered DEF WordsHold
  <2> QED BY <2>1, <2>2
<1> QED BY <1>1, WordStart, WordStep, PTL DEF WordSpec

-----------------------------------------------------------------------------
(* The spaces of users.  A page rests on what is read one statement after  *)
(* the other, so the invariant says of every kind already read that what   *)
(* is owed of it is among the rows, or a page of rows is not older.        *)

ActRow == [of : Kind \cup {"none"}, at : 0 .. LastSecond,
           thing : Thing \cup {"none"}, folder : Folder \cup {"none"}]
Browsing ==
  [at : {"idle", "follow", "like", "favourite", "fan"}, page : 0 .. SpacePages,
   may : SUBSET Switch, cursor : 1 .. LastSecond + 1, rows : SUBSET Act,
   shown : SUBSET Act, again : SUBSET Act, bare : SUBSET Act, due : SUBSET Act,
   edges : SUBSET Second, crowded : BOOLEAN, cut : BOOLEAN, ended : BOOLEAN]
CardRow ==
  [at : {"idle", "asked", "refused", "following", "followers", "counted", "answered"},
   following : Nat, follower : Nat, mutual : Nat, personal : BOOLEAN]
SavingRow ==
  [at : {"idle", "read", "committed", "answered"}, want : SUBSET Switch,
   seen : SUBSET Switch, row : BOOLEAN, got : SUBSET Switch, met : BOOLEAN]

SpaceTypes ==
  /\ visit \in Visit /\ own \in BOOLEAN /\ flags \in SUBSET Switch
  /\ made \in 0 .. LastAct /\ act \in [Act -> ActRow] /\ live \subseteq 1 .. made
  /\ second \in 0 .. LastSecond /\ open \in SUBSET Folder
  /\ browse \in Browsing
  /\ follows \in SUBSET Peer /\ fans \in SUBSET Peer /\ barred \in BOOLEAN
  /\ card \in CardRow /\ saved \in BOOLEAN /\ saving \in [Saver -> SavingRow]
  /\ saves \in 0 .. SpaceSaves /\ wasOn \in SUBSET Switch
  /\ spaceTurns \in 0 .. SpaceTurns

\* The rows there have been are of what the behaviour is about, and of a time that
\* has come; what a page shows or owes is among them.
RowsFit ==
  /\ \A a \in 1 .. made : act[a].of \in Looked /\ act[a].at \in 1 .. second
  /\ browse.shown \subseteq 1 .. made /\ browse.rows \subseteq 1 .. made
  /\ browse.due \subseteq live

WayFits ==
  /\ browse.at # "idle" =>
       /\ ~browse.ended /\ browse.page < SpacePages
       /\ \/ visit = "timeline" /\ browse.at \in {"follow", "like", "favourite"}
          \/ visit = "ledger"
  /\ browse.page = 0 => browse.cursor = LastSecond + 1
  /\ ~browse.ended => ~browse.cut
  /\ visit = "ledger" => browse.due = {}
  /\ \A a \in browse.rows : visit = "timeline" /\ browse.at # "idle"

\* What was shown is not before the cursor, the rows of the page are.
ShownFits ==
  /\ browse.again = {}
  /\ ~browse.ended => \A a \in browse.shown : browse.cursor <= act[a].at
  /\ \A a \in browse.rows : act[a].at < browse.cursor

\* The switches that were read have been on in this request.
OpenFits ==
  /\ browse.bare = {}
  /\ browse.at # "idle" /\ visit = "timeline" =>
       /\ browse.may \subseteq wasOn /\ can_view("favourite", browse.may)
       /\ \A a \in browse.rows : can_view(act[a].of, browse.may)
  /\ browse.at # "idle" /\ visit = "ledger" => can_view(browse.at, wasOn)

\* Of the kinds that have been read, what is owed is among the rows, or a page of
\* rows is not older.
ReadKinds(stage) ==
  CASE stage = "like" -> {"follow"}
    [] stage = "favourite" -> {"follow", "like"}
    [] OTHER -> {}
PageSince(t) ==
  \E R \in SUBSET browse.rows :
    Cardinality(R) >= PerPage /\ \A b \in R : act[b].at >= t
ReadFits(a) ==
  act[a].of \in ReadKinds(browse.at) /\ act[a].at < browse.cursor =>
    a \in browse.rows \/ PageSince(act[a].at)

DueFits ==
  visit = "timeline" =>
    \A a \in browse.due :
      /\ MayBeSeen(a, flags, open)
      /\ browse.at # "idle" => can_view(act[a].of, browse.may)
      /\ ReadFits(a)

BrowseInv ==
  RowsFit /\ WayFits /\ ShownFits /\ OpenFits /\ DueFits /\ NothingMissed

CardInv ==
  /\ card.at # "idle" => visit = "card" /\ flags \subseteq wasOn
  /\ card.at \in {"following", "followers"} => Cardinality(follows) <= card.following + spaceTurns
  /\ card.at = "followers" => Cardinality(fans) <= card.follower + spaceTurns
  /\ card.personal => card.at = "answered"
  /\ CountsFit /\ PersonalWasOn

SaveFits(w) ==
  /\ saving[w].at # "idle" => visit = "settings"
  /\ saving[w].at = "read" /\ ~saving[w].met => flags = saving[w].seen
  /\ saving[w].at = "committed" /\ ~saving[w].met => flags = saving[w].want
  /\ saving[w].at = "answered" /\ ~saving[w].met => saving[w].got = saving[w].want
SaveInv == \A w \in Saver : SaveFits(w)

SpacesInv == SpaceTypes /\ BrowseInv /\ CardInv /\ SaveInv

LEMMA SpaceNumbers ==
  /\ LastAct \in Nat /\ SpacePages \in Nat /\ SpaceSaves \in Nat /\ SpaceTurns \in Nat
  /\ LastSecond \in Nat /\ PerPage \in Nat /\ PerPage > 0 /\ FavBuffer \in Nat
BY SpaceAssumption

LEMMA SettingsAreSwitches == \A on \in Settings : on \in SUBSET Switch
BY SpaceAssumption DEF Switch

LEMMA PeersAreFinite == IsFiniteSet(Peer)
BY SpaceAssumption

LEMMA SpaceStart == SpaceInit => SpacesInv
<1> SUFFICES ASSUME SpaceInit PROVE SpacesInv
  OBVIOUS
<1> USE SpaceNumbers DEF SpaceInit
<1>1. SpaceTypes
  <2>1. NoBrowse \in Browsing
    BY DEF NoBrowse, Browsing, Switch, Act, Second
  <2>2. NoCard \in CardRow /\ NotSaving \in SavingRow
    BY DEF NoCard, CardRow, NotSaving, SavingRow
  <2>3. NoAct \in ActRow
    BY DEF NoAct, ActRow
  <2>4. flags \in SUBSET Switch
    BY SettingsAreSwitches DEF default_value, Switch
  <2> QED BY <2>1, <2>2, <2>3, <2>4 DEF SpaceTypes
<1>2. BrowseInv
  BY DEF BrowseInv, RowsFit, WayFits, ShownFits, OpenFits, DueFits, NothingMissed, NoBrowse
<1>3. CardInv
  BY DEF CardInv, NoCard, CountsFit, PersonalWasOn
<1>4. SaveInv
  BY DEF SaveInv, SaveFits, NotSaving
<1> QED BY <1>1, <1>2, <1>3, <1>4 DEF SpacesInv

-----------------------------------------------------------------------------
(* Pages.                                                                  *)

LEMMA ActsAreFinite == \A S : S \subseteq Act => IsFiniteSet(S) /\ Cardinality(S) \in Nat
<1>1. IsFiniteSet(Act)
  BY SpaceNumbers, FS_Interval DEF Act
<1> QED BY <1>1, FS_Subset, FS_CardinalityType

\* What is not on a full page is not newer than what is.
LEMMA LatestIsPast ==
  ASSUME NEW T, NEW E, E \subseteq Act, NEW n \in Nat, Latest(T, E, n), NEW b \in E \ T
  PROVE  /\ Cardinality(T) = n /\ Cardinality(E) > n
         /\ \A c \in T : act[c].at >= act[b].at
<1>1. T \subseteq E /\ T # E
  BY DEF Latest
<1>2. Cardinality(T) = n
  BY <1>1 DEF Latest
<1>3. IsFiniteSet(E) /\ Cardinality(E) \in Nat
  BY ActsAreFinite
<1>4. Cardinality(T) <= Cardinality(E) /\ Cardinality(T) # Cardinality(E)
  BY <1>1, <1>3, FS_Subset
<1>5. Cardinality(E) > n
  BY <1>2, <1>3, <1>4
<1> QED BY <1>2, <1>5 DEF Latest

\* If a page of rows is not older than t, neither is the page.
LEMMA LatestIsSince ==
  ASSUME NEW T, NEW E, E \subseteq Act, NEW n \in Nat, Latest(T, E, n),
         NEW t \in Nat, \A e \in E : act[e].at \in Nat,
         NEW R, R \subseteq E, Cardinality(R) >= n, \A b \in R : act[b].at >= t
  PROVE  Cardinality(T) = n /\ \A c \in T : act[c].at >= t
<1>1. T \subseteq E
  BY DEF Latest
<1>2. /\ IsFiniteSet(E) /\ Cardinality(E) \in Nat
      /\ IsFiniteSet(T) /\ Cardinality(T) \in Nat
      /\ IsFiniteSet(R) /\ Cardinality(R) \in Nat
  BY <1>1, ActsAreFinite
<1>3. Cardinality(R) <= Cardinality(E)
  BY <1>2, FS_Subset
<1>4. Cardinality(T) = n
  BY <1>2, <1>3 DEF Latest
<1>5. ASSUME NEW c \in T, ~(act[c].at >= t) PROVE FALSE
  <2>1. R \subseteq T
    <3>1. ASSUME NEW b \in R \ T PROVE FALSE
      <4>1. act[c].at >= act[b].at /\ act[b].at >= t
        BY <3>1 DEF Latest
      <4>2. act[c].at \in Nat /\ act[b].at \in Nat
        BY <1>1, <3>1
      <4> QED BY <1>5, <4>1, <4>2
    <3> QED BY <3>1
  <2>2. c \notin R
    BY <1>5
  <2>3. Cardinality(R) <= Cardinality(T) /\ (Cardinality(R) = Cardinality(T) => R = T)
    BY <1>2, <2>1, FS_Subset
  <2>4. R # T
    BY <1>5, <2>2
  <2> QED BY <1>2, <1>4, <2>3, <2>4
<1> QED BY <1>4, <1>5

-----------------------------------------------------------------------------
(* Types.                                                                  *)

LEMMA PagesAreTyped ==
  ASSUME SpaceTypes, NEW T, NEW E, E \subseteq Act, NEW due \in SUBSET Act, NEW more \in BOOLEAN,
         NEW crowded \in BOOLEAN, NEW exact \in BOOLEAN,
         browse.page < SpacePages, PageOfSpace(T, E, due, more, crowded, exact)
  PROVE  browse' \in Browsing
<1>1. PICK s \in Second :
        browse' = [browse EXCEPT
            !.at = "idle", !.page = @ + 1, !.rows = {}, !.due = due,
            !.shown = @ \cup T, !.again = @ \cup (browse.shown \cap T),
            !.bare = @ \cup {a \in T : ~can_view(act[a].of, wasOn')},
            !.cursor = IF more THEN s ELSE @,
            !.edges = IF more THEN @ \cup {s} ELSE @,
            !.crowded = @ \/ crowded, !.ended = ~more,
            !.cut = ~more /\ ~exact /\ Cardinality(T) = PerPage]
  BY DEF PageOfSpace
<1>2. browse \in Browsing
  BY DEF SpaceTypes
<1>3. T \subseteq Act
  BY DEF PageOfSpace, Latest
<1>4. s \in 1 .. LastSecond + 1 /\ browse.page + 1 \in 0 .. SpacePages
  BY <1>2, SpaceNumbers DEF Second, Browsing
<1>5. {a \in T : ~can_view(act[a].of, wasOn')} \subseteq Act
  BY <1>3
<1>6. /\ browse.shown \cup T \in SUBSET Act
      /\ browse.again \cup (browse.shown \cap T) \in SUBSET Act
      /\ browse.bare \cup {a \in T : ~can_view(act[a].of, wasOn')} \in SUBSET Act
      /\ (IF more THEN browse.edges \cup {s} ELSE browse.edges) \in SUBSET Second
      /\ (IF more THEN s ELSE browse.cursor) \in 1 .. LastSecond + 1
      /\ (browse.crowded \/ crowded) \in BOOLEAN
  BY <1>2, <1>3, <1>4, <1>5 DEF Browsing
<1> DEFINE n == browse.page + 1
           shown == browse.shown \cup T
           again == browse.again \cup (browse.shown \cap T)
           bare == browse.bare \cup {a \in T : ~can_view(act[a].of, wasOn')}
           cursor == IF more THEN s ELSE browse.cursor
           edges == IF more THEN browse.edges \cup {s} ELSE browse.edges
           crowds == browse.crowded \/ crowded
           ended == ~more
           cut == ~more /\ ~exact /\ Cardinality(T) = PerPage
<1>7. browse' = [browse EXCEPT
            !.at = "idle", !.page = n, !.rows = {}, !.due = due, !.shown = shown,
            !.again = again, !.bare = bare, !.cursor = cursor, !.edges = edges,
            !.crowded = crowds, !.ended = ended, !.cut = cut]
  BY <1>1, Zenon
<1>8. /\ n \in 0 .. SpacePages /\ shown \in SUBSET Act /\ again \in SUBSET Act
      /\ bare \in SUBSET Act /\ cursor \in 1 .. LastSecond + 1 /\ edges \in SUBSET Second
  BY <1>4, <1>6
<1>9. crowds \in BOOLEAN /\ ended \in BOOLEAN /\ cut \in BOOLEAN
  BY <1>6
<1> HIDE DEF n, shown, again, bare, cursor, edges, crowds, ended, cut
<1> QED BY <1>2, <1>7, <1>8, <1>9 DEF Browsing

LEMMA RowsAreActs ==
  ASSUME SpaceTypes
  PROVE  live \subseteq Act /\ \A k : RowsOfKind(k) \subseteq Act
<1>1. live \subseteq Act
  BY SpaceNumbers DEF SpaceTypes, Act
<1> QED BY <1>1 DEF RowsOfKind

LEMMA TypesOfChanges ==
  ASSUME SpaceTypes, RowsFit,
         \/ \E k \in Kind, x \in Thing, f \in Folder : Acts(k, x, f)
         \/ \E a \in Act : Undone(a) \/ LookedAgain(a)
         \/ \E f \in Folder : FolderTurns(f)
         \/ \E on \in Settings : SwitchesTurn(on)
         \/ \E p \in Peer : PeersChange(p)
         \/ NextSecond
  PROVE  SpaceTypes'
<1> USE SpaceNumbers
<1>b. /\ browse \in Browsing
      /\ \A S : [browse EXCEPT !.due = {a \in @ : a \in S}] \in Browsing
  <2>1. browse \in Browsing
    BY DEF SpaceTypes
  <2> QED BY <2>1 DEF Browsing
<1>t. SpaceTurn => spaceTurns' \in 0 .. SpaceTurns
  BY DEF SpaceTypes, SpaceTurn
<1>1. ASSUME NEW k \in Kind, NEW x \in Thing, NEW f \in Folder, Acts(k, x, f) PROVE SpaceTypes'
  <2>1. made + 1 \in Act /\ made' = made + 1
    <3>1. made < LastAct /\ made' = made + 1
      BY <1>1 DEF Acts
    <3>2. made \in 0 .. LastAct
      BY DEF SpaceTypes
    <3> QED BY <3>1, <3>2 DEF Act
  <2>2. act' \in [Act -> ActRow]
    <3>1. /\ act' = [act EXCEPT ![made + 1] =
               [NoAct EXCEPT !.of = k, !.at = second,
                     !.thing = IF k = "favourite" THEN x ELSE @,
                     !.folder = IF k = "favourite" THEN f ELSE @]]
      BY <1>1 DEF Acts
    <3>2. [NoAct EXCEPT !.of = k, !.at = second,
                     !.thing = IF k = "favourite" THEN x ELSE @,
                     !.folder = IF k = "favourite" THEN f ELSE @] \in ActRow
      BY DEF NoAct, ActRow, SpaceTypes
    <3> QED BY <2>1, <3>1, <3>2 DEF SpaceTypes
  <2>3. live' \subseteq 1 .. made' /\ made' \in 0 .. LastAct
    <3>1. live' = live \cup {made + 1} /\ live \subseteq 1 .. made /\ made \in 0 .. LastAct
      BY <1>1 DEF Acts, SpaceTypes
    <3> QED BY <2>1, <3>1 DEF Act
  <2>4. spaceTurns' \in 0 .. SpaceTurns
    BY <1>1, <1>t DEF Acts, SpaceTypes
  <2> QED BY <1>1, <2>2, <2>3, <2>4 DEF Acts, SpaceTypes, peerVars, saveVars
<1>2. ASSUME NEW a \in Act, Undone(a) PROVE SpaceTypes'
  <2>1. browse' \in Browsing
    <3>1. browse' = [browse EXCEPT !.due = @ \ {a}]
      BY <1>2 DEF Undone
    <3> QED BY <1>b, <3>1 DEF Browsing
  <2> QED BY <1>2, <1>t, <2>1 DEF Undone, SpaceTypes, peerVars, saveVars
<1>3. ASSUME NEW a \in Act, LookedAgain(a) PROVE SpaceTypes'
  <2>1. browse' \in Browsing
    <3>1. browse' = [browse EXCEPT !.due = @ \ {a}]
      BY <1>3 DEF LookedAgain
    <3> QED BY <1>b, <3>1 DEF Browsing
  <2>2. act' \in [Act -> ActRow]
    <3>1. act' = [act EXCEPT ![a].at = second]
      BY <1>3 DEF LookedAgain
    <3>2. [act[a] EXCEPT !.at = second] \in ActRow
      BY DEF SpaceTypes, ActRow
    <3> QED BY <3>1, <3>2 DEF SpaceTypes
  <2> QED BY <1>3, <1>t, <2>1, <2>2 DEF LookedAgain, SpaceTypes, peerVars, saveVars
<1>4. ASSUME NEW f \in Folder, FolderTurns(f) PROVE SpaceTypes'
  <2>1. PICK S : browse' = [browse EXCEPT !.due = {a \in @ : a \in S}]
    <3> DEFINE folders == IF f \in open THEN open \ {f} ELSE open \cup {f}
               S == {a \in browse.due : MayBeSeen(a, flags, folders)}
    <3>1. browse' = [browse EXCEPT !.due = S]
      BY <1>4 DEF FolderTurns
    <3>2. S = {a \in browse.due : a \in S}
      OBVIOUS
    <3> HIDE DEF S
    <3>3. browse' = [browse EXCEPT !.due = {a \in @ : a \in S}]
      BY <1>b, <3>1, <3>2 DEF Browsing
    <3> QED BY <3>3
  <2>2. browse' \in Browsing
    BY <1>b, <2>1
  <2>3. open' \in SUBSET Folder
    BY <1>4 DEF FolderTurns, SpaceTypes
  <2> QED BY <1>4, <1>t, <2>2, <2>3 DEF FolderTurns, SpaceTypes, peerVars, saveVars
<1>5. ASSUME NEW on \in Settings, SwitchesTurn(on) PROVE SpaceTypes'
  <2>1. browse' \in Browsing
    <3> DEFINE S == {a \in browse.due : MayBeSeen(a, on, open)}
    <3>1. browse' = [browse EXCEPT !.due = S]
      BY <1>5 DEF SwitchesTurn
    <3>2. S \in SUBSET Act
      BY <1>b DEF Browsing
    <3> HIDE DEF S
    <3> QED BY <1>b, <3>1, <3>2 DEF Browsing
  <2>2. flags' \in SUBSET Switch /\ wasOn' \in SUBSET Switch
    BY <1>5, SettingsAreSwitches DEF SwitchesTurn, SpaceTypes
  <2> QED BY <1>5, <1>t, <2>1, <2>2 DEF SwitchesTurn, SpaceTypes, rowVars, peerVars, saveVars
<1>6. ASSUME NEW p \in Peer, PeersChange(p) PROVE SpaceTypes'
  BY <1>6, <1>t DEF PeersChange, SpaceTypes, rowVars, saveVars
<1>7. ASSUME NextSecond PROVE SpaceTypes'
  BY <1>7 DEF NextSecond, SpaceTypes, peerVars, saveVars
<1> QED BY <1>1, <1>2, <1>3, <1>4, <1>5, <1>6, <1>7

LEMMA TypesOfPages ==
  ASSUME SpaceTypes, WayFits, RowsFit,
         \/ AsksTimeline \/ ReadsActs("follow", "like") \/ ReadsActs("like", "favourite")
         \/ ReadsKept \/ AsksHistory \/ ReadsLedger \/ \E k \in Kind : AsksLedger(k)
  PROVE  SpaceTypes'
<1> USE SpaceNumbers
<1>b. browse \in Browsing /\ flags \in SUBSET Switch
  BY DEF SpaceTypes
<1>1. CASE AsksTimeline
  <2>1. browse' \in Browsing
    <3> DEFINE seen == can_view("favourite", flags)
               owed == IF browse.page = 0 THEN {a \in live : MayBeSeen(a, flags, open)} ELSE browse.due
    <3>1. browse' = [browse EXCEPT
            !.at = IF seen THEN "follow" ELSE "idle", !.may = flags, !.due = owed,
            !.page = IF seen THEN @ ELSE @ + 1, !.ended = ~seen]
      BY <1>1, <1>b DEF AsksTimeline, Browsing
    <3>2. owed \in SUBSET Act
      BY <1>b, RowsAreActs DEF Browsing
    <3>3. browse.page < SpacePages
      BY <1>1 DEF AsksTimeline, MayAskSpace
    <3>4. seen \in BOOLEAN
      BY DEF can_view, SpaceTypes
    <3>5. (IF seen THEN browse.page ELSE browse.page + 1) \in 0 .. SpacePages
      <4>1. browse.page \in 0 .. SpacePages
        BY <1>b DEF Browsing
      <4> HIDE DEF seen
      <4> QED BY <3>3, <4>1
    <3> HIDE DEF owed, seen
    <3> QED BY <1>b, <3>1, <3>2, <3>4, <3>5 DEF Browsing
  <2> QED BY <1>1, <1>b, <2>1 DEF AsksTimeline, SpaceTypes, rowVars, peerVars, saveVars
<1>2. ASSUME NEW k \in {"follow", "like"}, NEW next \in {"like", "favourite"}, ReadsActs(k, next)
      PROVE  SpaceTypes'
  <2>1. PICK T \in SUBSET RowsOfKind(k) : browse' = [browse EXCEPT !.at = next, !.rows = @ \cup T]
    BY <1>2 DEF ReadsActs
  <2>2. T \subseteq Act
    BY RowsAreActs
  <2>3. browse' \in Browsing
    <3>1. browse.rows \cup T \in SUBSET Act
      BY <1>b, <2>2 DEF Browsing
    <3> QED BY <1>b, <2>1, <3>1 DEF Browsing
  <2> QED BY <1>2, <2>3 DEF ReadsActs, SpaceTypes, rowVars, peerVars, saveVars
<1>3. CASE ReadsKept
  <2>1. PICK F \in SUBSET KeptRows : \E K \in SUBSET F :
          \E T \in SUBSET (browse.rows \cup K) :
               PageOfSpace(T, browse.rows \cup K, browse.due, Cardinality(browse.rows \cup K) > PerPage,
                           F # KeptRows /\ Cardinality(K) < PerPage, FALSE)
    BY <1>3 DEF ReadsKept
  <2>2. PICK K \in SUBSET F : \E T \in SUBSET (browse.rows \cup K) :
               PageOfSpace(T, browse.rows \cup K, browse.due, Cardinality(browse.rows \cup K) > PerPage,
                           F # KeptRows /\ Cardinality(K) < PerPage, FALSE)
    BY <2>1
  <2>3. browse.rows \cup K \subseteq Act
    BY <1>b, RowsAreActs DEF KeptRows, Browsing
  <2>4. browse.page < SpacePages /\ browse.due \in SUBSET Act
    BY <1>3, <1>b DEF ReadsKept, WayFits, Browsing
  <2>5. (Cardinality(browse.rows \cup K) > PerPage) \in BOOLEAN
        /\ (F # KeptRows /\ Cardinality(K) < PerPage) \in BOOLEAN
    OBVIOUS
  <2>6. browse' \in Browsing
    BY <2>2, <2>3, <2>4, <2>5, PagesAreTyped
  <2> QED BY <1>3, <2>6 DEF ReadsKept, SpaceTypes, rowVars, peerVars, saveVars
<1>4. CASE AsksHistory
  <2> DEFINE owed == IF browse.page = 0 THEN live ELSE browse.due
  <2>1. PICK E \in SUBSET RowsOfKind("view") : \E T \in SUBSET E :
          PageOfSpace(T, E, owed, Cardinality(E) > PerPage, FALSE, TRUE)
    BY <1>4 DEF AsksHistory
  <2>2. E \subseteq Act /\ owed \in SUBSET Act
    BY <1>b, RowsAreActs DEF Browsing
  <2>3. browse.page < SpacePages /\ (Cardinality(E) > PerPage) \in BOOLEAN
    BY <1>4 DEF AsksHistory, MayAskSpace
  <2> HIDE DEF owed
  <2>4. browse' \in Browsing
    BY <2>1, <2>2, <2>3, PagesAreTyped
  <2> QED BY <1>4, <1>b, <2>4 DEF AsksHistory, SpaceTypes, rowVars, peerVars, saveVars
<1>5. CASE ReadsLedger
  <2>1. PICK T \in SUBSET RowsOfKind(browse.at) :
          PageOfSpace(T, RowsOfKind(browse.at), {}, FALSE, FALSE, TRUE)
    BY <1>5 DEF ReadsLedger
  <2>2. browse.page < SpacePages /\ RowsOfKind(browse.at) \subseteq Act /\ {} \in SUBSET Act
    BY <1>5, RowsAreActs DEF ReadsLedger, WayFits
  <2>4. browse' \in Browsing
    BY <2>1, <2>2, PagesAreTyped
  <2> QED BY <1>5, <2>4 DEF ReadsLedger, SpaceTypes, rowVars, peerVars, saveVars
<1>6. ASSUME NEW k \in Kind, AsksLedger(k) PROVE SpaceTypes'
  <2>1. k \in {"follow", "fan"} /\ browse.page < SpacePages
    BY <1>6 DEF AsksLedger, Looked, MayAskSpace
  <2>2. browse' = IF can_view(k, flags) THEN [browse EXCEPT !.at = k]
               ELSE [browse EXCEPT !.page = @ + 1, !.ended = TRUE]
    BY <1>6 DEF AsksLedger
  <2>3. browse' \in Browsing
    <3>1. browse.page + 1 \in 0 .. SpacePages
      <4>1. browse.page \in 0 .. SpacePages
        BY <1>b DEF Browsing
      <4> QED BY <2>1, <4>1
    <3> QED BY <1>b, <2>1, <2>2, <3>1 DEF Browsing
  <2> QED BY <1>6, <1>b, <2>3 DEF AsksLedger, SpaceTypes, rowVars, peerVars, saveVars
<1> QED BY <1>1, <1>2, <1>3, <1>4, <1>5, <1>6

LEMMA TypesOfOthers ==
  ASSUME SpaceTypes,
         \/ AsksCard \/ CountsFollowing \/ CountsFollowers \/ CountsMutual \/ CardAnswered
         \/ \E w \in Saver :
              \/ \E want \in Settings : SaveReads(w, want)
              \/ SaveCommits(w) \/ SaveFails(w) \/ SaveAnswered(w)
  PROVE  SpaceTypes'
<1> USE SpaceNumbers
<1>b. /\ card \in CardRow /\ flags \in SUBSET Switch /\ saving \in [Saver -> SavingRow]
      /\ saved \in BOOLEAN /\ own \in BOOLEAN
  BY DEF SpaceTypes
<1>c. Cardinality(follows) \in Nat /\ Cardinality(fans) \in Nat /\ Cardinality(follows \cap fans) \in Nat
  <2>1. follows \subseteq Peer /\ fans \subseteq Peer /\ follows \cap fans \subseteq Peer
    BY DEF SpaceTypes
  <2> QED BY <2>1, PeersAreFinite, FS_Subset, FS_CardinalityType
<1>1. CASE AsksCard \/ CountsFollowing \/ CountsFollowers \/ CountsMutual \/ CardAnswered
  <2>1. card' \in CardRow
    BY <1>1, <1>b, <1>c DEF AsksCard, CountsFollowing, CountsFollowers, CountsMutual, CardAnswered,
       CardTurns, CardRow
  <2>2. /\ UNCHANGED <<visit, own, flags, rowVars, browse, peerVars, saveVars, spaceTurns>>
        /\ wasOn' \in SUBSET Switch
    BY <1>1, <1>b DEF AsksCard, CountsFollowing, CountsFollowers, CountsMutual, CardAnswered,
       CardTurns, SpaceTypes
  <2> QED BY <2>1, <2>2 DEF SpaceTypes, rowVars, peerVars, saveVars
<1>2. ASSUME NEW w \in Saver, NEW want \in Settings, SaveReads(w, want) PROVE SpaceTypes'
  <2>1. [NotSaving EXCEPT !.at = "read", !.want = want, !.seen = flags, !.row = saved] \in SavingRow
    BY <1>b, SettingsAreSwitches DEF NotSaving, SavingRow
  <2>2. saving' \in [Saver -> SavingRow] /\ saves' \in 0 .. SpaceSaves
    <3>1. saves < SpaceSaves /\ saves' = saves + 1 /\ saves \in 0 .. SpaceSaves
      BY <1>2 DEF SaveReads, SpaceTypes
    <3>2. saving' = [saving EXCEPT ![w] = [NotSaving EXCEPT !.at = "read", !.want = want,
                                            !.seen = flags, !.row = saved]]
      BY <1>2 DEF SaveReads, SavingNext
    <3> QED BY <1>b, <2>1, <3>1, <3>2
  <2> QED BY <1>2, <2>2 DEF SaveReads, SpaceTypes, rowVars, peerVars
<1>3. ASSUME NEW w \in Saver, SaveCommits(w) PROVE SpaceTypes'
  <2>1. saving[w] \in SavingRow
    BY <1>b
  <2>2. flags' \in SUBSET Switch /\ saved' \in BOOLEAN
    BY <1>3, <1>b, <2>1 DEF SaveCommits, Written, SavingRow
  <2>3. saving' \in [Saver -> SavingRow]
    <3>1. \A v \in Saver : /\ [saving[v] EXCEPT !.at = "committed"] \in SavingRow
                           /\ [saving[v] EXCEPT !.met = TRUE] \in SavingRow
      BY <1>b DEF SavingRow
    <3>2. saving' = [v \in Saver |->
            IF v = w THEN [saving[v] EXCEPT !.at = "committed"] ELSE [saving[v] EXCEPT !.met = TRUE]]
      BY <1>3 DEF SaveCommits
    <3> QED BY <3>1, <3>2
  <2> QED BY <1>3, <2>2, <2>3 DEF SaveCommits, SpaceTypes, rowVars, peerVars
<1>4. ASSUME NEW w \in Saver, SaveFails(w) PROVE SpaceTypes'
  <2>1. NotSaving \in SavingRow
    BY DEF NotSaving, SavingRow
  <2>2. saving' \in [Saver -> SavingRow]
    BY <1>4, <1>b, <2>1 DEF SaveFails, SavingNext
  <2> QED BY <1>4, <2>2 DEF SaveFails, SpaceTypes, rowVars, peerVars
<1>5. ASSUME NEW w \in Saver, SaveAnswered(w) PROVE SpaceTypes'
  <2>1. [saving[w] EXCEPT !.at = "answered", !.got = flags] \in SavingRow
    BY <1>b DEF SavingRow
  <2>2. saving' \in [Saver -> SavingRow]
    BY <1>5, <1>b, <2>1 DEF SaveAnswered, SavingNext
  <2> QED BY <1>5, <2>2 DEF SaveAnswered, SpaceTypes, rowVars, peerVars
<1> QED BY <1>1, <1>2, <1>3, <1>4, <1>5

-----------------------------------------------------------------------------
(* The card and the switches.                                              *)

LEMMA CardStays ==
  ASSUME SpaceTypes, CardInv, UNCHANGED <<visit, own, flags, follows, fans, card>>,
         card.at = "idle" \/ wasOn \subseteq wasOn', spaceTurns' \in Nat, spaceTurns <= spaceTurns'
  PROVE  CardInv'
<1>1. /\ card.following \in Nat /\ card.follower \in Nat /\ card.mutual \in Nat
      /\ spaceTurns \in Nat /\ Cardinality(follows) \in Nat /\ Cardinality(fans) \in Nat
  <2>1. follows \subseteq Peer /\ fans \subseteq Peer
    BY DEF SpaceTypes
  <2> QED BY <2>1, PeersAreFinite, FS_Subset, FS_CardinalityType DEF SpaceTypes, CardRow
<1>2. CountsFit'
  BY <1>1 DEF CardInv, CountsFit
<1>3. PersonalWasOn'
  BY DEF CardInv, PersonalWasOn
<1>4. /\ card.at \in {"following", "followers"} => Cardinality(follows) <= card.following + spaceTurns'
      /\ card.at = "followers" => Cardinality(fans) <= card.follower + spaceTurns'
  BY <1>1 DEF CardInv
<1> QED BY <1>2, <1>3, <1>4 DEF CardInv

LEMMA TurnCounts ==
  ASSUME SpaceTypes, SpaceTurn
  PROVE  spaceTurns' = spaceTurns + 1 /\ spaceTurns \in Nat /\ spaceTurns' \in Nat
BY SpaceNumbers DEF SpaceTypes, SpaceTurn

LEMMA OneMore ==
  ASSUME NEW S, S \subseteq Peer, NEW p
  PROVE  /\ Cardinality(S) \in Nat
         /\ Cardinality(S \cup {p}) \in Nat /\ Cardinality(S \cup {p}) <= Cardinality(S) + 1
         /\ Cardinality(S \ {p}) \in Nat /\ Cardinality(S \ {p}) <= Cardinality(S)
<1>1. IsFiniteSet(S)
  BY PeersAreFinite, FS_Subset
<1>2. Cardinality(S) \in Nat /\ Cardinality(S \ {p}) \in Nat /\ Cardinality(S \ {p}) <= Cardinality(S)
  <2>1. IsFiniteSet(S \ {p})
    BY <1>1, FS_Subset
  <2> QED BY <1>1, <2>1, FS_Subset, FS_CardinalityType
<1>3. Cardinality(S \cup {p}) \in Nat /\ Cardinality(S \cup {p}) <= Cardinality(S) + 1
  <2>1. CASE p \in S
    <3>1. S \cup {p} = S
      BY <2>1
    <3> QED BY <1>2, <3>1
  <2>2. CASE p \notin S
    <3>1. Cardinality(S \cup {p}) = Cardinality(S) + 1
      BY <1>1, <2>2, FS_AddElement
    <3> QED BY <1>2, <3>1
  <2> QED BY <2>1, <2>2
<1> QED BY <1>2, <1>3

LEMMA OneChange ==
  ASSUME NEW S, S \subseteq Peer, NEW p, NEW new \in {S, S \cup {p}, S \ {p}}
  PROVE  /\ Cardinality(new) \in Nat /\ Cardinality(new) <= Cardinality(S) + 1
         /\ Cardinality(S) \in Nat
<1>1. CASE new = S
  <2>1. Cardinality(S) \in Nat
    BY OneMore
  <2> QED BY <1>1, <2>1
<1>2. CASE new = S \cup {p}
  BY <1>2, OneMore
<1>3. CASE new = S \ {p}
  <2>1. /\ Cardinality(S \ {p}) \in Nat /\ Cardinality(S \ {p}) <= Cardinality(S)
        /\ Cardinality(S) \in Nat
    BY OneMore
  <2> QED BY <1>3, <2>1
<1> QED BY <1>1, <1>2, <1>3

LEMMA CardOfChanges ==
  ASSUME SpaceTypes, CardInv,
         \/ \E k \in Kind, x \in Thing, f \in Folder : Acts(k, x, f)
         \/ \E a \in Act : Undone(a) \/ LookedAgain(a)
         \/ \E f \in Folder : FolderTurns(f)
         \/ \E on \in Settings : SwitchesTurn(on)
         \/ \E p \in Peer : PeersChange(p)
         \/ NextSecond
  PROVE  CardInv'
<1>n. spaceTurns \in Nat
  BY SpaceNumbers DEF SpaceTypes
<1>t. SpaceTurn => spaceTurns' \in Nat /\ spaceTurns <= spaceTurns'
  BY TurnCounts
<1>1. ASSUME \/ \E k \in Kind, x \in Thing, f \in Folder : Acts(k, x, f)
             \/ \E a \in Act : Undone(a) \/ LookedAgain(a)
             \/ \E f \in Folder : FolderTurns(f)
             \/ NextSecond
      PROVE  CardInv'
  <2>1. /\ UNCHANGED <<visit, own, flags, follows, fans, card, wasOn>>
        /\ SpaceTurn \/ spaceTurns' = spaceTurns
    BY <1>1 DEF Acts, Undone, LookedAgain, FolderTurns, NextSecond, peerVars
  <2> QED BY <1>n, <1>t, <2>1, CardStays
<1>2. ASSUME NEW on \in Settings, SwitchesTurn(on) PROVE CardInv'
  <2>1. /\ UNCHANGED <<visit, own, follows, fans, card>> /\ SpaceTurn
        /\ flags' = on /\ wasOn' = wasOn \cup on
    BY <1>2 DEF SwitchesTurn, peerVars
  <2>2. CountsFit' /\ PersonalWasOn'
    <3>1. card.mutual \in Nat /\ card.following \in Nat /\ card.follower \in Nat
      BY DEF SpaceTypes, CardRow
    <3>2. CountsFit'
      BY <1>n, <1>t, <2>1, <3>1 DEF CardInv, CountsFit
    <3> QED BY <2>1, <3>2 DEF CardInv, PersonalWasOn
  <2>3. /\ card.at \in {"following", "followers"} => Cardinality(follows) <= card.following + spaceTurns'
        /\ card.at = "followers" => Cardinality(fans) <= card.follower + spaceTurns'
    <3>1. card.following \in Nat /\ card.follower \in Nat
      BY DEF SpaceTypes, CardRow
    <3>2. Cardinality(follows) \in Nat /\ Cardinality(fans) \in Nat
      BY OneMore DEF SpaceTypes
    <3> QED BY <1>n, <1>t, <2>1, <3>1, <3>2 DEF CardInv
  <2> QED BY <2>1, <2>2, <2>3 DEF CardInv
<1>3. ASSUME NEW p \in Peer, PeersChange(p) PROVE CardInv'
  <2>1. UNCHANGED <<visit, own, flags, card, wasOn>> /\ SpaceTurn
    BY <1>3 DEF PeersChange
  <2>2. /\ follows' \in {follows, follows \cup {p}, follows \ {p}}
        /\ fans' \in {fans, fans \cup {p}, fans \ {p}}
    BY <1>3 DEF PeersChange
  <2>3. /\ Cardinality(follows') \in Nat /\ Cardinality(follows') <= Cardinality(follows) + 1
        /\ Cardinality(follows) \in Nat
    BY <2>2, OneChange DEF SpaceTypes
  <2>4. /\ Cardinality(fans') \in Nat /\ Cardinality(fans') <= Cardinality(fans) + 1
        /\ Cardinality(fans) \in Nat
    BY <2>2, OneChange DEF SpaceTypes
  <2>5. spaceTurns' = spaceTurns + 1
    BY <2>1, TurnCounts
  <2>6. card.mutual \in Nat /\ card.following \in Nat /\ card.follower \in Nat
    BY DEF SpaceTypes, CardRow
  <2>7. CountsFit'
    BY <1>n, <2>1, <2>5, <2>6 DEF CardInv, CountsFit
  <2>8. /\ card.at \in {"following", "followers"} => Cardinality(follows') <= card.following + spaceTurns'
        /\ card.at = "followers" => Cardinality(fans') <= card.follower + spaceTurns'
    BY <1>n, <2>3, <2>4, <2>5, <2>6 DEF CardInv
  <2> QED BY <2>1, <2>7, <2>8 DEF CardInv, PersonalWasOn
<1> QED BY <1>1, <1>2, <1>3

LEMMA CardOfSteps ==
  ASSUME SpaceTypes, CardInv,
         AsksCard \/ CountsFollowing \/ CountsFollowers \/ CountsMutual \/ CardAnswered
  PROVE  CardInv'
<1>b. card \in CardRow /\ own \in BOOLEAN /\ spaceTurns \in Nat
  BY SpaceNumbers DEF SpaceTypes
<1>c. /\ Cardinality(follows) \in Nat /\ Cardinality(fans) \in Nat
      /\ Cardinality(follows \cap fans) \in Nat
      /\ Cardinality(follows \cap fans) <= Cardinality(follows)
      /\ Cardinality(follows \cap fans) <= Cardinality(fans)
  <2>1. follows \subseteq Peer /\ fans \subseteq Peer /\ follows \cap fans \subseteq Peer
    BY DEF SpaceTypes
  <2>2. IsFiniteSet(follows) /\ IsFiniteSet(fans) /\ IsFiniteSet(follows \cap fans)
    BY <2>1, PeersAreFinite, FS_Subset
  <2>3. follows \cap fans \subseteq follows /\ follows \cap fans \subseteq fans
    OBVIOUS
  <2> QED BY <2>2, <2>3, FS_Subset, FS_CardinalityType
<1>1. CASE AsksCard
  BY <1>1, <1>b DEF AsksCard, CardTurns, CardRow, CardInv, CountsFit, PersonalWasOn, peerVars
<1>2. CASE CountsFollowing
  BY <1>2, <1>b, <1>c DEF CountsFollowing, CardTurns, CardRow, CardInv, CountsFit, PersonalWasOn, peerVars
<1>3. CASE CountsFollowers
  BY <1>3, <1>b, <1>c DEF CountsFollowers, CardTurns, CardRow, CardInv, CountsFit, PersonalWasOn, peerVars
<1>4. CASE CountsMutual
  BY <1>4, <1>b, <1>c DEF CountsMutual, CardTurns, CardRow, CardInv, CountsFit, PersonalWasOn, peerVars
<1>5. CASE CardAnswered
  BY <1>5, <1>b, <1>c DEF CardAnswered, CardTurns, CardRow, CardInv, CountsFit, PersonalWasOn, peerVars
<1> QED BY <1>1, <1>2, <1>3, <1>4, <1>5

\* Pages are asked for in other behaviours than the card is.
LEMMA CardOfPages ==
  ASSUME SpaceTypes, CardInv, WayFits,
         \/ AsksTimeline \/ ReadsActs("follow", "like") \/ ReadsActs("like", "favourite")
         \/ ReadsKept \/ AsksHistory \/ ReadsLedger \/ \E k \in Kind : AsksLedger(k)
  PROVE  CardInv'
<1>1. spaceTurns \in Nat
  BY SpaceNumbers DEF SpaceTypes
<1>2. visit # "card"
  BY DEF AsksTimeline, ReadsActs, ReadsKept, AsksHistory, ReadsLedger, AsksLedger
<1>3. UNCHANGED <<visit, own, flags, follows, fans, card, spaceTurns>>
  BY DEF AsksTimeline, ReadsActs, ReadsKept, AsksHistory, ReadsLedger, AsksLedger, peerVars
<1>4. card.at = "idle"
  BY <1>2 DEF CardInv
<1> QED BY <1>1, <1>3, <1>4, CardStays

LEMMA CardOfSaves ==
  ASSUME SpaceTypes, CardInv, SaveInv, NEW w \in Saver,
         \/ \E want \in Settings : SaveReads(w, want)
         \/ SaveCommits(w) \/ SaveFails(w) \/ SaveAnswered(w)
  PROVE  CardInv'
<1>1. spaceTurns \in Nat
  BY SpaceNumbers DEF SpaceTypes
<1>2. UNCHANGED <<visit, own, follows, fans, card, wasOn, spaceTurns>>
  BY DEF SaveReads, SaveCommits, SaveFails, SaveAnswered, peerVars
<1>3. CASE SaveCommits(w)
  <2>1. visit = "settings"
    BY <1>3 DEF SaveCommits, SaveInv, SaveFits
  <2>2. card.at = "idle"
    BY <2>1 DEF CardInv
  <2> QED BY <1>2, <2>2 DEF CardInv, CountsFit, PersonalWasOn
<1>4. CASE ~SaveCommits(w)
  <2>1. flags' = flags
    BY <1>4 DEF SaveReads, SaveFails, SaveAnswered
  <2> QED BY <1>1, <1>2, <2>1, CardStays
<1> QED BY <1>3, <1>4

LEMMA SavesOfOthers ==
  ASSUME SpaceTypes, SaveInv,
         \/ UNCHANGED <<visit, flags, saving>>
         \/ \E on \in Settings : SwitchesTurn(on)
  PROVE  SaveInv'
<1>1. CASE UNCHANGED <<visit, flags, saving>>
  BY <1>1 DEF SaveInv, SaveFits
<1>2. CASE \E on \in Settings : SwitchesTurn(on)
  <2>1. visit # "settings" /\ UNCHANGED <<visit, saving>>
    BY <1>2 DEF SwitchesTurn, saveVars
  <2>2. \A w \in Saver : saving[w].at = "idle"
    BY <2>1 DEF SaveInv, SaveFits
  <2> QED BY <2>1, <2>2 DEF SaveInv, SaveFits
<1> QED BY <1>1, <1>2

LEMMA SavesOfSteps ==
  ASSUME SpaceTypes, SaveInv, NEW w \in Saver,
         \/ \E want \in Settings : SaveReads(w, want)
         \/ SaveCommits(w) \/ SaveFails(w) \/ SaveAnswered(w)
  PROVE  SaveInv'
<1>b. saving \in [Saver -> SavingRow] /\ \A v \in Saver : saving[v] \in SavingRow
  BY DEF SpaceTypes
<1>f. flags \in SUBSET Switch
  BY DEF SpaceTypes
<1>1. ASSUME NEW want \in Settings, SaveReads(w, want) PROVE SaveInv'
  <2>1. visit' = visit /\ visit = "settings" /\ flags' = flags
        /\ saving' = [saving EXCEPT ![w] = [NotSaving EXCEPT !.at = "read", !.want = want,
                                            !.seen = flags, !.row = saved]]
    BY <1>1 DEF SaveReads, SavingNext
  <2>2. /\ saving'[w].at = "read" /\ saving'[w].seen = flags
        /\ \A v \in Saver \ {w} : saving'[v] = saving[v]
    BY <1>b, <2>1 DEF NotSaving
  <2>3. SaveFits(w)'
    BY <2>1, <2>2 DEF SaveFits
  <2>4. \A v \in Saver \ {w} : SaveFits(v)'
    BY <2>1, <2>2 DEF SaveInv, SaveFits
  <2> QED BY <2>3, <2>4 DEF SaveInv
<1>2. CASE SaveCommits(w)
  <2>1. /\ saving[w].at = "read" /\ visit' = visit /\ flags' = Written(saving[w])
        /\ saving' = [v \in Saver |->
              IF v = w THEN [saving[v] EXCEPT !.at = "committed"]
                       ELSE [saving[v] EXCEPT !.met = TRUE]]
    BY <1>2 DEF SaveCommits
  <2>2. /\ saving'[w].at = "committed" /\ saving'[w].want = saving[w].want
        /\ saving'[w].met = saving[w].met
        /\ \A v \in Saver \ {w} : saving'[v].met /\ saving'[v].at = saving[v].at
    BY <1>b, <2>1 DEF SavingRow
  <2>3. ~saving[w].met => Written(saving[w]) = saving[w].want
    <3>1. ~saving[w].met => flags = saving[w].seen
      BY <2>1 DEF SaveInv, SaveFits
    <3>2. (flags \ (flags \ saving[w].want)) \cup (saving[w].want \ flags) = saving[w].want
      OBVIOUS
    <3> QED BY <3>1, <3>2 DEF Written
  <2>4. SaveFits(w)'
    BY <2>1, <2>2, <2>3 DEF SaveInv, SaveFits
  <2>5. \A v \in Saver \ {w} : SaveFits(v)'
    BY <2>1, <2>2 DEF SaveInv, SaveFits
  <2> QED BY <2>4, <2>5 DEF SaveInv
<1>3. CASE SaveFails(w)
  <2>1. visit' = visit /\ flags' = flags /\ saving' = [saving EXCEPT ![w] = NotSaving]
    BY <1>3 DEF SaveFails, SavingNext
  <2>2. saving'[w].at = "idle" /\ \A v \in Saver \ {w} : saving'[v] = saving[v]
    BY <1>b, <2>1 DEF NotSaving
  <2>3. SaveFits(w)'
    BY <2>1, <2>2 DEF SaveFits
  <2>4. \A v \in Saver \ {w} : SaveFits(v)'
    BY <2>1, <2>2 DEF SaveInv, SaveFits
  <2> QED BY <2>3, <2>4 DEF SaveInv
<1>4. CASE SaveAnswered(w)
  <2>1. /\ visit' = visit /\ flags' = flags /\ saving[w].at = "committed"
        /\ saving' = [saving EXCEPT ![w] = [saving[w] EXCEPT !.at = "answered", !.got = flags]]
    BY <1>4 DEF SaveAnswered, SavingNext
  <2>2. /\ saving'[w].at = "answered" /\ saving'[w].got = flags
        /\ saving'[w].want = saving[w].want /\ saving'[w].met = saving[w].met
        /\ \A v \in Saver \ {w} : saving'[v] = saving[v]
    BY <1>b, <2>1 DEF SavingRow
  <2>3. SaveFits(w)'
    BY <2>1, <2>2 DEF SaveInv, SaveFits
  <2>4. \A v \in Saver \ {w} : SaveFits(v)'
    BY <2>1, <2>2 DEF SaveInv, SaveFits
  <2> QED BY <2>3, <2>4 DEF SaveInv
<1> QED BY <1>1, <1>2, <1>3, <1>4

-----------------------------------------------------------------------------
(* The pages while the space changes.                                      *)

\* Nothing that the pages rest on changes.
LEMMA PagesStay ==
  ASSUME BrowseInv, UNCHANGED <<visit, own, flags, made, act, live, second, open, browse>>,
         browse.at = "idle" \/ wasOn \subseteq wasOn'
  PROVE  BrowseInv'
<1>1. RowsFit' /\ WayFits' /\ ShownFits' /\ NothingMissed'
  BY DEF BrowseInv, RowsFit, WayFits, ShownFits, NothingMissed, Looked
<1>2. OpenFits'
  BY DEF BrowseInv, OpenFits, can_view, Needs
<1>3. DueFits'
  BY DEF BrowseInv, DueFits, MayBeSeen, InOpenFolder, can_view, Needs, ReadFits, ReadKinds, PageSince
<1> QED BY <1>1, <1>2, <1>3 DEF BrowseInv

LEMMA PagesWhenActed ==
  ASSUME SpaceTypes, BrowseInv, NEW k \in Kind, NEW x \in Thing, NEW f \in Folder, Acts(k, x, f)
  PROVE  BrowseInv'
<1>1. /\ made < LastAct /\ second > 0 /\ k \in Looked /\ made' = made + 1
      /\ live' = live \cup {made + 1}
      /\ UNCHANGED <<visit, own, flags, second, open, browse, wasOn>>
  BY DEF Acts
<1>2. made \in 0 .. LastAct /\ second \in 0 .. LastSecond /\ live \subseteq 1 .. made
      /\ act \in [Act -> ActRow]
  BY DEF SpaceTypes
<1>3. made + 1 \in Act /\ made + 1 \notin 1 .. made /\ 1 .. made \subseteq Act
      /\ 1 .. made' = (1 .. made) \cup {made + 1}
  BY <1>1, <1>2, SpaceNumbers DEF Act
<1>4. /\ \A a \in 1 .. made : act'[a] = act[a]
      /\ act'[made + 1].of = k /\ act'[made + 1].at = second
  <2>1. act' = [act EXCEPT ![made + 1] =
               [NoAct EXCEPT !.of = k, !.at = second,
                     !.thing = IF k = "favourite" THEN x ELSE @,
                     !.folder = IF k = "favourite" THEN f ELSE @]]
    BY DEF Acts
  <2> QED BY <1>2, <1>3, <2>1 DEF NoAct
<1>5. Looked' = Looked
  BY <1>1 DEF Looked
<1>6. RowsFit'
  <2>1. \A a \in 1 .. made' : act'[a].of \in Looked /\ act'[a].at \in 1 .. second
    BY <1>1, <1>2, <1>3, <1>4, SpaceNumbers DEF BrowseInv, RowsFit
  <2> QED BY <1>1, <1>3, <1>5, <2>1 DEF BrowseInv, RowsFit
<1>7. /\ browse.shown \subseteq 1 .. made /\ browse.rows \subseteq 1 .. made
      /\ browse.due \subseteq 1 .. made
  BY <1>2 DEF BrowseInv, RowsFit
<1>8. WayFits'
  BY <1>1 DEF BrowseInv, WayFits
<1>9. ShownFits'
  BY <1>1, <1>4, <1>7 DEF BrowseInv, ShownFits
<1>10. OpenFits'
  BY <1>1, <1>4, <1>7 DEF BrowseInv, OpenFits, can_view, Needs
<1>11. NothingMissed'
  BY <1>1, <1>4, <1>7 DEF BrowseInv, NothingMissed
<1>12. DueFits'
  <2> SUFFICES ASSUME visit = "timeline", NEW a \in browse.due
               PROVE  /\ MayBeSeen(a, flags, open)'
                      /\ browse.at # "idle" => can_view(act[a].of, browse.may)'
                      /\ ReadFits(a)'
    BY <1>1 DEF DueFits
  <2>1. act'[a] = act[a]
    BY <1>4, <1>7
  <2>2. /\ MayBeSeen(a, flags, open)
        /\ browse.at # "idle" => can_view(act[a].of, browse.may)
        /\ ReadFits(a)
    BY DEF BrowseInv, DueFits
  <2>3. ReadFits(a)'
    <3>1. PageSince(act[a].at) => PageSince(act[a].at)'
      BY <1>1, <1>4, <1>7, <2>1 DEF PageSince
    <3> QED BY <1>1, <2>1, <2>2, <3>1 DEF ReadFits, ReadKinds
  <2> QED BY <1>1, <2>1, <2>2, <2>3 DEF MayBeSeen, InOpenFolder, can_view, Needs
<1> QED BY <1>6, <1>8, <1>9, <1>10, <1>11, <1>12 DEF BrowseInv

\* The pages as they are, but for less that is owed.
LEMMA PagesOweLess ==
  ASSUME SpaceTypes, BrowseInv, UNCHANGED <<visit, own, made, act, second>>,
         NEW due, due \subseteq browse.due, due \subseteq live', live' \subseteq live,
         browse' = [browse EXCEPT !.due = due], wasOn \subseteq wasOn',
         visit = "timeline" => \A a \in due : MayBeSeen(a, flags', open')
  PROVE  BrowseInv'
<1>1. /\ browse'.due = due /\ browse'.at = browse.at /\ browse'.page = browse.page
      /\ browse'.may = browse.may /\ browse'.cursor = browse.cursor /\ browse'.rows = browse.rows
      /\ browse'.shown = browse.shown /\ browse'.again = browse.again /\ browse'.bare = browse.bare
      /\ browse'.edges = browse.edges /\ browse'.crowded = browse.crowded
      /\ browse'.cut = browse.cut /\ browse'.ended = browse.ended
  BY DEF SpaceTypes, Browsing
<1>2. RowsFit'
  BY <1>1 DEF BrowseInv, RowsFit, Looked
<1>3. WayFits'
  BY <1>1 DEF BrowseInv, WayFits
<1>4. ShownFits'
  BY <1>1 DEF BrowseInv, ShownFits
<1>5. OpenFits'
  BY <1>1 DEF BrowseInv, OpenFits, can_view, Needs
<1>6. NothingMissed'
  BY <1>1 DEF BrowseInv, NothingMissed
<1>7. DueFits'
  <2> SUFFICES ASSUME visit = "timeline", NEW a \in due
               PROVE  /\ MayBeSeen(a, flags, open)'
                      /\ browse.at # "idle" => can_view(act[a].of, browse.may)'
                      /\ ReadFits(a)'
    BY <1>1 DEF DueFits
  <2>2. /\ MayBeSeen(a, flags', open')
        /\ browse.at # "idle" => can_view(act[a].of, browse.may)
        /\ ReadFits(a)
    BY DEF BrowseInv, DueFits
  <2>3. ReadFits(a)'
    BY <1>1, <2>2 DEF ReadFits, ReadKinds, PageSince
  <2> QED BY <1>1, <2>2, <2>3 DEF MayBeSeen, InOpenFolder, can_view, Needs
<1> QED BY <1>2, <1>3, <1>4, <1>5, <1>6, <1>7 DEF BrowseInv

LEMMA PagesWhenLookedAgain ==
  ASSUME SpaceTypes, BrowseInv, NEW a \in Act, LookedAgain(a)
  PROVE  BrowseInv'
<1>1. /\ a \in live /\ act[a].of = "view" /\ act' = [act EXCEPT ![a].at = second]
      /\ browse' = [browse EXCEPT !.due = @ \ {a}]
      /\ UNCHANGED <<visit, own, flags, made, live, second, open, wasOn>>
  BY DEF LookedAgain
<1>2. live \subseteq 1 .. made /\ act \in [Act -> ActRow] /\ second \in 0 .. LastSecond
      /\ made \in 0 .. LastAct /\ browse \in Browsing
  BY DEF SpaceTypes
<1>3. /\ act'[a].of = "view" /\ act'[a].at = second
      /\ \A b \in Act : b # a => act'[b] = act[b]
  BY <1>1, <1>2 DEF ActRow
<1>4. /\ browse'.due = browse.due \ {a} /\ browse'.at = browse.at /\ browse'.page = browse.page
      /\ browse'.may = browse.may /\ browse'.cursor = browse.cursor /\ browse'.rows = browse.rows
      /\ browse'.shown = browse.shown /\ browse'.again = browse.again /\ browse'.bare = browse.bare
      /\ browse'.edges = browse.edges /\ browse'.crowded = browse.crowded
      /\ browse'.cut = browse.cut /\ browse'.ended = browse.ended
  BY <1>1, <1>2 DEF Browsing
<1>5. act[a].of \in Looked /\ act[a].at \in 1 .. second
  BY <1>1, <1>2 DEF BrowseInv, RowsFit
<1>6. visit = "history"
  BY <1>1, <1>5 DEF Looked
<1>7. browse.rows = {} /\ browse.at = "idle"
  BY <1>6 DEF BrowseInv, WayFits
<1>8. 1 .. made \subseteq Act
  BY <1>2, SpaceNumbers DEF Act
<1>9. RowsFit'
  <2>1. \A b \in 1 .. made : act'[b].of \in Looked /\ act'[b].at \in 1 .. second
    BY <1>1, <1>2, <1>3, <1>5, <1>8, SpaceNumbers DEF BrowseInv, RowsFit
  <2> QED BY <1>1, <1>4, <2>1 DEF BrowseInv, RowsFit, Looked
<1>10. WayFits'
  BY <1>1, <1>4, <1>6 DEF BrowseInv, WayFits
<1>11. ShownFits'
  <2>1. \A b \in browse.shown : act'[b].at >= act[b].at /\ act'[b].at \in Nat /\ act[b].at \in Nat
    <3>1. \A b \in 1 .. made : act[b].at \in 1 .. second
      BY DEF BrowseInv, RowsFit
    <3>2. browse.shown \subseteq 1 .. made
      BY DEF BrowseInv, RowsFit
    <3> QED BY <1>2, <1>3, <1>5, <1>8, <3>1, <3>2
  <2>2. browse.cursor \in Nat
    BY <1>2, SpaceNumbers DEF Browsing
  <2>3. ~browse.ended => \A b \in browse.shown : browse.cursor <= act'[b].at
    BY <2>1, <2>2 DEF BrowseInv, ShownFits
  <2> QED BY <1>4, <1>7, <2>3 DEF BrowseInv, ShownFits
<1>12. OpenFits'
  BY <1>4, <1>7 DEF BrowseInv, OpenFits
<1>13. NothingMissed'
  <2> SUFFICES ASSUME NEW b \in browse.due \ {a}
               PROVE  \/ b \in browse.shown
                      \/ ~browse.ended /\ act'[b].at < browse.cursor
                      \/ act'[b].at \in browse.edges
                      \/ browse.crowded \/ browse.cut
    BY <1>4 DEF NothingMissed
  <2>1. b \in 1 .. made
    BY <1>2 DEF BrowseInv, RowsFit
  <2>2. act'[b] = act[b] /\ act[b].of # "favourite"
    <3>1. act[b].of \in Looked
      BY <2>1 DEF BrowseInv, RowsFit
    <3> QED BY <1>3, <1>6, <1>8, <2>1, <3>1 DEF Looked
  <2> QED BY <2>2 DEF BrowseInv, NothingMissed
<1>14. DueFits'
  BY <1>1, <1>6 DEF DueFits
<1> QED BY <1>9, <1>10, <1>11, <1>12, <1>13, <1>14 DEF BrowseInv

LEMMA PagesOfChanges ==
  ASSUME SpaceTypes, BrowseInv,
         \/ \E a \in Act : Undone(a)
         \/ \E f \in Folder : FolderTurns(f)
         \/ \E on \in Settings : SwitchesTurn(on)
         \/ \E p \in Peer : PeersChange(p)
         \/ NextSecond
  PROVE  BrowseInv'
<1>b. browse \in Browsing
  BY DEF SpaceTypes
<1>1. ASSUME NEW a \in Act, Undone(a) PROVE BrowseInv'
  <2>1. /\ live' = live \ {a} /\ browse' = [browse EXCEPT !.due = browse.due \ {a}]
        /\ UNCHANGED <<visit, own, flags, made, act, second, open, wasOn>>
    BY <1>1 DEF Undone
  <2>2. browse.due \ {a} \subseteq live'
    BY <2>1 DEF BrowseInv, RowsFit
  <2>3. visit = "timeline" => \A b \in browse.due \ {a} : MayBeSeen(b, flags', open')
    BY <2>1 DEF BrowseInv, DueFits
  <2> DEFINE due == browse.due \ {a}
  <2>4. due \subseteq browse.due /\ live' \subseteq live
    BY <2>1
  <2> HIDE DEF due
  <2> QED BY <2>1, <2>2, <2>3, <2>4, PagesOweLess DEF due
<1>2. ASSUME NEW f \in Folder, FolderTurns(f) PROVE BrowseInv'
  <2> DEFINE due == {a \in browse.due : MayBeSeen(a, flags, open')}
  <2>1. /\ browse' = [browse EXCEPT !.due = due]
        /\ UNCHANGED <<visit, own, flags, made, act, live, second, wasOn>>
    BY <1>2 DEF FolderTurns
  <2>2. /\ due \subseteq browse.due /\ due \subseteq live' /\ live' \subseteq live
        /\ wasOn \subseteq wasOn' /\ \A a \in due : MayBeSeen(a, flags', open')
    BY <2>1 DEF BrowseInv, RowsFit
  <2> HIDE DEF due
  <2> QED BY <2>1, <2>2, PagesOweLess
<1>3. ASSUME NEW on \in Settings, SwitchesTurn(on) PROVE BrowseInv'
  <2> DEFINE due == {a \in browse.due : MayBeSeen(a, flags', open)}
  <2>1. /\ browse' = [browse EXCEPT !.due = due] /\ wasOn' = wasOn \cup on
        /\ UNCHANGED <<visit, own, made, act, live, second, open>>
    BY <1>3 DEF SwitchesTurn, rowVars
  <2>2. /\ due \subseteq browse.due /\ due \subseteq live' /\ live' \subseteq live
        /\ wasOn \subseteq wasOn' /\ \A a \in due : MayBeSeen(a, flags', open')
    BY <2>1 DEF BrowseInv, RowsFit
  <2> HIDE DEF due
  <2> QED BY <2>1, <2>2, PagesOweLess
<1>4. ASSUME NEW p \in Peer, PeersChange(p) PROVE BrowseInv'
  BY <1>4, PagesStay DEF PeersChange, rowVars
<1>5. CASE NextSecond
  <2>1. /\ second' = second + 1
        /\ UNCHANGED <<visit, own, flags, made, act, live, open, browse, wasOn>>
    BY <1>5 DEF NextSecond
  <2>2. RowsFit'
    <3>1. second \in Nat
      BY SpaceNumbers DEF SpaceTypes
    <3>2. \A a \in 1 .. made : act[a].of \in Looked /\ act[a].at \in 1 .. second + 1
      BY <3>1 DEF BrowseInv, RowsFit
    <3> QED BY <2>1, <3>2 DEF BrowseInv, RowsFit, Looked
  <2>3. WayFits' /\ ShownFits' /\ NothingMissed'
    BY <2>1 DEF BrowseInv, WayFits, ShownFits, NothingMissed
  <2>4. OpenFits'
    BY <2>1 DEF BrowseInv, OpenFits, can_view, Needs
  <2>5. DueFits'
    BY <2>1 DEF BrowseInv, DueFits, MayBeSeen, InOpenFolder, can_view, Needs, ReadFits, ReadKinds, PageSince
  <2> QED BY <2>2, <2>3, <2>4, <2>5 DEF BrowseInv
<1> QED BY <1>1, <1>2, <1>3, <1>4, <1>5

LEMMA PagesOfOthers ==
  ASSUME SpaceTypes, BrowseInv, SaveInv,
         \/ AsksCard \/ CountsFollowing \/ CountsFollowers \/ CountsMutual \/ CardAnswered
         \/ \E w \in Saver :
              \/ \E want \in Settings : SaveReads(w, want)
              \/ SaveCommits(w) \/ SaveFails(w) \/ SaveAnswered(w)
  PROVE  BrowseInv'
<1>1. CASE AsksCard \/ CountsFollowing \/ CountsFollowers \/ CountsMutual \/ CardAnswered
  <2>1. /\ visit = "card"
        /\ UNCHANGED <<visit, own, flags, made, act, live, second, open, browse>>
    BY <1>1 DEF AsksCard, CountsFollowing, CountsFollowers, CountsMutual, CardAnswered, CardTurns,
       rowVars
  <2>2. browse.at = "idle"
    BY <2>1 DEF BrowseInv, WayFits
  <2> QED BY <2>1, <2>2, PagesStay
<1>2. ASSUME NEW w \in Saver,
             \/ \E want \in Settings : SaveReads(w, want)
             \/ SaveFails(w) \/ SaveAnswered(w)
      PROVE  BrowseInv'
  <2>1. UNCHANGED <<visit, own, flags, made, act, live, second, open, browse, wasOn>>
    BY <1>2 DEF SaveReads, SaveFails, SaveAnswered, rowVars
  <2> QED BY <2>1, PagesStay
<1>3. ASSUME NEW w \in Saver, SaveCommits(w) PROVE BrowseInv'
  <2>1. /\ visit = "settings"
        /\ UNCHANGED <<visit, own, made, act, live, second, open, browse, wasOn>>
    BY <1>3 DEF SaveCommits, SaveInv, SaveFits, rowVars
  <2>2. RowsFit' /\ WayFits' /\ ShownFits' /\ NothingMissed'
    BY <2>1 DEF BrowseInv, RowsFit, WayFits, ShownFits, NothingMissed, Looked
  <2>3. OpenFits' /\ DueFits'
    BY <2>1 DEF BrowseInv, OpenFits, DueFits
  <2> QED BY <2>2, <2>3 DEF BrowseInv
<1> QED BY <1>1, <1>2, <1>3

-----------------------------------------------------------------------------
(* The pages themselves.                                                   *)

LEMMA TimelineIsAsked ==
  ASSUME SpaceTypes, BrowseInv, AsksTimeline
  PROVE  BrowseInv'
<1> DEFINE seen == can_view("favourite", flags)
           owed == IF browse.page = 0 THEN {a \in live : MayBeSeen(a, flags, open)} ELSE browse.due
<1>1. browse \in Browsing /\ live \subseteq 1 .. made /\ made \in 0 .. LastAct
      /\ second \in 0 .. LastSecond
  BY DEF SpaceTypes
<1>2. /\ visit = "timeline" /\ browse.at = "idle" /\ ~browse.ended /\ browse.page < SpacePages
      /\ wasOn' = flags /\ UNCHANGED <<visit, own, flags, made, act, live, second, open>>
  BY DEF AsksTimeline, MayAskSpace, rowVars
<1>3. browse' = [browse EXCEPT
          !.at = IF seen THEN "follow" ELSE "idle", !.may = flags, !.due = owed,
          !.page = IF seen THEN browse.page ELSE browse.page + 1, !.ended = ~seen]
  BY <1>1 DEF AsksTimeline, Browsing
<1>4. /\ browse'.at = (IF seen THEN "follow" ELSE "idle") /\ browse'.may = flags
      /\ browse'.due = owed /\ browse'.page = (IF seen THEN browse.page ELSE browse.page + 1)
      /\ browse'.ended = ~seen /\ browse'.cursor = browse.cursor /\ browse'.rows = browse.rows
      /\ browse'.shown = browse.shown /\ browse'.again = browse.again /\ browse'.bare = browse.bare
      /\ browse'.edges = browse.edges /\ browse'.crowded = browse.crowded /\ browse'.cut = browse.cut
  BY <1>1, <1>3 DEF Browsing
<1>6. owed \subseteq live /\ \A a \in owed : MayBeSeen(a, flags, open)
  BY <1>2 DEF BrowseInv, RowsFit, DueFits
<1>7. ~seen => owed = {}
  <2>1. \A a \in owed : MayBeSeen(a, flags, open)
    BY <1>6
  <2>2. \A a \in owed : can_view("favourite", flags)
    BY <1>2, <2>1 DEF MayBeSeen, can_view, Needs, Switch
  <2> HIDE DEF owed
  <2> QED BY <2>2
<1>8. \A a \in owed :
        \/ a \in browse.shown
        \/ act[a].at < browse.cursor
        \/ act[a].at \in browse.edges
        \/ act[a].of = "favourite" /\ \E b \in browse.shown : act[b].thing = act[a].thing
        \/ browse.crowded \/ browse.cut
  <2>1. CASE browse.page = 0
    <3>1. browse.cursor = LastSecond + 1
      BY <2>1 DEF BrowseInv, WayFits
    <3>2. \A a \in 1 .. made : act[a].at \in 1 .. second
      BY DEF BrowseInv, RowsFit
    <3>3. owed \subseteq 1 .. made
      BY <1>1, <1>6
    <3> HIDE DEF owed
    <3> QED BY <1>1, <3>1, <3>2, <3>3, SpaceNumbers
  <2>2. CASE browse.page # 0
    BY <1>2, <2>2 DEF BrowseInv, NothingMissed
  <2> QED BY <2>1, <2>2
<1> HIDE DEF owed
<1>9. RowsFit'
  BY <1>2, <1>4, <1>6 DEF BrowseInv, RowsFit, Looked
<1>10. WayFits'
  <2>2. ~seen => browse.page + 1 # 0
    <3>1. browse.page \in Nat
      BY <1>1, SpaceNumbers DEF Browsing
    <3> QED BY <3>1
  <2> HIDE DEF seen
  <2> QED BY <1>2, <1>4, <2>2 DEF BrowseInv, WayFits
<1>11. ShownFits'
  BY <1>2, <1>4 DEF BrowseInv, ShownFits
<1>12. OpenFits'
  <2> SUFFICES browse.rows = {}
    BY <1>2, <1>4 DEF BrowseInv, OpenFits, can_view, Needs
  <2> QED BY <1>2 DEF BrowseInv, WayFits
<1>13. NothingMissed'
  BY <1>2, <1>4, <1>7, <1>8 DEF NothingMissed
<1>14. DueFits'
  <2>1. \A a \in owed : MayBeSeen(a, flags', open') /\ can_view(act[a].of, flags)
    BY <1>2, <1>6 DEF MayBeSeen
  <2>2. ReadKinds(browse'.at) = {}
    BY <1>4 DEF ReadKinds
  <2>3. \A a : ReadFits(a)'
    BY <2>2 DEF ReadFits
  <2> HIDE DEF seen
  <2> QED BY <1>2, <1>4, <2>1, <2>3 DEF DueFits, MayBeSeen, InOpenFolder, can_view, Needs
<1> QED BY <1>9, <1>10, <1>11, <1>12, <1>13, <1>14 DEF BrowseInv

\* Of what was owed on the earlier pages everything is shown, or still to come.
LEMMA RowsAreRead ==
  ASSUME SpaceTypes, BrowseInv, NEW k \in {"follow", "like"}, NEW next \in {"like", "favourite"},
         (k = "follow" /\ next = "like") \/ (k = "like" /\ next = "favourite"),
         ReadsActs(k, next)
  PROVE  BrowseInv'
<1>1. browse \in Browsing /\ live \subseteq 1 .. made /\ made \in 0 .. LastAct
      /\ second \in 0 .. LastSecond
  BY DEF SpaceTypes
<1>2. /\ visit = "timeline" /\ browse.at = k
      /\ UNCHANGED <<visit, own, flags, made, act, live, second, open, wasOn>>
  BY DEF ReadsActs, rowVars
<1>3. PICK T \in SUBSET RowsOfKind(k) :
        /\ IF can_view(k, browse.may) THEN Latest(T, RowsOfKind(k), PerPage) ELSE T = {}
        /\ browse' = [browse EXCEPT !.at = next, !.rows = @ \cup T]
  BY DEF ReadsActs
<1>4. /\ browse'.at = next /\ browse'.rows = browse.rows \cup T /\ browse'.page = browse.page
      /\ browse'.due = browse.due /\ browse'.may = browse.may /\ browse'.cursor = browse.cursor
      /\ browse'.shown = browse.shown /\ browse'.again = browse.again /\ browse'.bare = browse.bare
      /\ browse'.edges = browse.edges /\ browse'.crowded = browse.crowded
      /\ browse'.cut = browse.cut /\ browse'.ended = browse.ended
  BY <1>1, <1>3 DEF Browsing
<1>5. \A a \in T : a \in live /\ act[a].of = k /\ act[a].at < browse.cursor
  BY DEF RowsOfKind
<1>6. RowsFit'
  BY <1>1, <1>2, <1>4, <1>5 DEF BrowseInv, RowsFit, Looked
<1>7. WayFits'
  BY <1>2, <1>4 DEF BrowseInv, WayFits
<1>8. ShownFits'
  BY <1>2, <1>4, <1>5 DEF BrowseInv, ShownFits
<1>9. OpenFits'
  BY <1>2, <1>3, <1>4, <1>5 DEF BrowseInv, OpenFits, can_view, Needs
<1>10. NothingMissed'
  BY <1>2, <1>4 DEF BrowseInv, NothingMissed
<1>11. DueFits'
  <2> SUFFICES ASSUME NEW a \in browse.due
               PROVE  /\ MayBeSeen(a, flags, open)'
                      /\ can_view(act[a].of, browse.may)'
                      /\ ReadFits(a)'
    BY <1>4 DEF DueFits
  <2>1. MayBeSeen(a, flags, open) /\ can_view(act[a].of, browse.may) /\ ReadFits(a)
    BY <1>2 DEF BrowseInv, DueFits
  <2>2. MayBeSeen(a, flags, open)' /\ can_view(act[a].of, browse.may)'
    BY <1>2, <1>4, <2>1 DEF MayBeSeen, InOpenFolder, can_view, Needs
  <2>3. PageSince(act[a].at) => PageSince(act[a].at)'
    BY <1>2, <1>4 DEF PageSince
  <2>4. ASSUME act[a].of = k, act[a].at < browse.cursor
        PROVE  a \in browse'.rows \/ PageSince(act[a].at)'
    <3>1. a \in RowsOfKind(k)
      BY <2>4 DEF RowsOfKind, BrowseInv, RowsFit
    <3>2. Latest(T, RowsOfKind(k), PerPage)
      BY <1>3, <2>1, <2>4
    <3>3. CASE a \in T
      BY <1>4, <3>3
    <3>4. CASE a \notin T
      <4>1. Cardinality(T) = PerPage /\ \A c \in T : act[c].at >= act[a].at
        BY <3>1, <3>2, <3>4, RowsAreActs, LatestIsPast, SpaceNumbers
      <4>2. Cardinality(T) >= PerPage
        BY <4>1, SpaceNumbers
      <4>3. T \in SUBSET browse'.rows /\ \A c \in T : act'[c].at >= act'[a].at
        BY <1>2, <1>4, <4>1
      <4> QED BY <4>2, <4>3 DEF PageSince
    <3> QED BY <3>3, <3>4
  <2>5. ReadKinds(browse'.at) \subseteq ReadKinds(browse.at) \cup {k}
    BY <1>2, <1>4 DEF ReadKinds
  <2>6. ReadFits(a)'
    <3> SUFFICES ASSUME act[a].of \in ReadKinds(browse'.at), act[a].at < browse.cursor
                 PROVE  a \in browse'.rows \/ PageSince(act[a].at)'
      BY <1>2, <1>4 DEF ReadFits, ReadKinds
    <3>1. CASE act[a].of = k
      BY <2>4, <3>1
    <3>2. CASE act[a].of \in ReadKinds(browse.at)
      BY <1>4, <2>1, <2>3, <3>2 DEF ReadFits
    <3> QED BY <2>5, <3>1, <3>2
  <2> QED BY <2>2, <2>6
<1> QED BY <1>6, <1>7, <1>8, <1>9, <1>10, <1>11 DEF BrowseInv

-----------------------------------------------------------------------------
(* A page that is shown.                                                   *)

\* What is owed is covered by the rows of a page if it is one of them, if another
\* of them stands for it, if a page of them is not older, or if the page cannot say.
CoveredBy(a, E) ==
  \/ a \in E
  \/ act[a].of = "favourite" /\ \E b \in E : act[b].thing = act[a].thing /\ act[b].at >= act[a].at
  \/ \E R \in SUBSET E : Cardinality(R) >= PerPage /\ \A b \in R : act[b].at >= act[a].at

LEMMA PageIsShown ==
  ASSUME SpaceTypes, BrowseInv, UNCHANGED <<visit, own, flags, made, act, live, second, open>>,
         NEW T, NEW E, E \subseteq 1 .. made, NEW due, NEW more \in BOOLEAN,
         NEW crowded \in BOOLEAN, NEW exact \in BOOLEAN,
         PageOfSpace(T, E, due, more, crowded, exact),
         ~browse.ended, browse.page < SpacePages, due \subseteq live,
         \A a \in E : act[a].at < browse.cursor,
         \A a \in E : can_view(act[a].of, wasOn'),
         visit = "ledger" => due = {},
         more => Cardinality(E) > PerPage,
         Cardinality(E) > PerPage => more \/ due = {},
         exact => more \/ \A a \in due : a \in E \/ act[a].at >= browse.cursor,
         visit = "timeline" => \A a \in due : MayBeSeen(a, flags, open),
         \A a \in due :
           \/ a \in browse.shown
           \/ act[a].at < browse.cursor
           \/ act[a].at \in browse.edges
           \/ act[a].of = "favourite" /\ \E b \in browse.shown : act[b].thing = act[a].thing
           \/ browse.crowded,
         \A a \in due : act[a].at < browse.cursor => CoveredBy(a, E) \/ crowded
  PROVE  BrowseInv'
<1>0. /\ browse \in Browsing /\ made \in 0 .. LastAct /\ second \in 0 .. LastSecond
      /\ live \subseteq 1 .. made /\ act \in [Act -> ActRow]
  BY DEF SpaceTypes
<1>1. PICK s \in Second :
        /\ \/ ~more
           \/ (\E a \in T : act[a].at = s) /\ \A a \in T : s <= act[a].at
        /\ browse' = [browse EXCEPT
            !.at = "idle", !.page = @ + 1, !.rows = {}, !.due = due,
            !.shown = @ \cup T, !.again = @ \cup (browse.shown \cap T),
            !.bare = @ \cup {a \in T : ~can_view(act[a].of, wasOn')},
            !.cursor = IF more THEN s ELSE @,
            !.edges = IF more THEN @ \cup {s} ELSE @,
            !.crowded = @ \/ crowded, !.ended = ~more,
            !.cut = ~more /\ ~exact /\ Cardinality(T) = PerPage]
  BY DEF PageOfSpace
<1>2. Latest(T, E, PerPage) /\ T \subseteq E
  BY DEF PageOfSpace, Latest
<1>3. /\ 1 .. made \subseteq Act
      /\ E \subseteq Act /\ \A e \in E : act[e].at \in Nat
      /\ \A a \in 1 .. made : act[a].at \in Nat
      /\ due \subseteq 1 .. made
  <2>1. 1 .. made \subseteq Act
    BY <1>0, SpaceNumbers DEF Act
  <2>2. \A a \in Act : act[a].at \in Nat
    BY <1>0, SpaceNumbers DEF ActRow
  <2> QED BY <1>0, <2>1, <2>2
<1>4. s \in Nat /\ browse.cursor \in Nat /\ browse.page \in Nat
  BY <1>0, SpaceNumbers DEF Browsing, Second
<1>5. /\ browse'.at = "idle" /\ browse'.page = browse.page + 1 /\ browse'.rows = {}
      /\ browse'.due = due /\ browse'.shown = browse.shown \cup T
      /\ browse'.again = browse.again \cup (browse.shown \cap T)
      /\ browse'.cursor = (IF more THEN s ELSE browse.cursor)
      /\ browse'.edges = (IF more THEN browse.edges \cup {s} ELSE browse.edges)
      /\ browse'.crowded = (browse.crowded \/ crowded) /\ browse'.ended = ~more
      /\ browse'.cut = (~more /\ ~exact /\ Cardinality(T) = PerPage)
  BY <1>0, <1>1 DEF Browsing
<1>6. browse'.bare = browse.bare \cup {a \in T : ~can_view(act[a].of, wasOn')}
  BY <1>0, <1>1 DEF Browsing
<1>7. RowsFit'
  BY <1>2, <1>5 DEF BrowseInv, RowsFit, Looked
<1>8. WayFits'
  BY <1>4, <1>5 DEF WayFits
<1>9. ShownFits'
  <2>1. browse.shown \cap T = {}
    <3>1. \A a \in browse.shown : browse.cursor <= act[a].at /\ act[a].at \in Nat
      BY <1>3 DEF BrowseInv, RowsFit, ShownFits
    <3>2. \A a \in T : act[a].at < browse.cursor /\ act[a].at \in Nat
      BY <1>2, <1>3
    <3> QED BY <1>4, <3>1, <3>2
  <2>2. more => \A a \in browse.shown \cup T : s <= act[a].at
    <3> SUFFICES ASSUME more, NEW a \in browse.shown \cup T PROVE s <= act[a].at
      OBVIOUS
    <3>1. PICK c \in T : act[c].at = s
      BY <1>1
    <3>2. s < browse.cursor
      BY <1>2, <3>1
    <3>3. CASE a \in T
      BY <1>1, <3>3
    <3>4. CASE a \in browse.shown
      <4>1. browse.cursor <= act[a].at /\ act[a].at \in Nat
        BY <1>3, <3>4 DEF BrowseInv, RowsFit, ShownFits
      <4> QED BY <1>4, <3>2, <4>1
    <3> QED BY <3>3, <3>4
  <2> QED BY <1>5, <2>1, <2>2 DEF BrowseInv, ShownFits
<1>10. OpenFits'
  <2>1. {a \in T : ~can_view(act[a].of, wasOn')} = {}
    BY <1>2
  <2> QED BY <1>5, <1>6, <2>1 DEF BrowseInv, OpenFits
<1>11. NothingMissed'
  <2> SUFFICES ASSUME NEW a \in due
               PROVE  \/ a \in browse'.shown
                      \/ ~browse'.ended /\ act[a].at < browse'.cursor
                      \/ act[a].at \in browse'.edges
                      \/ /\ act[a].of = "favourite"
                         /\ \E b \in browse'.shown : act[b].thing = act[a].thing
                      \/ browse'.crowded \/ browse'.cut
    BY <1>5 DEF NothingMissed
  <2>0. act[a].at \in Nat /\ PerPage \in Nat
    BY <1>3, SpaceNumbers
  <2>p. ASSUME more, \A c \in T : act[c].at >= act[a].at
        PROVE  (~browse'.ended /\ act[a].at < browse'.cursor) \/ act[a].at \in browse'.edges
    <3>1. PICK c \in T : act[c].at = s
      BY <1>1, <2>p
    <3>2. act[a].at <= s
      BY <2>p, <3>1
    <3>3. act[a].at < s \/ act[a].at = s
      BY <1>4, <2>0, <3>2
    <3>4. browse'.cursor = s /\ s \in browse'.edges /\ ~browse'.ended
      BY <1>5, <2>p
    <3> QED BY <3>3, <3>4
  <2>q. ASSUME NEW b \in E \ T, act[b].at >= act[a].at
        PROVE  (~browse'.ended /\ act[a].at < browse'.cursor) \/ act[a].at \in browse'.edges
    <3>1. Cardinality(E) > PerPage /\ \A c \in T : act[c].at >= act[b].at
      BY <1>2, <1>3, <2>0, <2>q, LatestIsPast
    <3>2. more
      BY <3>1
    <3>3. \A c \in T : act[c].at >= act[a].at
      <4>1. \A c \in T : act[c].at \in Nat
        BY <1>2, <1>3
      <4>2. act[b].at \in Nat
        BY <1>3, <2>q
      <4> QED BY <2>0, <2>q, <3>1, <4>1, <4>2
    <3> QED BY <2>p, <3>2, <3>3
  <2>1. CASE ~(act[a].at < browse.cursor)
    BY <1>5, <2>1
  <2>2. CASE act[a].at < browse.cursor
    <3>1. CASE crowded
      BY <1>5, <3>1
    <3>2. CASE a \in E
      <4>1. CASE a \in T
        BY <1>5, <4>1
      <4>2. CASE a \notin T
        BY <2>0, <2>q, <3>2, <4>2
      <4> QED BY <4>1, <4>2
    <3>3. CASE /\ act[a].of = "favourite"
               /\ \E b \in E : act[b].thing = act[a].thing /\ act[b].at >= act[a].at
      <4>1. PICK b \in E : act[b].thing = act[a].thing /\ act[b].at >= act[a].at
        BY <3>3
      <4>2. CASE b \in T
        BY <1>5, <3>3, <4>1, <4>2
      <4>3. CASE b \notin T
        BY <2>q, <4>1, <4>3
      <4> QED BY <4>2, <4>3
    <3>4. CASE \E R \in SUBSET E : Cardinality(R) >= PerPage /\ \A b \in R : act[b].at >= act[a].at
      <4>1. PICK R \in SUBSET E : Cardinality(R) >= PerPage /\ \A b \in R : act[b].at >= act[a].at
        BY <3>4
      <4>2. Cardinality(T) = PerPage /\ \A c \in T : act[c].at >= act[a].at
        <5>1. R \subseteq E /\ \A b \in R : act[b].at >= act[a].at
          BY <4>1
        <5>2. Cardinality(R) >= PerPage /\ E \subseteq Act /\ \A e \in E : act[e].at \in Nat
          BY <1>3, <4>1
        <5> QED BY <1>2, <2>0, <5>1, <5>2, LatestIsSince, Zenon
      <4>3. CASE more
        BY <2>p, <4>2, <4>3
      <4>4. CASE ~more
        <5>1. CASE ~exact
          BY <1>5, <4>2, <4>4, <5>1
        <5>2. CASE exact
          <6>1. a \in E
            BY <1>4, <2>0, <2>2, <4>4, <5>2
          <6> QED BY <3>2, <6>1
        <5> QED BY <5>1, <5>2
      <4> QED BY <4>3, <4>4
    <3> QED BY <2>2, <3>1, <3>2, <3>3, <3>4 DEF CoveredBy
  <2> QED BY <2>1, <2>2
<1>12. DueFits'
  <2>1. \A a : ReadFits(a)'
    BY <1>5 DEF ReadFits, ReadKinds
  <2> QED BY <1>5, <2>1 DEF DueFits, MayBeSeen, InOpenFolder, can_view, Needs
<1> QED BY <1>7, <1>8, <1>9, <1>10, <1>11, <1>12 DEF BrowseInv

LEMMA KeptIsShown ==
  ASSUME SpaceTypes, BrowseInv, ReadsKept
  PROVE  BrowseInv'
<1>1. /\ visit = "timeline" /\ browse.at = "favourite"
      /\ UNCHANGED <<visit, own, flags, made, act, live, second, open, wasOn>>
  BY DEF ReadsKept, rowVars
<1>2. PICK F \in SUBSET KeptRows : \E K \in SUBSET F :
        /\ Latest(F, KeptRows, PerPage * FavBuffer) /\ OncePerThing(K, F)
        /\ \E T \in SUBSET (browse.rows \cup K) :
             PageOfSpace(T, browse.rows \cup K, browse.due, Cardinality(browse.rows \cup K) > PerPage,
                         F # KeptRows /\ Cardinality(K) < PerPage, FALSE)
  BY DEF ReadsKept
<1>3. PICK K \in SUBSET F :
        /\ Latest(F, KeptRows, PerPage * FavBuffer) /\ OncePerThing(K, F)
        /\ \E T \in SUBSET (browse.rows \cup K) :
             PageOfSpace(T, browse.rows \cup K, browse.due, Cardinality(browse.rows \cup K) > PerPage,
                         F # KeptRows /\ Cardinality(K) < PerPage, FALSE)
  BY <1>2
<1> DEFINE E == browse.rows \cup K
           more == Cardinality(E) > PerPage
           crowded == F # KeptRows /\ Cardinality(K) < PerPage
<1>4. PICK T \in SUBSET E : PageOfSpace(T, E, browse.due, more, crowded, FALSE)
  BY <1>3
<1>5. /\ ~browse.ended /\ browse.page < SpacePages /\ ~browse.cut /\ browse.due \subseteq live
      /\ browse.may \subseteq wasOn /\ can_view("favourite", browse.may)
      /\ \A a \in browse.rows : can_view(act[a].of, browse.may) /\ act[a].at < browse.cursor
  BY <1>1 DEF BrowseInv, RowsFit, WayFits, ShownFits, OpenFits
<1>6. \A a \in K : a \in live /\ act[a].of = "favourite" /\ act[a].at < browse.cursor
  BY DEF KeptRows, RowsOfKind
<1>7. live \subseteq 1 .. made /\ 1 .. made \subseteq Act /\ KeptRows \subseteq Act
      /\ PerPage * FavBuffer \in Nat
  BY RowsAreActs, SpaceNumbers DEF SpaceTypes, Act, KeptRows
<1>8. E \subseteq 1 .. made
  BY <1>6, <1>7 DEF BrowseInv, RowsFit
<1>9. \A a \in E : act[a].at < browse.cursor /\ can_view(act[a].of, wasOn')
  <2>1. \A a \in E : act[a].at < browse.cursor /\ can_view(act[a].of, browse.may)
    BY <1>5, <1>6
  <2> HIDE DEF E
  <2> QED BY <1>1, <1>5, <2>1 DEF can_view
<1>10. \A a \in browse.due : MayBeSeen(a, flags, open)
  BY <1>1 DEF BrowseInv, DueFits
<1>11. \A a \in browse.due :
           \/ a \in browse.shown
           \/ act[a].at < browse.cursor
           \/ act[a].at \in browse.edges
           \/ act[a].of = "favourite" /\ \E b \in browse.shown : act[b].thing = act[a].thing
           \/ browse.crowded
  BY <1>5 DEF BrowseInv, NothingMissed
<1>12. ASSUME NEW a \in browse.due, act[a].at < browse.cursor PROVE CoveredBy(a, E) \/ crowded
  <2>1. a \in live /\ a \in 1 .. made /\ act[a].of \in {"follow", "like", "favourite"}
    BY <1>1, <1>5, <1>7 DEF BrowseInv, RowsFit, Looked
  <2>2. CASE act[a].of \in {"follow", "like"}
    <3>1. ReadFits(a)
      BY <1>1 DEF BrowseInv, DueFits
    <3>2. a \in browse.rows \/ PageSince(act[a].at)
      BY <1>1, <1>12, <2>2, <3>1 DEF ReadFits, ReadKinds
    <3>3. CASE a \in browse.rows
      BY <3>3 DEF CoveredBy
    <3>4. CASE PageSince(act[a].at)
      <4>1. PICK R \in SUBSET browse.rows : Cardinality(R) >= PerPage /\ \A b \in R : act[b].at >= act[a].at
        BY <3>4 DEF PageSince
      <4>2. R \in SUBSET E
        OBVIOUS
      <4> HIDE DEF E
      <4> QED BY <4>1, <4>2 DEF CoveredBy
    <3> QED BY <3>2, <3>3, <3>4
  <2>3. CASE act[a].of = "favourite"
    <3>1. a \in KeptRows
      BY <1>10, <1>12, <2>1, <2>3 DEF KeptRows, RowsOfKind, MayBeSeen
    <3>2. CASE a \in F
      <4>1. PICK b \in K : act[b].thing = act[a].thing /\ act[b].at >= act[a].at
        BY <1>3, <3>2 DEF OncePerThing
      <4>2. b \in E
        OBVIOUS
      <4> HIDE DEF E
      <4> QED BY <2>3, <4>1, <4>2 DEF CoveredBy
    <3>3. CASE a \notin F
      <4>1. \A c \in F : act[c].at >= act[a].at
        BY <1>3, <3>1, <3>3 DEF Latest
      <4>2. CASE Cardinality(K) < PerPage
        BY <3>1, <3>3, <4>2
      <4>3. CASE ~(Cardinality(K) < PerPage)
        <5>1. Cardinality(K) \in Nat
          <6>1. K \subseteq Act
            BY <1>7
          <6> QED BY <6>1, ActsAreFinite
        <5>2. Cardinality(K) >= PerPage /\ K \in SUBSET E /\ \A c \in K : act[c].at >= act[a].at
          BY <4>1, <4>3, <5>1, SpaceNumbers
        <5> HIDE DEF E
        <5> QED BY <5>2 DEF CoveredBy
      <4> QED BY <4>2, <4>3
    <3> QED BY <3>2, <3>3
  <2> QED BY <2>1, <2>2, <2>3
<1>13. more \in BOOLEAN /\ crowded \in BOOLEAN /\ (more => Cardinality(E) > PerPage)
       /\ (Cardinality(E) > PerPage => more) /\ visit # "ledger"
  BY <1>1
<1> HIDE DEF E, more, crowded
<1> QED
  <2> DEFINE exact == FALSE
  <2>1. exact \in BOOLEAN /\ ~exact /\ PageOfSpace(T, E, browse.due, more, crowded, exact)
    BY <1>4
  <2> HIDE DEF exact
  <2> QED BY <1>1, <1>5, <1>8, <1>9, <1>10, <1>11, <1>12, <1>13, <2>1, PageIsShown

LEMMA HistoryIsShown ==
  ASSUME SpaceTypes, BrowseInv, AsksHistory
  PROVE  BrowseInv'
<1> DEFINE due == IF browse.page = 0 THEN live ELSE browse.due
<1>1. /\ visit = "history" /\ ~browse.ended /\ browse.page < SpacePages
      /\ UNCHANGED <<visit, own, flags, made, act, live, second, open>>
  BY DEF AsksHistory, MayAskSpace, rowVars
<1>2. PICK E \in SUBSET RowsOfKind("view") : \E T \in SUBSET E :
        /\ Latest(E, RowsOfKind("view"), PerPage + 1)
        /\ PageOfSpace(T, E, due, Cardinality(E) > PerPage, FALSE, TRUE)
  BY DEF AsksHistory
<1> DEFINE more == Cardinality(E) > PerPage
<1>3. PICK T \in SUBSET E : PageOfSpace(T, E, due, more, FALSE, TRUE)
  BY <1>2
<1>4. Latest(E, RowsOfKind("view"), PerPage + 1)
  BY <1>2
<1>5. /\ due \subseteq live /\ live \subseteq 1 .. made /\ 1 .. made \subseteq Act
      /\ RowsOfKind("view") \subseteq 1 .. made
  <2>1. due \subseteq live
    BY DEF BrowseInv, RowsFit
  <2>2. live \subseteq 1 .. made /\ made \in 0 .. LastAct
    BY DEF SpaceTypes
  <2>3. 1 .. made \subseteq Act
    BY <2>2, SpaceNumbers DEF Act
  <2>4. RowsOfKind("view") \subseteq live
    BY DEF RowsOfKind
  <2> HIDE DEF due
  <2> QED BY <2>1, <2>2, <2>3, <2>4
<1>6. E \subseteq 1 .. made /\ E \subseteq Act /\ \A a \in E : act[a].at < browse.cursor
  BY <1>5 DEF RowsOfKind
<1>7. \A a \in E : can_view(act[a].of, wasOn')
  BY <1>1 DEF can_view, Needs
<1>8. \A a \in due : act[a].of = "view" /\ act[a].at \in Nat
  <2>1. \A a \in 1 .. made : act[a].of \in Looked /\ act[a].at \in 1 .. second
    BY DEF BrowseInv, RowsFit
  <2>2. second \in Nat /\ due \subseteq 1 .. made
    <3>1. second \in Nat
      BY SpaceNumbers DEF SpaceTypes
    <3> HIDE DEF due
    <3> QED BY <1>5, <3>1
  <2> HIDE DEF due
  <2> QED BY <1>1, <2>1, <2>2 DEF Looked
<1>9. \A a \in due :
           \/ a \in browse.shown
           \/ act[a].at < browse.cursor
           \/ act[a].at \in browse.edges
           \/ act[a].of = "favourite" /\ \E b \in browse.shown : act[b].thing = act[a].thing
           \/ browse.crowded
  <2>1. CASE browse.page = 0
    <3>1. browse.cursor = LastSecond + 1
      BY <2>1 DEF BrowseInv, WayFits
    <3>2. \A a \in 1 .. made : act[a].at \in 1 .. second
      BY DEF BrowseInv, RowsFit
    <3>3. due \subseteq 1 .. made /\ second \in 0 .. LastSecond
      BY <1>5 DEF SpaceTypes
    <3> HIDE DEF due
    <3> QED BY <3>1, <3>2, <3>3, SpaceNumbers
  <2>2. CASE browse.page # 0
    BY <1>1, <2>2 DEF BrowseInv, NothingMissed, WayFits
  <2> QED BY <2>1, <2>2
<1>10. ASSUME NEW a \in due, act[a].at < browse.cursor
       PROVE  a \in E \/ (more /\ CoveredBy(a, E))
  <2>1. a \in RowsOfKind("view")
    BY <1>5, <1>8, <1>10 DEF RowsOfKind
  <2>2. CASE a \notin E
    <3>1. Cardinality(E) = PerPage + 1 /\ \A c \in E : act[c].at >= act[a].at
      <4>1. PerPage + 1 \in Nat /\ RowsOfKind("view") \subseteq Act
        BY RowsAreActs, SpaceNumbers
      <4> QED BY <1>4, <2>1, <2>2, <4>1, LatestIsPast
    <3>2. Cardinality(E) >= PerPage /\ Cardinality(E) > PerPage
      BY <3>1, SpaceNumbers
    <3>3. E \in SUBSET E
      OBVIOUS
    <3> QED BY <3>1, <3>2, <3>3 DEF CoveredBy
  <2> QED BY <2>2
<1>11. \A a \in due : a \in E \/ act[a].at >= browse.cursor \/ more
  <2>1. browse.cursor \in Nat
    BY SpaceNumbers DEF SpaceTypes, Browsing
  <2> HIDE DEF due, more
  <2> QED BY <1>8, <1>10, <2>1
<1>12. \A a \in due : act[a].at < browse.cursor => CoveredBy(a, E)
  BY <1>10 DEF CoveredBy
<1>13. more \in BOOLEAN /\ (more => Cardinality(E) > PerPage)
       /\ (Cardinality(E) > PerPage => more) /\ visit # "ledger" /\ visit # "timeline"
  BY <1>1
<1> HIDE DEF due, more
<1> QED
  <2> DEFINE exact == TRUE
             crowded == FALSE
  <2>1. /\ exact \in BOOLEAN /\ crowded \in BOOLEAN
        /\ PageOfSpace(T, E, due, more, crowded, exact)
        /\ more \/ \A a \in due : a \in E \/ act[a].at >= browse.cursor
    BY <1>3, <1>11
  <2> HIDE DEF exact, crowded
  <2> QED BY <1>1, <1>5, <1>6, <1>7, <1>9, <1>12, <1>13, <2>1, PageIsShown

LEMMA LedgerIsShown ==
  ASSUME SpaceTypes, BrowseInv, ReadsLedger \/ \E k \in Kind : AsksLedger(k)
  PROVE  BrowseInv'
<1>1. CASE ReadsLedger
  <2>1. /\ visit = "ledger" /\ browse.at # "idle"
        /\ UNCHANGED <<visit, own, flags, made, act, live, second, open, wasOn>>
    BY <1>1 DEF ReadsLedger, rowVars
  <2> DEFINE E == RowsOfKind(browse.at)
             due == {}
             more == FALSE
  <2>2. PICK T \in SUBSET E : PageOfSpace(T, E, due, more, FALSE, TRUE)
    BY <1>1 DEF ReadsLedger
  <2>3. ~browse.ended /\ browse.page < SpacePages /\ can_view(browse.at, wasOn')
    BY <2>1 DEF BrowseInv, WayFits, OpenFits, can_view, Needs
  <2>4. E \subseteq 1 .. made /\ \A a \in E : act[a].of = browse.at /\ act[a].at < browse.cursor
    BY DEF SpaceTypes, RowsOfKind
  <2>5. /\ due = {} /\ due \subseteq live /\ more \in BOOLEAN /\ ~more /\ visit # "timeline"
        /\ \A a \in E : can_view(act[a].of, wasOn')
    BY <2>1, <2>3, <2>4
  <2> HIDE DEF E, due, more
  <2> DEFINE exact == TRUE
             crowded == FALSE
  <2>6. exact \in BOOLEAN /\ crowded \in BOOLEAN /\ PageOfSpace(T, E, due, more, crowded, exact)
    BY <2>2
  <2> HIDE DEF exact, crowded
  <2>7. /\ \A a \in E : act[a].at < browse.cursor
        /\ more => Cardinality(E) > PerPage
        /\ Cardinality(E) > PerPage => more \/ due = {}
        /\ \A a \in due : FALSE
    BY <2>4, <2>5
  <2>8. E \subseteq 1 .. made
    BY <2>4
  <2> QED BY <2>1, <2>3, <2>5, <2>6, <2>7, <2>8, PageIsShown
<1>2. ASSUME NEW k \in Kind, AsksLedger(k) PROVE BrowseInv'
  <2>1. /\ visit = "ledger" /\ browse.at = "idle" /\ ~browse.ended /\ browse.page < SpacePages
        /\ wasOn' = flags /\ k # "idle" /\ k \in Looked
        /\ UNCHANGED <<visit, own, flags, made, act, live, second, open>>
    BY <1>2 DEF AsksLedger, MayAskSpace, rowVars, Kind
  <2>2. browse' = IF can_view(k, flags) THEN [browse EXCEPT !.at = k]
               ELSE [browse EXCEPT !.page = @ + 1, !.ended = TRUE]
    BY <1>2 DEF AsksLedger
  <2>3. browse \in Browsing /\ browse.page \in Nat
    BY SpaceNumbers DEF SpaceTypes, Browsing
  <2>4. /\ browse'.due = browse.due /\ browse'.cursor = browse.cursor /\ browse'.rows = browse.rows
        /\ browse'.shown = browse.shown /\ browse'.again = browse.again /\ browse'.bare = browse.bare
        /\ browse'.edges = browse.edges /\ browse'.crowded = browse.crowded
        /\ browse'.cut = browse.cut
    BY <2>2, <2>3 DEF Browsing
  <2>5. browse.due = {} /\ browse.rows = {}
    BY <2>1 DEF BrowseInv, WayFits
  <2>6. \/ /\ can_view(k, flags) /\ browse'.at = k /\ browse'.page = browse.page
           /\ browse'.ended = browse.ended
        \/ browse'.at = "idle" /\ browse'.page = browse.page + 1 /\ browse'.ended = TRUE
    BY <2>1, <2>2, <2>3 DEF Browsing
  <2>7. RowsFit'
    BY <2>1, <2>4, <2>5 DEF BrowseInv, RowsFit, Looked
  <2>8. WayFits'
    BY <2>1, <2>3, <2>4, <2>5, <2>6 DEF BrowseInv, WayFits
  <2>9. ShownFits'
    BY <2>1, <2>4, <2>5, <2>6 DEF BrowseInv, ShownFits
  <2>10. OpenFits'
    BY <2>1, <2>4, <2>5, <2>6 DEF BrowseInv, OpenFits, can_view, Needs
  <2>11. NothingMissed' /\ DueFits'
    BY <2>1, <2>4, <2>5 DEF NothingMissed, DueFits
  <2> QED BY <2>7, <2>8, <2>9, <2>10, <2>11 DEF BrowseInv
<1> QED BY <1>1, <1>2

-----------------------------------------------------------------------------
(* The whole.                                                              *)

LEMMA SpaceStep == SpacesInv /\ [SpaceNext]_spaceVars => SpacesInv'
<1> SUFFICES ASSUME SpacesInv, [SpaceNext]_spaceVars PROVE SpacesInv'
  OBVIOUS
<1>0. SpaceTypes /\ BrowseInv /\ CardInv /\ SaveInv /\ RowsFit /\ WayFits
  BY DEF SpacesInv, BrowseInv
<1>1. CASE \/ \E k \in Kind, x \in Thing, f \in Folder : Acts(k, x, f)
           \/ \E a \in Act : Undone(a) \/ LookedAgain(a)
           \/ \E f \in Folder : FolderTurns(f)
           \/ \E on \in Settings : SwitchesTurn(on)
           \/ \E p \in Peer : PeersChange(p)
           \/ NextSecond
  <2>1. SpaceTypes'
    BY <1>0, <1>1, TypesOfChanges, Zenon
  <2>2. CardInv'
    BY <1>0, <1>1, CardOfChanges, Zenon
  <2>3. BrowseInv'
    BY <1>0, <1>1, PagesWhenActed, PagesWhenLookedAgain, PagesOfChanges, Zenon
  <2>4. SaveInv'
    <3>1. \/ UNCHANGED <<visit, flags, saving>>
          \/ \E on \in Settings : SwitchesTurn(on)
      BY <1>1 DEF Acts, Undone, LookedAgain, FolderTurns, PeersChange, NextSecond, saveVars
    <3> QED BY <1>0, <3>1, SavesOfOthers
  <2> QED BY <2>1, <2>2, <2>3, <2>4 DEF SpacesInv
<1>2. CASE \/ AsksTimeline \/ ReadsActs("follow", "like") \/ ReadsActs("like", "favourite")
           \/ ReadsKept \/ AsksHistory \/ ReadsLedger \/ \E k \in Kind : AsksLedger(k)
  <2>1. SpaceTypes'
    BY <1>0, <1>2, TypesOfPages, Zenon
  <2>2. CardInv'
    BY <1>0, <1>2, CardOfPages, Zenon
  <2>3. BrowseInv'
    <3>1. ReadsActs("follow", "like") \/ ReadsActs("like", "favourite") => BrowseInv'
      BY <1>0, RowsAreRead
    <3> QED BY <1>0, <1>2, <3>1, TimelineIsAsked, KeptIsShown, HistoryIsShown, LedgerIsShown, Zenon
  <2>4. SaveInv'
    <3>1. UNCHANGED <<visit, flags, saving>>
      BY <1>2 DEF AsksTimeline, ReadsActs, ReadsKept, AsksHistory, ReadsLedger, AsksLedger, saveVars
    <3> QED BY <1>0, <3>1, SavesOfOthers
  <2> QED BY <2>1, <2>2, <2>3, <2>4 DEF SpacesInv
<1>3. CASE \/ AsksCard \/ CountsFollowing \/ CountsFollowers \/ CountsMutual \/ CardAnswered
  <2>1. SpaceTypes' /\ BrowseInv' /\ CardInv'
    BY <1>0, <1>3, TypesOfOthers, PagesOfOthers, CardOfSteps, Zenon
  <2>2. SaveInv'
    <3>1. UNCHANGED <<visit, flags, saving>>
      BY <1>3 DEF AsksCard, CountsFollowing, CountsFollowers, CountsMutual, CardAnswered, CardTurns,
         saveVars
    <3> QED BY <1>0, <3>1, SavesOfOthers
  <2> QED BY <2>1, <2>2 DEF SpacesInv
<1>4. CASE \E w \in Saver :
             \/ \E want \in Settings : SaveReads(w, want)
             \/ SaveCommits(w) \/ SaveFails(w) \/ SaveAnswered(w)
  <2>1. SpaceTypes' /\ BrowseInv'
    BY <1>0, <1>4, TypesOfOthers, PagesOfOthers, Zenon
  <2>2. CardInv' /\ SaveInv'
    BY <1>0, <1>4, CardOfSaves, SavesOfSteps, Zenon
  <2> QED BY <2>1, <2>2 DEF SpacesInv
<1>5. CASE UNCHANGED spaceVars
  <2>1. /\ UNCHANGED <<visit, own, flags, made, act, live, second, open, browse>>
        /\ UNCHANGED <<follows, fans, barred, card, saved, saving, saves, wasOn, spaceTurns>>
    BY <1>5 DEF spaceVars
  <2>2. SpaceTypes'
    BY <1>0, <2>1 DEF SpaceTypes
  <2>3. BrowseInv'
    BY <1>0, <2>1, PagesStay
  <2>4. CardInv' /\ SaveInv'
    BY <1>0, <2>1, SavesOfOthers DEF CardInv, CountsFit, PersonalWasOn
  <2> QED BY <2>2, <2>3, <2>4 DEF SpacesInv
<1> QED BY <1>1, <1>2, <1>3, <1>4, <1>5, Zenon DEF SpaceNext

LEMMA SpacesAreTyped == SpaceSpec => []SpaceTypeOK
<1>1. SpacesInv => SpaceTypeOK
  <2> SUFFICES ASSUME SpacesInv PROVE SpaceTypeOK
    OBVIOUS
  <2>1. \A a \in live : act[a].of \in Kind /\ act[a].at \in 1 .. second
    <3>1. Looked \subseteq Kind
      BY DEF Looked, Kind
    <3> QED BY <3>1 DEF SpacesInv, SpaceTypes, BrowseInv, RowsFit
  <2>2. /\ browse.at \in {"idle", "follow", "like", "favourite", "fan"} /\ browse.page \in 0 .. SpacePages
        /\ browse.cursor \in 1 .. LastSecond + 1 /\ browse.may \subseteq Switch
        /\ browse.rows \cup browse.shown \cup browse.due \subseteq Act /\ browse.edges \subseteq Second
    <3>1. browse \in Browsing
      BY DEF SpacesInv, SpaceTypes
    <3> QED BY <3>1 DEF Browsing
  <2>3. card.following \in Nat /\ card.follower \in Nat /\ card.mutual \in Nat
    BY DEF SpacesInv, SpaceTypes, CardRow
  <2>4. \A w \in Saver : saving[w].want \cup saving[w].seen \cup saving[w].got \subseteq Switch
    <3>1. \A w \in Saver : saving[w] \in SavingRow
      BY DEF SpacesInv, SpaceTypes
    <3> QED BY <3>1 DEF SavingRow
  <2> QED BY <2>1, <2>2, <2>3, <2>4 DEF SpacesInv, SpaceTypes, SpaceTypeOK
<1> QED BY <1>1, SpaceStart, SpaceStep, PTL DEF SpaceSpec

\* Whoever looks at a space is shown no row twice, none that its owner had hidden
\* during the whole request, and all that was there when the viewer began and has
\* remained but for the cases named; the numbers of the card are apart by what
\* happened meanwhile; and who saves the switches alone is told what was asked for
\* (space_timeline.py, space_view_history.py, space_privacy.py, get_space_info).
THEOREM SpacesAreShown == SpaceSpec => []SpacesHold
<1>1. SpacesInv => SpacesHold
  <2> SUFFICES ASSUME SpacesInv PROVE SpacesHold
    OBVIOUS
  <2>1. SeenOnce /\ SeenWasOpen /\ NothingMissed
    BY DEF SpacesInv, BrowseInv, ShownFits, OpenFits, SeenOnce, SeenWasOpen
  <2>2. CountsFit /\ PersonalWasOn
    BY DEF SpacesInv, CardInv
  <2>3. SavesAreWhole
    BY DEF SpacesInv, SaveInv, SaveFits, SavesAreWhole
  <2> QED BY <2>1, <2>2, <2>3 DEF SpacesHold
<1> QED BY <1>1, SpaceStart, SpaceStep, PTL DEF SpaceSpec

-----------------------------------------------------------------------------
(* What is read, of every component at once.                               *)

\* A behaviour of the whole is one of each component.
LEMMA ReadingIsEach ==
  ReadingSpec => FeedsSpec /\ ListsSpec /\ EventSpec /\ WordSpec /\ SpaceSpec
<1>1. ReadingInit => FeedsInit /\ ListsInit /\ EventInit /\ WordInit /\ SpaceInit
  BY DEF ReadingInit
<1>2. [ReadingNext]_<<part, feedVars, listVars, eventVars, wordVars, spaceVars>> =>
        /\ [FeedsNext]_feedVars /\ [ListsNext]_listVars
        /\ [EventNext]_eventVars /\ [WordNext]_wordVars /\ [SpaceNext]_spaceVars
  BY DEF ReadingNext, NoFeeds, NoLists, NoEvents, NoWords, NoSpaces
<1> QED BY <1>1, <1>2, PTL DEF ReadingSpec, FeedsSpec, ListsSpec, EventSpec, WordSpec, SpaceSpec

LEMMA FeedsAreTyped == FeedsSpec => []FeedsTypeOK
<1>1. FeedInv => FeedsTypeOK
  BY DEF FeedInv, FeedTypes
<1> QED BY <1>1, FeedStart, FeedStep, PTL DEF FeedsSpec

LEMMA ListsAreTyped == ListsSpec => []ListsTypeOK
<1>1. ListInv => ListsTypeOK
  BY DEF ListInv, ListTypes
<1> QED BY <1>1, ListsStart, ListsStep, PTL DEF ListsSpec

LEMMA EventsAreTyped == EventSpec => []EventTypeOK
<1>1. ReminderInv => EventTypeOK
  <2> SUFFICES ASSUME ReminderInv PROVE EventTypeOK
    OBVIOUS
  <2>1. listing.op \in {"idle", "page", "tail", "details", "ended", "failed"}
    <3>1. listing \in {NotListing} \cup Listing
      BY DEF ReminderInv, ReminderTypes
    <3> QED BY <3>1 DEF NotListing, Listing
  <2>2. DOMAIN eventJob = EventWorker
    <3>1. eventJob \in [EventWorker -> ReminderJob]
      BY DEF ReminderInv, ReminderTypes
    <3> QED BY <3>1
  <2> QED BY <2>1, <2>2 DEF ReminderInv, ReminderTypes, RowTypes, EventTypeOK
<1> QED BY <1>1, ReminderStart, ReminderStep, PTL DEF EventSpec

LEMMA WordsAreTyped == WordSpec => []WordTypeOK
<1>1. WordInv => WordTypeOK
  BY DEF WordInv
<1> QED BY <1>1, WordStart, WordStep, PTL DEF WordSpec

\* Whichever component is at work, the variables of all of them hold what they
\* can hold.
THEOREM ReadingIsTyped == ReadingSpec => []ReadingTypeOK
BY ReadingIsEach, FeedsAreTyped, ListsAreTyped, EventsAreTyped, WordsAreTyped, SpacesAreTyped, PTL
   DEF ReadingTypeOK

\* The streams of moments, the lists and the spaces show each item as they
\* promise, over all pages that a reader loads (moment_feed.py, comment_read.py,
\* follow.py, dm.py, space_timeline.py, space_view_history.py).
THEOREM PagesAreShown == ReadingSpec => []PagesHold
BY ReadingIsEach, FeedsAreShown, ListsAreShown, SpacesAreShown, PTL DEF PagesHold

=============================================================================
