----------------------------- MODULE Favourites -----------------------------
(***************************************************************************)
(* The favourite folders of one user and the favourites in them.  A        *)
(* resource counts the user once, however many folders it is in, and that  *)
(* is decided by a query for the other folders inside each transaction.    *)
(*                                                                         *)
(* A transaction that has inserted or deleted a favourite holds the row    *)
(* until its commit; others see the committed rows only.                   *)
(***************************************************************************)
EXTENDS Integers, FiniteSets

CONSTANTS Folder,         \* folder ids there can be
          FavMoment,      \* moments: floored counter, folder not checked
          FavResource,    \* other resources
          OthersFavs,     \* what other users contributed to each counter
          FavWorker, FavRequests

Favoured == FavMoment \cup FavResource
NoFolder == "nofolder"     \* the request names no folder

ASSUME FavAssumption == /\ NoFolder \notin Folder
                        /\ OthersFavs \in Nat /\ FavRequests \in Nat

VARIABLES
  folder,       \* TFavoriteFolder: what each id is
  favs,         \* TResourceFavorite: <<resource, folder>>, committed
  favCount,     \* favoriteCount of each resource
  favJob,       \* what each worker has read, changed and not committed
  muddle,       \* history: the known ways to go wrong that were met
  favsAsked     \* requests so far

favVars == <<folder, favs, favCount, favJob, muddle, favsAsked>>

\* stale: what a transaction saw of the other folders changed before its
\* commit.  twice: a favourite was removed by two requests.  unnamed: a moment
\* was put into a folder that is not there.  folderGone: the folder was deleted
\* under the request.  defaults: two requests created the default folder.
Muddle == {"stale", "twice", "unnamed", "folderGone", "defaults"}
NoFavJob == [op |-> "idle"]

FavTypeOK ==
  /\ folder \in [Folder -> {"absent", "plain", "default", "gone"}]
  /\ favs \subseteq Favoured \X Folder
  /\ favCount \in [Favoured -> Int]
  /\ \A r \in FavMoment : favCount[r] \in Nat
  /\ DOMAIN favJob = FavWorker
  /\ muddle \subseteq Muddle
  /\ favsAsked \in 0 .. FavRequests

FavInit ==
  /\ folder = [f \in Folder |-> "absent"]
  /\ favs = {}
  /\ favCount = [r \in Favoured |-> OthersFavs]
  /\ favJob = [w \in FavWorker |-> NoFavJob]
  /\ muddle = {}
  /\ favsAsked = 0

-----------------------------------------------------------------------------

Usable(f) == folder[f] \in {"plain", "default"}
Defaults == {f \in Folder : folder[f] = "default"}
Elsewhere(r, f) == \E g \in Folder \ {f} : <<r, g>> \in favs

\* Rows a transaction has inserted or deleted and not committed.
HeldBy(w) == IF favJob[w].op \in {"inserted", "deleted"}
             THEN {<<favJob[w].r, favJob[w].f>>} ELSE {}
Free(rows) == \A w \in FavWorker : HeldBy(w) \cap rows = {}

Starts(w, job) ==
  /\ favJob[w] = NoFavJob
  /\ favsAsked < FavRequests
  /\ favsAsked' = favsAsked + 1
  /\ favJob' = [favJob EXCEPT ![w] = job]
  /\ UNCHANGED <<folder, favs, favCount, muddle>>

Goes(w, job) == favJob' = [favJob EXCEPT ![w] = job] /\ UNCHANGED favsAsked
Ends(w) == Goes(w, NoFavJob)

\* Seeded bug: no floor.
Unfloored(r, n) == n

Below(r, n) == IF n < 0 /\ r \in FavMoment THEN 0 ELSE n
Muddled(b, kind) == IF b THEN {kind} ELSE {}

-----------------------------------------------------------------------------
(* FavoriteFolderAction *)

Create(w, f) ==
  /\ folder[f] = "absent"
  /\ favJob[w] = NoFavJob
  /\ favsAsked < FavRequests
  /\ favsAsked' = favsAsked + 1
  /\ folder' = [folder EXCEPT ![f] = "plain"]
  /\ UNCHANGED <<favs, favCount, favJob, muddle>>

\* ensure_default, first half: no default folder is found.
DefaultMissing == Defaults = {}

NeedsDefault(w, r) ==
  /\ DefaultMissing
  /\ Starts(w, [op |-> "default", r |-> r])

\* ... and the second: one is created and committed, whatever others did.
CreatesDefault(w, f) ==
  /\ favJob[w].op = "default"
  /\ folder[f] = "absent"
  /\ folder' = [folder EXCEPT ![f] = "default"]
  /\ muddle' = muddle \cup Muddled(Defaults # {}, "defaults")
  /\ Goes(w, [op |-> "add", r |-> favJob[w].r, f |-> f])
  /\ UNCHANGED <<favs, favCount>>

-----------------------------------------------------------------------------
(* favorite, action = "add" *)

AddChecks(w, r, f) ==
  /\ IF f = NoFolder
     THEN \E d \in Defaults : Starts(w, [op |-> "add", r |-> r, f |-> d])
     ELSE /\ r \in FavMoment \/ Usable(f)
          /\ Starts(w, [op |-> "add", r |-> r, f |-> f])

\* The favourite is there already, or its insertion waits for another
\* transaction and then violates the unique constraint.
AddEnds(w) ==
  /\ favJob[w].op = "add"
  /\ <<favJob[w].r, favJob[w].f>> \in favs
  /\ Ends(w)
  /\ UNCHANGED <<folder, favs, favCount, muddle>>

AddInserts(w) ==
  LET j == favJob[w]
  IN /\ j.op = "add"
     /\ <<j.r, j.f>> \notin favs
     /\ Free({<<j.r, j.f>>})
     /\ Goes(w, [op |-> "inserted", r |-> j.r, f |-> j.f,
                 other |-> Elsewhere(j.r, j.f)])
     /\ UNCHANGED <<folder, favs, favCount, muddle>>

AddDone(w) ==
  LET j == favJob[w]
  IN /\ j.op = "inserted"
     /\ favs' = favs \cup {<<j.r, j.f>>}
     /\ favCount' = [favCount EXCEPT ![j.r] = @ + IF j.other THEN 0 ELSE 1]
     /\ muddle' = muddle
          \cup Muddled(j.other # Elsewhere(j.r, j.f), "stale")
          \cup Muddled(folder[j.f] = "gone", "folderGone")
          \cup Muddled(folder[j.f] = "absent", "unnamed")
     /\ Ends(w)
     /\ UNCHANGED folder

-----------------------------------------------------------------------------
(* favorite, action = "remove" *)

RemoveReads(w, r, f) ==
  /\ <<r, f>> \in favs
  /\ Starts(w, [op |-> "remove", r |-> r, f |-> f])

RemoveDeletes(w) ==
  LET j == favJob[w]
  IN /\ j.op = "remove"
     /\ Free({<<j.r, j.f>>})
     /\ Goes(w, [op |-> "deleted", r |-> j.r, f |-> j.f,
                 other |-> Elsewhere(j.r, j.f)])
     /\ UNCHANGED <<folder, favs, favCount, muddle>>

RemoveDone(w) ==
  LET j == favJob[w]
  IN /\ j.op = "deleted"
     /\ favs' = favs \ {<<j.r, j.f>>}
     /\ favCount' = [favCount EXCEPT
                       ![j.r] = Below(j.r, @ - IF j.other THEN 0 ELSE 1)]
     /\ muddle' = muddle
          \cup Muddled(<<j.r, j.f>> \notin favs, "twice")
          \cup Muddled(j.other # Elsewhere(j.r, j.f), "stale")
     /\ Ends(w)
     /\ UNCHANGED folder

-----------------------------------------------------------------------------
(* FavoriteFolderAction.delete *)

InFolder(f) == {r \in Favoured : <<r, f>> \in favs}
ElsewhereToo(f) == {r \in InFolder(f) : Elsewhere(r, f)}

\* Seeded bug: the other folders are not asked.
AffectedAll(f) == InFolder(f)

Affected(f) == {r \in InFolder(f) : ~Elsewhere(r, f)}

DeleteFolderReads(w, f) ==
  /\ Usable(f)
  /\ Starts(w, [op |-> "drop", f |-> f, rows |-> InFolder(f),
                affected |-> Affected(f), kept |-> ElsewhereToo(f)])

ItemsOf(f) == Favoured \X {f}

DeleteFolderCommits(w) ==
  LET j == favJob[w]
  IN /\ j.op = "drop"
     /\ Free(Favoured \X {j.f})
     /\ favs' = favs \ ItemsOf(j.f)
     /\ folder' = [folder EXCEPT ![j.f] = "gone"]
     /\ favCount' = [r \in Favoured |->
                       IF r \in j.affected THEN Below(r, favCount[r] - 1)
                       ELSE favCount[r]]
     /\ muddle' = muddle
          \cup Muddled(InFolder(j.f) # j.rows \/ folder[j.f] = "gone", "stale")
          \cup Muddled({r \in j.rows : Elsewhere(r, j.f)} # j.kept, "stale")
     /\ Ends(w)

-----------------------------------------------------------------------------

FavNext ==
  \E w \in FavWorker :
    \/ \E f \in Folder :
         \/ Create(w, f)
         \/ CreatesDefault(w, f)
         \/ DeleteFolderReads(w, f)
         \/ \E r \in Favoured : RemoveReads(w, r, f)
    \/ \E r \in Favoured :
         \/ NeedsDefault(w, r)
         \/ \E f \in Folder \cup {NoFolder} : AddChecks(w, r, f)
    \/ AddEnds(w)
    \/ AddInserts(w)
    \/ AddDone(w)
    \/ RemoveDeletes(w)
    \/ RemoveDone(w)
    \/ DeleteFolderCommits(w)

FavSpec == FavInit /\ [][FavNext]_favVars

-----------------------------------------------------------------------------
(* Properties. *)

FavouredBy(r) == IF \E f \in Folder : <<r, f>> \in favs THEN 1 ELSE 0

\* favoriteCount counts the user once per resource (the docstring of
\* folder.py), unless two requests of the user overlapped in one of two ways.
FavouritesCounted ==
  muddle \cap {"stale", "twice"} = {}
    => \A r \in Favoured : favCount[r] = OthersFavs + FavouredBy(r)

\* Every favourite is in a folder of the user, unless a moment was put into a
\* folder that is not there or the folder was deleted under the request.
FavouritesInFolders ==
  muddle \cap {"unnamed", "folderGone"} = {}
    => \A x \in favs : Usable(x[2])

\* A user has one default folder, unless two first favourites met.
OneDefaultFolder == "defaults" \notin muddle => Cardinality(Defaults) <= 1

\* Favourites, their counter and their folders fit together, with the exact
\* overlaps that break each part (favorite add and remove, the folders).
FavouritesHold == FavouritesCounted /\ FavouritesInFolders /\ OneDefaultFolder

=============================================================================
