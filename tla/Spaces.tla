------------------------------- MODULE Spaces -------------------------------
(***************************************************************************)
(* The space of a user: what the owner lets others see, the timeline of    *)
(* what the owner follows, likes and keeps, the things the owner has       *)
(* looked at, the lists behind the switches, and the card of the owner.    *)
(* app/services/user/space_timeline.py, space_privacy.py,                  *)
(* space_view_history.py, space/*.py, follow.py, api/space.py and          *)
(* api/pptr_user_gateway.py.                                               *)
(*                                                                         *)
(* Every statement reads what is committed when it runs (READ COMMITTED);  *)
(* a request is several of them.                                           *)
(***************************************************************************)
EXTENDS Integers, FiniteSets

CONSTANTS LastAct,       \* bound: the rows are 1 .. LastAct
          LastSecond,    \* bound: their times are 1 .. LastSecond
          Thing,         \* what can be kept
          Folder,        \* where
          Peer,          \* who follows the owner, and whom the owner follows
          Saver,         \* the browsers in which the owner saves the switches
          Settings,      \* bound: the sets of switches the owner turns on
          PerPage,
          FavBuffer,     \* _FAV_BUFFER: pages of kept things that are read
          SpacePages,    \* bound: pages asked for
          SpaceSaves,    \* bound: times the switches are saved
          SpaceTurns     \* bound: what happens while the viewer looks

ASSUME SpaceAssumption ==
  /\ {LastAct, SpacePages, SpaceSaves, SpaceTurns} \subseteq Nat
  /\ {LastSecond, PerPage, FavBuffer} \subseteq Nat \ {0}
  /\ IsFiniteSet(Peer)
  /\ Settings \subseteq SUBSET {"personal", "timeline", "follow", "like", "fans"}

Switch == {"personal", "timeline", "follow", "like", "fans"}
Kind == {"follow", "like", "favourite", "fan", "view"}
Visit == {"timeline", "history", "ledger", "card", "settings"}

VARIABLES
  visit,     \* what is asked for
  own,       \* is the viewer the owner of the space
  flags,     \* the switches that are on
  made,      \* how many rows there have been
  act,       \* the rows
  live,      \* those that are still there
  second,    \* the clock of the database
  open,      \* the public folders
  browse,    \* the viewer's way through the pages
  follows,   \* whom the owner follows, and
  fans,      \* who follows the owner: by the card
  barred,    \* has one of owner and viewer blocked the other
  card,      \* the request for the card
  saved,     \* is there a row of switches
  saving,    \* the requests that save them
  saves,     \* how many there have been
  wasOn,     \* history: the switches on at some moment of the request under way
  spaceTurns \* history: what has happened since the viewer began

spaceVars == <<visit, own, flags, made, act, live, second, open, browse, follows,
               fans, barred, card, saved, saving, saves, wasOn, spaceTurns>>

Act == 1 .. LastAct
Second == 1 .. LastSecond
NoAct == [of |-> "none", at |-> 0, thing |-> "none", folder |-> "none"]

NoBrowse == [at |-> "idle", page |-> 0, may |-> {}, cursor |-> LastSecond + 1, rows |-> {},
           shown |-> {}, again |-> {}, bare |-> {}, due |-> {}, edges |-> {},
           crowded |-> FALSE, cut |-> FALSE, ended |-> FALSE]
NoCard == [at |-> "idle", following |-> 0, follower |-> 0, mutual |-> 0, personal |-> FALSE]
NotSaving == [at |-> "idle", want |-> {}, seen |-> {}, row |-> FALSE, got |-> {}, met |-> FALSE]

SpaceTypeOK ==
  /\ visit \in Visit /\ own \in BOOLEAN /\ flags \subseteq Switch
  /\ made \in 0 .. LastAct /\ live \subseteq 1 .. made
  /\ \A a \in live : act[a].of \in Kind /\ act[a].at \in 1 .. second
  /\ second \in 0 .. LastSecond /\ open \subseteq Folder
  /\ browse.at \in {"idle", "follow", "like", "favourite", "fan"} /\ browse.page \in 0 .. SpacePages
  /\ browse.cursor \in 1 .. LastSecond + 1 /\ browse.may \subseteq Switch
  /\ browse.rows \cup browse.shown \cup browse.due \subseteq Act /\ browse.edges \subseteq Second
  /\ follows \cup fans \subseteq Peer /\ barred \in BOOLEAN
  /\ card.following \in Nat /\ card.follower \in Nat /\ card.mutual \in Nat
  /\ saved \in BOOLEAN /\ wasOn \subseteq Switch
  /\ \A w \in Saver : saving[w].want \cup saving[w].seen \cup saving[w].got \subseteq Switch
  /\ saves \in 0 .. SpaceSaves /\ spaceTurns \in 0 .. SpaceTurns

\* SPACE_ATTRIBUTES: what is on for an owner who has saved nothing.
default_value == {"timeline"}

\* What the behaviour is not about is fixed.
SpaceInit ==
  /\ visit \in Visit /\ own \in BOOLEAN /\ flags \in Settings \cup {default_value}
  /\ made = 0 /\ act = [a \in Act |-> NoAct] /\ live = {} /\ second = 0
  /\ open \in SUBSET Folder
  /\ browse = NoBrowse /\ card = NoCard
  /\ follows \in SUBSET Peer /\ fans \in SUBSET Peer /\ barred \in BOOLEAN
  /\ saved \in BOOLEAN /\ (~saved => flags = default_value)
  /\ saving = [w \in Saver |-> NotSaving] /\ saves = 0
  /\ wasOn = {} /\ spaceTurns = 0
  /\ visit # "card" => follows = {} /\ fans = {} /\ ~barred
  /\ visit # "settings" => saved
  /\ visit = "history" => own
  /\ visit # "timeline" => open = {}

rowVars == <<made, act, live, second, open>>
peerVars == <<follows, fans, barred>>
saveVars == <<saved, saving, saves>>

-----------------------------------------------------------------------------
(* Who may see what                                                        *)

\* The switches behind a kind of rows: in the timeline its own and that of the
\* whole; kept things have none but their folder.
Needs(k) ==
  CASE visit = "history" -> {}
    [] visit = "ledger" -> IF k = "fan" THEN {"fans"} ELSE {"follow"}
    [] OTHER -> {"timeline"} \cup ({k} \cap Switch)

can_view(k, on) == own \/ Needs(k) \subseteq on
InOpenFolder(a, folders) ==
  own \/ act[a].of # "favourite" \/ act[a].folder \in folders
MayBeSeen(a, on, folders) == can_view(act[a].of, on) /\ InOpenFolder(a, folders)

-----------------------------------------------------------------------------
(* What happens meanwhile                                                  *)

Looking == browse # NoBrowse \/ card # NoCard

\* Each change is counted.  What changed before the viewer began is in how it begins.
SpaceTurn == Looking /\ spaceTurns < SpaceTurns /\ spaceTurns' = spaceTurns + 1

\* What is looked at in a behaviour.
Looked ==
  CASE visit = "timeline" -> {"follow", "like", "favourite"}
    [] visit = "history" -> {"view"}
    [] visit = "ledger" -> {"follow", "fan"}
    [] OTHER -> {}

\* A follow, a like, something kept, a follower, a first look.
Acts(k, x, f) ==
  /\ made < LastAct /\ second > 0 /\ k \in Looked
  /\ made' = made + 1 /\ live' = live \cup {made + 1}
  /\ act' = [act EXCEPT ![made + 1] =
       [NoAct EXCEPT !.of = k, !.at = second,
                     !.thing = IF k = "favourite" THEN x ELSE @,
                     !.folder = IF k = "favourite" THEN f ELSE @]]
  /\ IF Looking THEN SpaceTurn ELSE UNCHANGED spaceTurns
  /\ UNCHANGED <<visit, own, flags, second, open, browse, peerVars, card, saveVars, wasOn>>

\* Taken back; a follow also by a block, which keeps its row but not its status.
Undone(a) ==
  /\ a \in live /\ live' = live \ {a}
  /\ browse' = [browse EXCEPT !.due = @ \ {a}]
  /\ SpaceTurn
  /\ UNCHANGED <<visit, own, flags, made, act, second, open, peerVars, card, saveVars, wasOn>>

\* A thing is looked at again: its row has a new time.
LookedAgain(a) ==
  /\ a \in live /\ act[a].of = "view"
  /\ act' = [act EXCEPT ![a].at = second]
  /\ browse' = [browse EXCEPT !.due = @ \ {a}]
  /\ SpaceTurn
  /\ UNCHANGED <<visit, own, flags, made, live, second, open, peerVars, card, saveVars, wasOn>>

\* A folder is made public, or is no longer.
FolderTurns(f) ==
  /\ visit = "timeline"
  /\ LET folders == IF f \in open THEN open \ {f} ELSE open \cup {f}
     IN /\ open' = folders
        /\ browse' = [browse EXCEPT !.due = {a \in @ : MayBeSeen(a, flags, folders)}]
  /\ SpaceTurn
  /\ UNCHANGED <<visit, own, flags, made, act, live, second, peerVars, card, saveVars, wasOn>>

\* The owner saves the switches; how two saves meet is below.
SwitchesTurn(on) ==
  /\ visit \in {"timeline", "ledger", "card"} /\ flags' = on
  /\ wasOn' = wasOn \cup on
  /\ browse' = [browse EXCEPT !.due = {a \in @ : MayBeSeen(a, on, open)}]
  /\ SpaceTurn
  /\ UNCHANGED <<visit, own, rowVars, peerVars, card, saveVars>>

NextSecond ==
  /\ Looked # {} /\ second < LastSecond /\ second' = second + 1
  /\ UNCHANGED <<visit, own, flags, made, act, live, open, browse, peerVars, card, saveVars,
                 wasOn, spaceTurns>>

\* Someone follows the owner or no longer, the owner someone, one blocks the other.
PeersChange(p) ==
  /\ visit = "card"
  /\ \/ \/ follows' = follows \cup {p} \/ follows' = follows \ {p}
        /\ UNCHANGED <<fans, barred>>
     \/ \/ fans' = fans \cup {p} \/ fans' = fans \ {p}
        /\ UNCHANGED <<follows, barred>>
     \/ barred' = ~barred /\ UNCHANGED <<follows, fans>>
  /\ SpaceTurn
  /\ UNCHANGED <<visit, own, flags, rowVars, browse, card, saveVars, wasOn>>

-----------------------------------------------------------------------------
(* Pages                                                                   *)

\* The n latest of some rows; those of one second come in any order.
Latest(T, S, n) ==
  /\ T \subseteq S
  /\ Cardinality(T) = n \/ (T = S /\ Cardinality(S) < n)
  /\ \A a \in T, b \in S \ T : act[a].at >= act[b].at

\* A thing that is in several folders once, as it was kept last.
OncePerThing(K, F) ==
  /\ K \subseteq F
  /\ \A a, b \in K : act[a].thing = act[b].thing => a = b
  /\ \A a \in F : \E b \in K : act[b].thing = act[a].thing /\ act[b].at >= act[a].at

\* What a query finds: before the cursor.
RowsOfKind(k) == {a \in live : act[a].of = k /\ act[a].at < browse.cursor}
KeptRows == {a \in RowsOfKind("favourite") : InOpenFolder(a, open)}

MayAskSpace ==
  browse.at = "idle" /\ ~browse.ended /\ browse.page < SpacePages

\* The rows T of E are on the page; the cursor of the next page is the time of the
\* last of them.
PageOfSpace(T, E, due, more, crowded, exact) ==
  /\ Latest(T, E, PerPage)
  /\ \E s \in Second :
       /\ \/ ~more
          \/ (\E a \in T : act[a].at = s) /\ \A a \in T : s <= act[a].at
       /\ browse' = [browse EXCEPT
            !.at = "idle", !.page = @ + 1, !.rows = {}, !.due = due,
            !.shown = @ \cup T, !.again = @ \cup (browse.shown \cap T),
            !.bare = @ \cup {a \in T : ~can_view(act[a].of, wasOn')},
            !.cursor = IF more THEN s ELSE @,
            !.edges = IF more THEN @ \cup {s} ELSE @,
            !.crowded = @ \/ crowded, !.ended = ~more,
            !.cut = ~more /\ ~exact /\ Cardinality(T) = PerPage]

\* SpaceTimelineService.list: the switches first; without the switch of the whole
\* timeline nothing is shown.
AsksTimeline ==
  /\ visit = "timeline" /\ MayAskSpace
  /\ LET seen == can_view("favourite", flags)
     IN browse' = [browse EXCEPT
          !.at = IF seen THEN "follow" ELSE "idle", !.may = flags,
          !.due = IF browse.page = 0 THEN {a \in live : MayBeSeen(a, flags, open)} ELSE @,
          !.page = IF seen THEN @ ELSE @ + 1, !.ended = ~seen]
  /\ wasOn' = flags
  /\ UNCHANGED <<visit, own, flags, rowVars, peerVars, card, saveVars, spaceTurns>>

\* Follows and likes, a page of each at most.
ReadsActs(k, next) ==
  /\ visit = "timeline" /\ browse.at = k
  /\ \E T \in SUBSET RowsOfKind(k) :
       /\ IF can_view(k, browse.may) THEN Latest(T, RowsOfKind(k), PerPage) ELSE T = {}
       /\ browse' = [browse EXCEPT !.at = next, !.rows = @ \cup T]
  /\ UNCHANGED <<visit, own, flags, rowVars, peerVars, card, saveVars, wasOn, spaceTurns>>

\* Then what is kept in the folders the viewer may see, several pages of it for the
\* sake of things in several folders; and the page is cut out of the three.
ReadsKept ==
  /\ visit = "timeline" /\ browse.at = "favourite"
  /\ UNCHANGED wasOn
  /\ \E F \in SUBSET KeptRows : \E K \in SUBSET F :
       /\ Latest(F, KeptRows, PerPage * FavBuffer) /\ OncePerThing(K, F)
       /\ LET rows == browse.rows \cup K
          IN \E T \in SUBSET rows :
               PageOfSpace(T, rows, browse.due, Cardinality(rows) > PerPage,
                           F # KeptRows /\ Cardinality(K) < PerPage,
                           FALSE)
  /\ UNCHANGED <<visit, own, flags, rowVars, peerVars, card, saveVars, spaceTurns>>

\* SpaceViewHistoryService.list: for the owner alone, one more row than is shown.
AsksHistory ==
  /\ visit = "history" /\ own /\ MayAskSpace
  /\ wasOn' = flags
  /\ \E E \in SUBSET RowsOfKind("view") : \E T \in SUBSET E :
       /\ Latest(E, RowsOfKind("view"), PerPage + 1)
       /\ PageOfSpace(T, E, IF browse.page = 0 THEN live ELSE browse.due,
                      Cardinality(E) > PerPage, FALSE, TRUE)
  /\ UNCHANGED <<visit, own, flags, rowVars, peerVars, card, saveVars, spaceTurns>>

\* The first page of the follows or of the followers (its pages are in Lists): nothing,
\* not even the total, if the switch is off.
AsksLedger(k) ==
  /\ visit = "ledger" /\ MayAskSpace /\ k \in Looked
  /\ browse' = IF can_view(k, flags) THEN [browse EXCEPT !.at = k]
               ELSE [browse EXCEPT !.page = @ + 1, !.ended = TRUE]
  /\ wasOn' = flags
  /\ UNCHANGED <<visit, own, flags, rowVars, peerVars, card, saveVars, spaceTurns>>

ReadsLedger ==
  /\ visit = "ledger" /\ browse.at # "idle"
  /\ UNCHANGED wasOn
  /\ \E T \in SUBSET RowsOfKind(browse.at) :
       PageOfSpace(T, RowsOfKind(browse.at), {}, FALSE, FALSE, TRUE)
  /\ UNCHANGED <<visit, own, flags, rowVars, peerVars, card, saveVars, spaceTurns>>

-----------------------------------------------------------------------------
(* The card of the owner: get_space_info                                   *)

CardTurns(next) ==
  /\ visit = "card" /\ card' = next
  /\ UNCHANGED <<visit, own, flags, rowVars, browse, peerVars, saveVars, spaceTurns>>

\* A viewer who blocks the owner or is blocked is refused.
AsksCard ==
  /\ card.at = "idle" /\ wasOn' = flags
  /\ CardTurns([card EXCEPT !.at = IF own \/ ~barred THEN "asked" ELSE "refused"])

\* FollowService.get_counts, three statements.
CountsFollowing ==
  /\ card.at = "asked" /\ UNCHANGED wasOn
  /\ CardTurns([card EXCEPT !.at = "following", !.following = Cardinality(follows)])
CountsFollowers ==
  /\ card.at = "following" /\ UNCHANGED wasOn
  /\ CardTurns([card EXCEPT !.at = "followers", !.follower = Cardinality(fans)])
CountsMutual ==
  /\ card.at = "followers" /\ UNCHANGED wasOn
  /\ CardTurns([card EXCEPT !.at = "counted", !.mutual = Cardinality(follows \cap fans)])

\* The switches are read last, when sex, birthday and e-mail are at hand.
CardAnswered ==
  /\ card.at = "counted" /\ UNCHANGED wasOn
  /\ CardTurns([card EXCEPT !.at = "answered", !.personal = own \/ "personal" \in flags])

-----------------------------------------------------------------------------
(* Saving the switches: update_flags                                       *)

SavingNext(w, s) == saving' = [saving EXCEPT ![w] = s]

SaveReads(w, want) ==
  /\ visit = "settings" /\ saving[w].at \in {"idle", "answered"} /\ saves < SpaceSaves
  /\ saves' = saves + 1
  /\ SavingNext(w, [NotSaving EXCEPT !.at = "read", !.want = want, !.seen = flags, !.row = saved])
  /\ UNCHANGED <<visit, own, flags, rowVars, browse, peerVars, card, saved, wasOn, spaceTurns>>

\* What differs from the row that was read is written; without a row all of it, and
\* the insert fails if there is one by now.
Written(s) == IF s.row THEN (flags \ (s.seen \ s.want)) \cup (s.want \ s.seen) ELSE s.want

SaveCommits(w) ==
  /\ saving[w].at = "read" /\ (saved => saving[w].row)
  /\ flags' = Written(saving[w]) /\ saved' = TRUE
  /\ saving' = [v \in Saver |->
       IF v = w THEN [saving[v] EXCEPT !.at = "committed"] ELSE [saving[v] EXCEPT !.met = TRUE]]
  /\ UNCHANGED <<visit, own, rowVars, browse, peerVars, card, saves, wasOn, spaceTurns>>

SaveFails(w) ==
  /\ saving[w].at = "read" /\ saved /\ ~saving[w].row
  /\ SavingNext(w, NotSaving)
  /\ UNCHANGED <<visit, own, flags, rowVars, browse, peerVars, card, saved, saves, wasOn,
                 spaceTurns>>

\* The answer is read anew.
SaveAnswered(w) ==
  /\ saving[w].at = "committed"
  /\ SavingNext(w, [saving[w] EXCEPT !.at = "answered", !.got = flags])
  /\ UNCHANGED <<visit, own, flags, rowVars, browse, peerVars, card, saved, saves, wasOn,
                 spaceTurns>>

SpaceNext ==
  \/ \E k \in Kind, x \in Thing, f \in Folder : Acts(k, x, f)
  \/ \E a \in Act : Undone(a) \/ LookedAgain(a)
  \/ \E f \in Folder : FolderTurns(f)
  \/ \E on \in Settings : SwitchesTurn(on)
  \/ \E p \in Peer : PeersChange(p)
  \/ NextSecond
  \/ AsksTimeline \/ ReadsActs("follow", "like") \/ ReadsActs("like", "favourite") \/ ReadsKept
  \/ AsksHistory \/ ReadsLedger \/ \E k \in Kind : AsksLedger(k)
  \/ AsksCard \/ CountsFollowing \/ CountsFollowers \/ CountsMutual \/ CardAnswered
  \/ \E w \in Saver :
       \/ \E want \in Settings : SaveReads(w, want)
       \/ SaveCommits(w) \/ SaveFails(w) \/ SaveAnswered(w)

SpaceSpec == SpaceInit /\ [][SpaceNext]_spaceVars

-----------------------------------------------------------------------------
(* Properties                                                              *)

\* No row is shown twice, whatever happens meanwhile: a thing that is looked at
\* again moves out of the pages that are still to come.
SeenOnce == browse.again = {}

\* What others are shown needs no switch that was off during the whole request.
SeenWasOpen == browse.bare = {}

\* What was there when the viewer began, and has remained for the viewer to see, is
\* shown or still to come, unless it is of the second at which a page ended, its thing
\* was shown from another folder, so many folders hold the same things that the
\* buffer held less than a page of them, or the last page was exactly full, which the
\* timeline takes for the end.
NothingMissed ==
  \A a \in browse.due :
    \/ a \in browse.shown
    \/ ~browse.ended /\ act[a].at < browse.cursor
    \/ act[a].at \in browse.edges
    \/ act[a].of = "favourite" /\ \E b \in browse.shown : act[b].thing = act[a].thing
    \/ browse.crowded \/ browse.cut

\* The numbers on the card are apart by no more than what happened meanwhile.
CountsFit ==
  card.at \in {"counted", "answered"} =>
    /\ card.mutual <= card.following + spaceTurns
    /\ card.mutual <= card.follower + spaceTurns

\* Sex, birthday and e-mail are shown to others only if that was allowed at some
\* moment of the request.
PersonalWasOn == card.personal => own \/ "personal" \in wasOn

\* Who saves the switches is told what was asked for, unless another save came
\* between.
SavesAreWhole ==
  \A w \in Saver :
    saving[w].at = "answered" /\ ~saving[w].met => saving[w].got = saving[w].want

SpacesHold ==
  /\ SeenOnce /\ SeenWasOpen /\ NothingMissed /\ CountsFit /\ PersonalWasOn /\ SavesAreWhole

=============================================================================
