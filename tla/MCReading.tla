----------------------------- MODULE MCReading -----------------------------
(***************************************************************************)
(* What users are shown page by page: the feeds of moments, the lists of   *)
(* comments, follows, conversations and messages, the spaces of users, and *)
(* the reminders of what others did; and the audit of the texts they       *)
(* write.  The components share no state: a behaviour is one of a single   *)
(* component.                                                              *)
(***************************************************************************)
EXTENDS Feeds, Lists, Reminders, WordAudit, Spaces, TLC

CONSTANTS w1, w2, x1, x2, y1

VARIABLE part     \* the component of the behaviour

\* A pair of workers or clients, and a pair of deeds.
Symmetry == Permutations({w1, w2}) \cup Permutations({x1, x2})

\* Two replies under one card, which are not pushed, and a like of another.
CardOfDef == [d \in Deed |-> IF d = y1 THEN "y" ELSE "x"]
TypeOfDef == [c \in {"x", "y"} |-> IF c = "y" THEN "like" ELSE "reply"]

\* Texts of up to four characters, and one that has a word of three twice,
\* sharing a character; 2.1 is a site below 1.
TextsDef == (SeqOf({1, 2}, 4) \ {<<>>}) \cup {<<1, 2, 1, 2, 1>>}
SitesDef == SUBSET {<<1>>, <<2, 1>>}
SiteListsDef ==
  {[black |-> {}, white |-> {}], [black |-> {<<1>>}, white |-> {<<2, 1>>}],
   [black |-> {}, white |-> {<<2, 1>>}]}

\* Words within words, of one level and of two; one exempted; one of a single
\* character; and files with a category, which cannot be read.
LibrariesDef ==
  LET Files(high, medium, low, categories, exempt) ==
        [flat |-> [l \in Levels |-> CASE l = "high" -> high
                                      [] l = "medium" -> medium
                                      [] OTHER -> low],
         categories |-> categories, exempt |-> exempt]
  IN {Files({<<1, 2>>, <<2>>}, {}, {<<1, 2, 1>>}, {}, {}),
      Files({}, {<<1, 2>>, <<1, 2, 1>>}, {<<2, 2>>}, {}, {<<2, 2>>}),
      Files({<<2, 2>>}, {<<1, 2, 1>>}, {<<1, 2>>}, {}, {<<1, 2>>}),
      Files({<<1, 2>>}, {}, {}, {"a"}, {})}

NoFeeds == UNCHANGED feedVars
NoLists == UNCHANGED listVars
NoEvents == UNCHANGED eventVars
NoWords == UNCHANGED wordVars
NoSpaces == UNCHANGED spaceVars

\* What a component chooses once and for all is fixed where it takes no step.
ReadingInit ==
  /\ part \in {"feeds", "lists", "events", "words", "spaces"}
  /\ FeedsInit /\ ListsInit /\ EventInit /\ WordInit /\ SpaceInit
  /\ part # "feeds" => stream = "time"
  /\ part # "lists" => list = "time"
  /\ part # "words" =>
       /\ wordFiles = CHOOSE files \in Libraries : TRUE
       /\ siteLists = CHOOSE lists \in SiteLists : TRUE
  /\ part # "spaces" =>
       visit = "settings" /\ own /\ saved /\ flags = default_value

ReadingNext ==
  /\ UNCHANGED part
  /\ \/ part = "feeds" /\ FeedsNext /\ NoLists /\ NoEvents /\ NoWords /\ NoSpaces
     \/ part = "lists" /\ ListsNext /\ NoFeeds /\ NoEvents /\ NoWords /\ NoSpaces
     \/ part = "events" /\ EventNext /\ NoFeeds /\ NoLists /\ NoWords /\ NoSpaces
     \/ part = "words" /\ WordNext /\ NoFeeds /\ NoLists /\ NoEvents /\ NoSpaces
     \/ /\ part = "spaces" /\ SpaceNext
        /\ NoFeeds /\ NoLists /\ NoEvents /\ NoWords

ReadingSpec ==
  /\ ReadingInit
  /\ [][ReadingNext]_<<part, feedVars, listVars, eventVars, wordVars, spaceVars>>

\* The types of the variables of every component.
ReadingTypeOK == FeedsTypeOK /\ ListsTypeOK /\ EventTypeOK /\ WordTypeOK /\ SpaceTypeOK

\* What readers are shown page by page: what the streams of moments show, and
\* what the lists of comments, follows, conversations and messages and the spaces
\* of users show.
PagesHold == FeedsHold /\ ListsHold /\ SpacesHold

=============================================================================
