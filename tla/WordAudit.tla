----------------------------- MODULE WordAudit -----------------------------
(***************************************************************************)
(* The audit of texts.  Files of words are read at the first audit of a    *)
(* process and kept as prefix trees, one per level; a file of a category   *)
(* among them ends the reading with an error, and the audit then knows no  *)
(* word at all.  The lists of sites are read at every audit.  The verdict  *)
(* is the first of a fixed order of findings; every surface draws its own  *)
(* consequence, and an author who is told gets an excerpt with the words   *)
(* masked.  Characters are numbers, 0 is the asterisk of a mask, which no  *)
(* text and no word has; an empty text is not audited.                     *)
(***************************************************************************)
EXTENDS Integers, Sequences, FiniteSets, SequencesExt

CONSTANTS
  Texts,           \* what users write
  Sites,           \* the sets of sites a text may link to
  Libraries,       \* the files of words the operator may put on the disk
  SiteLists,       \* and the black and white lists of sites
  PreAudit,        \* the switch comment_pre_audit
  LibraryEdits     \* bound: changes of the files

Letter == Nat \ {0}
Levels == {"low", "medium", "high"}
Surfaces == {"comment", "moment", "name", "about"}

\* The files of the three levels, the names of the files of categories, and
\* the file of exempted words.  A site is the sequence of its labels.
Library == [flat : [Levels -> SUBSET Seq(Letter)], categories : SUBSET STRING,
            exempt : SUBSET Seq(Letter)]
SiteList == [black : SUBSET Seq(Letter), white : SUBSET Seq(Letter)]

ASSUME WordAssumption ==
  /\ Texts \subseteq Seq(Letter) \ {<<>>}
  /\ Sites \subseteq SUBSET Seq(Letter)
  /\ Libraries \subseteq Library
  /\ SiteLists \subseteq SiteList
  /\ PreAudit \in BOOLEAN /\ LibraryEdits \in Nat

VARIABLES
  wordFiles,   \* the files of words on disk
  loaded,      \* what the process read of them, or Unread
  siteLists,   \* the black and the white list of sites
  audited,     \* the audit that was made last
  edits        \* changes so far

wordVars == <<wordFiles, loaded, siteLists, audited, edits>>

Unread == [state |-> "unread"]
NoAudit == [surface |-> "none"]

WordTypeOK ==
  /\ wordFiles \in Libraries
  /\ loaded # Unread => DOMAIN loaded = Levels
  /\ siteLists \in SiteLists
  /\ audited # NoAudit => /\ audited.surface \in Surfaces
                          /\ audited.verdict \in {"pass", "audit", "reject"}
  /\ edits \in 0 .. LibraryEdits

WordInit ==
  /\ wordFiles \in Libraries
  /\ loaded = Unread
  /\ siteLists \in SiteLists
  /\ audited = NoAudit
  /\ edits = 0

-----------------------------------------------------------------------------
(* Words and prefix trees.                                                 *)

\* Single characters and exempted words take no part.
Usable(word, exempt) == Len(word) >= 2 /\ word \notin exempt

\* The nodes of a tree are the prefixes of its words.
Trie(words) == [nodes |-> UNION {{SubSeq(w, 1, n) : n \in 0 .. Len(w)} : w \in words},
                ends |-> words]

\* The walk from one place goes on while there is a node.
Walk(trie, text, i) ==
  LET reached == {j \in i .. Len(text) : \A k \in i .. j : SubSeq(text, i, k) \in trie.nodes}
  IN {SubSeq(text, i, j) : j \in reached} \cap trie.ends

MatchAll(trie, text) == UNION {Walk(trie, text, i) : i \in 1 .. Len(text)}

\* For the first file of a category the level is looked up by a method that
\* the table of levels has not: the reading ends, and nothing is kept of it.
Readable(files) == files.categories = {}

ReadLibrary(files) ==
  [l \in Levels |-> Trie({w \in files.flat[l] : Usable(w, files.exempt)})]

\* With a library that cannot be read there are no hits.
Match(library, text) ==
  [l \in Levels |-> IF library = Unread THEN {} ELSE MatchAll(library[l], text)]

-----------------------------------------------------------------------------
(* Links and the verdict.                                                  *)

DomainMatches(site, domain) == site = domain \/ IsSuffix(domain, site)

\* A site on neither list is unknown only if there is a white list.
CheckLinks(sites, lists) ==
  LET On(list) == {s \in sites : \E d \in list : DomainMatches(s, d)}
  IN [blocked |-> On(lists.black),
      unknown |-> IF lists.white = {} THEN {}
                  ELSE sites \ (On(lists.black) \cup On(lists.white))]

\* Seeded bug: links that cannot be judged are looked at before the words.
AuditTextUnknownFirst(hits, links, strict) ==
  IF links.blocked # {} THEN "reject"
  ELSE IF links.unknown # {} THEN "audit"
  ELSE IF hits["high"] # {} \/ (hits["medium"] # {} /\ strict) THEN "reject"
  ELSE IF hits["medium"] # {} \/ (hits["low"] # {} /\ strict) THEN "audit" ELSE "pass"

AuditText(hits, links, strict) ==
  IF links.blocked # {} \/ hits["high"] # {} THEN "reject"
  ELSE IF hits["medium"] # {} THEN IF strict THEN "reject" ELSE "audit"
  ELSE IF links.unknown # {} \/ (hits["low"] # {} /\ strict) THEN "audit" ELSE "pass"

-----------------------------------------------------------------------------
(* The mask.                                                               *)

Occurrences(word, text) ==
  {i \in 1 .. Len(text) - Len(word) + 1 : SubSeq(text, i, i + Len(word) - 1) = word}

\* The positions that the mask of a word hides, the word beginning at i.
HiddenBy(word, i) == CASE Len(word) = 1 -> {i}
                       [] Len(word) = 2 -> {i + 1}
                       [] OTHER -> (i + 1) .. (i + Len(word) - 2)

\* str.replace goes from left to right and never back: it passes over what
\* begins within the place it replaced last.
Free(replaced, i, n) == \A j \in replaced : j < i => j + n <= i
Replaced(found, n) ==
  CHOOSE replaced \in SUBSET found : replaced = {i \in found : Free(replaced, i, n)}

MaskWord(text, word) ==
  LET hidden == UNION {HiddenBy(word, i) : i \in Replaced(Occurrences(word, text), Len(word))}
  IN [i \in 1 .. Len(text) |-> IF i \in hidden THEN 0 ELSE text[i]]

\* The longest words first.
MaskText(text, words) ==
  LET masked[ws \in SUBSET words] ==
        IF ws = {} THEN text
        ELSE LET last == CHOOSE w \in ws : \A v \in ws : Len(w) <= Len(v)
             IN MaskWord(masked[ws \ {last}], last)
  IN masked[words]

\* What a reason names of a level: no word that a longer one contains.
CompactHits(words) ==
  {w \in words : \A longer \in words \ {w} : Occurrences(w, longer) = {}}

-----------------------------------------------------------------------------
(* Audits, and what becomes of the files.                                  *)

AllHits(hits) == UNION {hits[l] : l \in Levels}

\* What the verdict blames: links name no word in their reason.
Blamed(hits, links) ==
  IF links.blocked # {} THEN "links"
  ELSE IF hits["high"] \cup hits["medium"] # {} \/ links.unknown = {} THEN "words"
  ELSE "links"

\* comment.add stores every comment.
CommentOutcome(verdict) ==
  IF verdict = "reject" THEN "rejected"
  ELSE IF verdict = "audit" \/ PreAudit THEN "auditing" ELSE "normal"

\* A moment that is rejected is not stored, and its author is told.
MomentOutcome(verdict) == CASE verdict = "reject" -> "refused"
                            [] verdict = "audit" -> "auditing"
                            [] OTHER -> "normal"

\* Names and descriptions of folders, nicknames and signatures: only what is
\* rejected is refused.
NameOutcome(verdict) == IF verdict = "reject" THEN "refused" ELSE "normal"

Consequence(surface, verdict) == CASE surface = "comment" -> CommentOutcome(verdict)
                                   [] surface = "moment" -> MomentOutcome(verdict)
                                   [] OTHER -> NameOutcome(verdict)

\* Names are audited without their links.
LinksOf(lists, surface, sites) == CheckLinks(IF surface = "name" THEN {} ELSE sites, lists)

VerdictOn(library, lists, surface, text, sites, strict) ==
  AuditText(Match(library, text), LinksOf(lists, surface, sites), strict)

\* Only the notice about a moment carries an excerpt.
AuditOf(library, lists, surface, text, sites) ==
  LET hits == Match(library, text)
      verdict == VerdictOn(library, lists, surface, text, sites, FALSE)
      blamed == Blamed(hits, LinksOf(lists, surface, sites))
  IN [surface |-> surface, text |-> text, sites |-> sites, hits |-> hits,
      verdict |-> verdict, lists |-> lists, blamed |-> blamed,
      outcome |-> Consequence(surface, verdict),
      named |-> IF blamed = "links" THEN {} ELSE UNION {CompactHits(hits[l]) : l \in Levels},
      excerpt |-> IF surface = "moment" /\ verdict = "reject"
                  THEN MaskText(text, AllHits(hits)) ELSE <<>>]

\* A process without a library tries to read it again.
Audits(surface, text, sites) ==
  /\ loaded' = IF loaded = Unread /\ Readable(wordFiles)
               THEN ReadLibrary(wordFiles) ELSE loaded
  /\ audited' = AuditOf(loaded', siteLists, surface, text, sites)
  /\ UNCHANGED <<wordFiles, siteLists, edits>>

\* The files are changed under the process; no route makes it read them again.
EditsFiles(files, lists) ==
  /\ edits < LibraryEdits
  /\ wordFiles' = files /\ siteLists' = lists
  /\ edits' = edits + 1
  /\ audited' = NoAudit
  /\ UNCHANGED loaded

Restarts ==
  /\ loaded' = Unread
  /\ audited' = NoAudit
  /\ UNCHANGED <<wordFiles, siteLists, edits>>

WordNext ==
  \/ \E surface \in Surfaces, text \in Texts, sites \in Sites :
        audited = NoAudit /\ Audits(surface, text, sites)
  \/ \E files \in Libraries, lists \in SiteLists : EditsFiles(files, lists)
  \/ Restarts

WordSpec == WordInit /\ [][WordNext]_wordVars

-----------------------------------------------------------------------------
(* Properties.                                                             *)

Severity(verdict) == CASE verdict = "pass" -> 1
                       [] verdict = "audit" -> 2
                       [] OTHER -> 3

\* The words a library has at a level.
WordsAt(library, level) == IF library = Unread THEN {} ELSE library[level].ends

\* Words that contain one another, or overlap, are all found: the hits are
\* the words of the library in use that occur anywhere in the text, and this
\* library is what the files had when it was read.  There is none only while
\* a file of a category keeps it from being read.
FindsEveryWord ==
  audited # NoAudit =>
    /\ loaded = Unread => wordFiles.categories # {}
    /\ \A l \in Levels :
         /\ audited.hits[l] = {w \in WordsAt(loaded, l) : Occurrences(w, audited.text) # {}}
         /\ loaded # Unread /\ edits = 0 =>
              WordsAt(loaded, l) = {w \in wordFiles.flat[l] : Usable(w, wordFiles.exempt)}

\* More text or one more site never gets a milder verdict, nor does a user at
\* risk: what is refused cannot be carried past the audit inside more text.
NeverMilder ==
  audited # NoAudit =>
    LET Verdict(text, sites, strict) ==
          Severity(VerdictOn(loaded, audited.lists, audited.surface, text, sites, strict))
        own == Severity(audited.verdict)
    IN /\ \A i \in 1 .. Len(audited.text) :
            Verdict(SubSeq(audited.text, 1, i), audited.sites, FALSE) <= own
       /\ \A i \in 2 .. Len(audited.text) :
            Verdict(SubSeq(audited.text, i, Len(audited.text)), audited.sites, FALSE)
              <= own
       /\ \A sites \in SUBSET audited.sites : Verdict(audited.text, sites, FALSE) <= own
       /\ Verdict(audited.text, audited.sites, TRUE) >= own

\* Nothing with a high word of the library in use, or with a site of the black list outside a name,
\* is shown anywhere; a suspicious word is shown in names and descriptions only.
NothingShown ==
  audited # NoAudit /\ audited.outcome = "normal" =>
    /\ audited.hits["high"] = {}
    /\ audited.surface \in {"comment", "moment"} => audited.hits["medium"] = {}
    /\ audited.surface # "name" =>
         ~\E s \in audited.sites, d \in audited.lists.black : IsSuffix(d, s)

\* The excerpt in a notice keeps no hit in the open, but for a word that ends
\* with the character it begins with: two of those may share that character,
\* and the second is then passed over.
ExcerptHides ==
  audited # NoAudit =>
    \A w \in AllHits(audited.hits) :
      (Len(w) > 2 /\ w[1] = w[Len(w)]) \/ Occurrences(w, audited.excerpt) = {}

\* Where the words are the reason, every hit is named in it, itself or within
\* a longer one.
ReasonCovers ==
  audited # NoAudit /\ audited.blamed = "words" =>
    \A w \in AllHits(audited.hits) :
      \E named \in audited.named : Occurrences(w, named) # {}

\* An audit overlooks no word of the library in use, which is none as long as
\* a category lies among the files; its verdict cannot be softened by adding
\* to the text, nothing it finds forbidden is shown, and a notice does not
\* repeat the words it is about (match, audit_text, mask_text, notify.py).
WordsHold ==
  /\ FindsEveryWord /\ NeverMilder /\ NothingShown /\ ExcerptHides /\ ReasonCovers

=============================================================================
