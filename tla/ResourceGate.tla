---------------------------- MODULE ResourceGate ----------------------------
(***************************************************************************)
(* The gate before every operation on a resource.  An operation of a biz   *)
(* class declares what it needs (biz_action): that the resource exists and *)
(* may be interacted with, that neither side blocks the other, or nothing. *)
(* The gate looks at the resource, asks the service that owns a remote     *)
(* one, looks at the relation to the author, and then the operation runs:  *)
(* separate steps, while the resource is taken down, comes back, and the   *)
(* two users block each other.  A view passes a gate of its own twice, at  *)
(* the page and at the consumer.                                           *)
(***************************************************************************)
EXTENDS Integers, FiniteSets

CONSTANT GateRequests      \* bound: requests of a behaviour

ASSUME GateAssumption == GateRequests \in Nat

VARIABLES
  kindAsked,   \* the kind of the resource that requests are about
  shape,       \* the state of a resource of each kind
  owned,       \* the author makes the requests himself
  blocking,    \* who blocks the other: "author", "asker"
  gateReq,     \* the request under way
  gateReqs     \* requests so far

gateVars == <<kindAsked, shape, owned, blocking, gateReq, gateReqs>>

Rpa == {"rpa", "browser"}
Crawled == {"lottery", "others"}       \* kept by the crawler service
Remote == Rpa \cup Crawled
Biz == {"dynamic", "comment", "user"} \cup Remote

\* ResourceAuditStatusEnum, with the rows that are gone; a user, and what
\* another service keeps, is there or not.
Shapes(kind) ==
  IF kind \in {"dynamic", "comment"}
  THEN {"normal", "auditing", "rejected", "hidden", "deleted"}
  ELSE {"normal", "deleted"}

Sides == {"author", "asker"}
NoGateRequest == [op |-> "none"]
Outcomes == {"acted", "missing", "blocked", "unsupported", "failed", "unposted",
             "dropped"}
Phases == {"exists", "author", "relation", "act", "post", "consume"} \cup Outcomes

GateTypeOK ==
  /\ kindAsked \in Biz
  /\ shape \in [Biz -> {"normal", "auditing", "rejected", "hidden", "deleted"}]
  /\ owned \in BOOLEAN
  /\ blocking \in SUBSET Sides
  /\ gateReq # NoGateRequest => gateReq.phase \in Phases
  /\ gateReqs \in 0 .. GateRequests

GateInit ==
  /\ kindAsked \in Biz
  /\ shape = [kind \in Biz |-> "normal"]
  /\ owned \in BOOLEAN
  /\ blocking = {}
  /\ gateReq = NoGateRequest
  /\ gateReqs = 0

-----------------------------------------------------------------------------
(* What the operations declare.                                            *)

\* "resource": it must exist and be open; "unblocked": and the relation is
\* checked as well; "open": nothing; "own": the operation looks for itself.
DynamicNeeds == [like |-> "unblocked", dislike |-> "resource",
                 favorite |-> "unblocked", share |-> "resource",
                 repost |-> "unblocked", reply |-> "resource",
                 report |-> "resource", view |-> "view", audit |-> "open",
                 hide |-> "open", complain |-> "own"]

GenericNeeds == [like |-> "resource", dislike |-> "resource",
                 favorite |-> "unblocked", share |-> "resource",
                 repost |-> "resource", reply |-> "resource",
                 report |-> "resource", view |-> "view", audit |-> "resource",
                 hide |-> "open", complain |-> "open"]

\* like and favorite of RpaBrowserBiz replace those of the base class.
BrowserNeeds ==
  [GenericNeeds EXCEPT !.like = "unsupported", !.favorite = "unsupported"]

CommentNeeds == [reply |-> "resource", report |-> "resource", audit |-> "open",
                 hide |-> "open", complain |-> "own", view |-> "view"]

UserNeeds == [follow |-> "resource", unfollow |-> "resource",
              block |-> "resource", unblock |-> "resource",
              report |-> "resource", complain |-> "own", audit |-> "open",
              hide |-> "open", view |-> "view"]

\* get_biz: the class of the kind; what it does not override is unsupported.
NeedsOf(kind) == CASE kind = "dynamic" -> DynamicNeeds
                   [] kind = "comment" -> CommentNeeds
                   [] kind = "user" -> UserNeeds
                   [] kind = "browser" -> BrowserNeeds
                   [] OTHER -> GenericNeeds

Deeds == (DOMAIN DynamicNeeds) \cup (DOMAIN UserNeeds)
Needs(kind, op) ==
  IF op \in DOMAIN NeedsOf(kind) THEN NeedsOf(kind)[op] ELSE "unsupported"

-----------------------------------------------------------------------------
(* What there is to see.                                                   *)

\* A moment that was rejected or taken down counts as gone; a comment exists
\* as long as its row does.
Exists(kind, state) ==
  CASE kind = "dynamic" -> state \in {"normal", "auditing"}
    [] kind = "comment" -> TRUE
    [] OTHER -> state = "normal"

Open(kind, state) == Exists(kind, state) /\ state = "normal"

\* Seeded bug: only the author's block counts.
BlockedOneWay == "author" \in blocking

Blocked == blocking # {}

\* The service answers, says that it has no such thing, or does not answer.
Answers(kind) == {"down", IF shape[kind] = "normal" THEN "yes" ELSE "no"}

\* batch_get_resource_snapshots: one call per kind, and the kinds in failing
\* do not answer.  The call for lotteries only asks for identifiers that are
\* integers, and is given strings.
Snapshot(failing) ==
  [kind \in Biz |-> /\ kind \notin failing
                    /\ kind \notin {"lottery", "user"}
                    /\ kind \in Rpa \/ Exists(kind, shape[kind])]

-----------------------------------------------------------------------------
(* The gate of a request.                                                  *)

GoesTo(phase) == gateReq' = [gateReq EXCEPT !.phase = phase]
SameAround == UNCHANGED <<kindAsked, shape, owned, blocking, gateReqs>>

FirstPhase(need) == CASE need = "open" -> "act"
                      [] need = "view" -> "post"
                      [] need = "unsupported" -> "unsupported"
                      [] OTHER -> "exists"

Requests(op) ==
  /\ gateReq = NoGateRequest /\ gateReqs < GateRequests
  /\ gateReq' = [op |-> op, phase |-> FirstPhase(Needs(kindAsked, op)),
                 author |-> FALSE, down |-> FALSE,
                 shapes |-> {shape[kindAsked]}, blocks |-> {blocking # {}}]
  /\ gateReqs' = gateReqs + 1
  /\ UNCHANGED <<kindAsked, shape, owned, blocking>>

\* to_resource_model and check_resource of a moment or a comment: one row,
\* kept in the instance.  UserBiz compares an identifier that is a string
\* with a number, so looking for a user always fails.
ReadsRow ==
  /\ gateReq # NoGateRequest /\ gateReq.phase = "exists"
  /\ Needs(kindAsked, gateReq.op) # "own"
  /\ kindAsked \notin Remote
  /\ IF kindAsked = "user" THEN GoesTo("failed")
     ELSE IF Open(kindAsked, shape[kindAsked])
          THEN gateReq' = [gateReq EXCEPT !.phase = "relation", !.author = TRUE]
          ELSE GoesTo("missing")
  /\ SameAround

\* The same of a resource elsewhere: no answer means that there is none, and
\* nobody is asked about a resource of the RPA service.
AsksExistence(answer) ==
  /\ gateReq # NoGateRequest /\ gateReq.phase = "exists"
  /\ kindAsked \in Remote
  /\ IF kindAsked \in Rpa \/ answer = "yes" THEN GoesTo("author")
     ELSE gateReq' = [gateReq EXCEPT !.phase = "missing",
                                     !.down = @ \/ answer = "down"]
  /\ SameAround

\* _load_author_mid, another call: only the RPA service knows a user of ours,
\* and no answer leaves the author unknown.
AsksAuthor(answer) ==
  /\ gateReq # NoGateRequest /\ gateReq.phase = "author"
  /\ gateReq' = [gateReq EXCEPT !.phase = "relation",
                                !.author = kindAsked \in Rpa /\ answer = "yes",
                                !.down = @ \/ answer = "down"]
  /\ SameAround

\* _check_relation: neither an unknown author nor the author himself.
ChecksRelation ==
  /\ gateReq # NoGateRequest /\ gateReq.phase = "relation"
  /\ GoesTo(IF /\ Needs(kindAsked, gateReq.op) = "unblocked"
               /\ gateReq.author /\ ~owned /\ Blocked
            THEN "blocked" ELSE "act")
  /\ SameAround

\* The unified report looks the accused up by itself (resolve_accused): a
\* moment that was not deleted, a comment whatever its state.
FindsAccused ==
  /\ gateReq # NoGateRequest /\ gateReq.phase = "exists"
  /\ Needs(kindAsked, gateReq.op) = "own"
  /\ GoesTo(CASE kindAsked = "user" -> "failed"
              [] kindAsked = "dynamic" /\ shape[kindAsked] = "deleted" -> "missing"
              [] OTHER -> "act")
  /\ SameAround

\* The operation itself: the modules of the counters, the comments and the
\* reports say what it does.  An audit is carried out by the RPA service, and
\* only what it publishes can be audited there.
Performs(answer) ==
  /\ gateReq # NoGateRequest /\ gateReq.phase = "act"
  /\ GoesTo(IF gateReq.op = "audit" /\ kindAsked \in Remote
            THEN IF kindAsked # "rpa" THEN "unsupported"
                 ELSE IF answer = "down" THEN "failed" ELSE "acted"
            ELSE "acted")
  /\ SameAround

-----------------------------------------------------------------------------
(* The gates of a view.                                                    *)

\* verify_resources_exist is given a string and compares it with integers: a
\* moment is never found; a lottery is let through when nobody answers.
PostsView(answer) ==
  /\ gateReq # NoGateRequest /\ gateReq.phase = "post"
  /\ LET passes == IF kindAsked \in Crawled THEN answer = "down"
                   ELSE kindAsked # "dynamic"
     IN GoesTo(IF passes THEN "consume" ELSE "unposted")
  /\ SameAround

\* check_exists_state of the consumer: no answer is not a no.  A comment has
\* no views, and the look for a user fails: both are given up.
ConsumesView(answer) ==
  /\ gateReq # NoGateRequest /\ gateReq.phase = "consume"
  /\ CASE kindAsked \in {"user", "comment"} -> GoesTo("dropped")
       [] kindAsked \in Crawled /\ answer = "no" -> GoesTo("dropped")
       [] OTHER -> gateReq' = [gateReq EXCEPT !.phase = "act",
                                              !.down = @ \/ answer = "down"]
  /\ SameAround

-----------------------------------------------------------------------------
(* What happens meanwhile.                                                 *)

Answered == /\ gateReq # NoGateRequest /\ gateReq.phase \in Outcomes
            /\ gateReq' = NoGateRequest
            /\ SameAround

\* What the request could have seen, kept for the properties.
Witnessed(state, block) ==
  IF gateReq = NoGateRequest \/ gateReq.phase \in Outcomes
  THEN UNCHANGED gateReq
  ELSE gateReq' = [gateReq EXCEPT !.shapes = @ \cup {state},
                                  !.blocks = @ \cup {block}]

Turns(state) ==
  /\ state # shape[kindAsked]
  /\ shape' = [shape EXCEPT ![kindAsked] = state]
  /\ Witnessed(state, blocking # {})
  /\ UNCHANGED <<kindAsked, owned, blocking, gateReqs>>

Blocks(side) ==
  /\ ~owned
  /\ blocking' = IF side \in blocking THEN blocking \ {side}
                 ELSE blocking \cup {side}
  /\ Witnessed(shape[kindAsked], blocking' # {})
  /\ UNCHANGED <<kindAsked, shape, owned, gateReqs>>

GateNext ==
  \/ \E op \in Deeds : Requests(op)
  \/ ReadsRow \/ ChecksRelation \/ FindsAccused \/ Answered
  \/ \E answer \in Answers(kindAsked) :
       \/ AsksExistence(answer) \/ AsksAuthor(answer)
       \/ PostsView(answer) \/ ConsumesView(answer) \/ Performs(answer)
  \/ \E state \in Shapes(kindAsked) : Turns(state)
  \/ \E side \in Sides : Blocks(side)

GateSpec == GateInit /\ [][GateNext]_gateVars

-----------------------------------------------------------------------------
(* Properties.                                                             *)

Got(outcome) == gateReq # NoGateRequest /\ gateReq.phase = outcome
Need == Needs(kindAsked, gateReq.op)

\* An operation that needs an open resource ran only if the resource was open
\* at some moment of the request; resources of the RPA service are not asked
\* about, so theirs may be gone.
ActedOnOpen ==
  Got("acted") /\ Need \in {"resource", "unblocked"} /\ kindAsked \notin Rpa
    => "normal" \in gateReq.shapes

\* A user who was blocked, or blocked the author, all the time did nothing
\* that needs them on terms, unless the author could not be learnt.
ActedOnTerms ==
  Got("acted") /\ Need = "unblocked" /\ gateReq.author
    => FALSE \in gateReq.blocks

\* Who is turned away was so for a moment of the request: the resource was
\* not open, or its service did not answer; or one side blocked the other.
TurnedAwayForReason ==
  /\ Got("missing") => \/ gateReq.shapes # {"normal"}
                       \/ kindAsked \in Crawled /\ gateReq.down
  /\ Got("blocked") => TRUE \in gateReq.blocks

\* A view of something that can be viewed is given up by the consumer only if
\* the resource was really gone for a moment, never for want of an answer.
ViewKept == Got("dropped") /\ kindAsked \in Remote => "deleted" \in gateReq.shapes

\* Once something is gone or closed: a kind whose service fails does not take
\* the others' snapshots with it, and no snapshot shows what is gone as
\* present, except at the RPA service.
SnapshotsApart ==
  shape[kindAsked] # "normal" =>
    \A failing \in SUBSET {"dynamic", "comment", "rpa", "others"} :
      /\ \A kind \in Biz \ failing : Snapshot(failing)[kind] = Snapshot({})[kind]
      /\ \A kind \in Biz \ Rpa :
           Snapshot(failing)[kind] => Exists(kind, shape[kind])

\* What the gate lets through or turns away is justified by some moment of
\* the request, however the resource and the relation change under it
\* (biz_action, to_resource_model, _check_relation, handle_interaction_view).
GateHolds ==
  /\ ActedOnOpen /\ ActedOnTerms /\ TurnedAwayForReason /\ ViewKept
  /\ SnapshotsApart

=============================================================================
