------------------------------ MODULE MCInbox ------------------------------
(***************************************************************************)
(* What lies in a user's inbox: private messages, sent one at a time, and  *)
(* notices of the system.  The two share no state: a behaviour is one of a *)
(* single component.                                                       *)
(***************************************************************************)
EXTENDS DmMailbox, Notices, TLC

CONSTANTS w1, w2, ua, ub

VARIABLE part     \* the component of the behaviour

\* A pair of workers, and the two users.
Symmetry == Permutations({w1, w2}) \cup Permutations({ua, ub})

\* A recall, a closed session and a change of the follows.
BudgetsDef ==
  {[ack |-> 0, delete |-> 0, recall |-> 1, close |-> 1, admin |-> 0, follow |-> 1]}

NoMessages == UNCHANGED vars
NoNotices == UNCHANGED noticeVars

\* What the messages choose once and for all is fixed where they take no step.
InboxInit ==
  /\ part \in {"messages", "notices"}
  /\ Init /\ NoticesInit
  /\ part # "messages" => accepts = {} /\ \A k \in Key : send[k].from = ua

InboxNext ==
  /\ UNCHANGED part
  /\ \/ part = "messages" /\ Next /\ NoNotices
     \/ part = "notices" /\ NoticesNext /\ NoMessages

InboxSpec == InboxInit /\ [][InboxNext]_<<part, vars, noticeVars>>

\* The types of the variables of both components.
InboxTypeOK == TypeOK /\ NoticesTypeOK

=============================================================================
