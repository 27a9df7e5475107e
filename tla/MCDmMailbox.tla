---------------------------- MODULE MCDmMailbox ----------------------------
EXTENDS DmMailbox, TLC

CONSTANTS Acks, Deletes, Recalls, Closes, Admins, Follows

\* The requests of the run; or, where sessions are closed and follows change,
\* nothing else but a deletion and a recall.
BudgetsDef ==
  {[ack |-> Acks, delete |-> Deletes, recall |-> Recalls, close |-> 0, admin |-> Admins, follow |-> 0],
   [ack |-> 0, delete |-> Deletes, recall |-> Recalls, close |-> Closes, admin |-> 0, follow |-> Follows]}

Symmetry == Permutations(User)

=============================================================================
