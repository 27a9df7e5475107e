---------------------------- MODULE MCDmContent ----------------------------
EXTENDS DmContent, TLC

\* Messages, and consumer invocations, are interchangeable.
Symmetry == Permutations(Msg) \cup Permutations(Worker)

=============================================================================
