-------------------------- MODULE MCPushAggregator --------------------------
EXTENDS PushAggregator

CONSTANTS m4, m5, k1, k2

\* Two receivers and titles: m4 and m5 are for one, the others for the other.
KeyOfDef == [m \in Message |-> IF m \in {m4, m5} THEN k2 ELSE k1]

=============================================================================
