-------------------------- MODULE MCFlowAggregator --------------------------
\* Model-checking instance of FlowAggregator: two processes that talk to the
\* same address, as distinct flows.
EXTENDS FlowAggregator

CONSTANTS p1, p2, ip1

MCFlowKeys == {[pid |-> p1, ip |-> ip1], [pid |-> p2, ip |-> ip1]}
=============================================================================
