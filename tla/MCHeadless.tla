----------------------------- MODULE MCHeadless -----------------------------
\* Model-checking instance of Headless: one process, one or two flows.
EXTENDS Headless, TLC

CONSTANTS p1, ip1, ip2, chrome

OneFlow == {[pid |-> p1, ip |-> ip1]}
TwoFlows == OneFlow \cup {[pid |-> p1, ip |-> ip2]}
MCProcesses == p1 :> chrome
=============================================================================
